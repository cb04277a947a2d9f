----------------------------- MODULE Rpn16_proofs -----------------------------
(***************************************************************************)
(* For every word size, stack size and program: the calculator stays       *)
(* inside its stack array, and it implements the sequence machine RpnStack *)
(* through the view logical_stack.                                         *)
(***************************************************************************)
EXTENDS Rpn16, SequenceTheorems, SetInduction, TLAPS

USE HalfAssumption, Rpn16Assumption

\* An instruction's result is always a word.
LEMMA WrapIsWord == ASSUME NEW x \in Int PROVE Wrap(x) \in Word
<1>1. (x + Half) % (2 * Half) \in 0 .. 2 * Half - 1
  OBVIOUS
<1> QED
  BY <1>1 DEF Wrap, Word

\* So is a binary operation's, on any two words it is applied to.
LEMMA ApplyIsWord ==
  ASSUME NEW op \in BinaryOps, NEW lhs \in Word, NEW rhs \in Word,
         op \in zero_sensitive => rhs # 0
  PROVE  Apply(op, lhs, rhs) \in Word
<1>1. lhs + rhs \in Int /\ lhs - rhs \in Int /\ lhs * rhs \in Int
  BY DEF Word
<1>2. CASE op = "+"
  BY <1>1, <1>2, WrapIsWord DEF Apply
<1>3. CASE op = "-"
  BY <1>1, <1>3, WrapIsWord DEF Apply
<1>4. CASE op = "*"
  BY <1>1, <1>4, WrapIsWord DEF Apply
<1>5. ASSUME op \in zero_sensitive
      PROVE  TruncQuotient(lhs, rhs) \in Int
  <2>1. Magnitude(lhs) \in Nat /\ Magnitude(rhs) \in Nat \ {0}
    BY <1>5 DEF Magnitude, Word
  <2>2. Magnitude(lhs) \div Magnitude(rhs) \in Int
    BY <2>1
  <2> QED
    BY <2>2 DEF TruncQuotient
<1>6. CASE op = "/"
  BY <1>5, <1>6, WrapIsWord DEF Apply, zero_sensitive
<1>7. CASE op = "%"
  <2>1. TruncRemainder(lhs, rhs) \in Int
    BY <1>5, <1>7 DEF TruncRemainder, zero_sensitive, Word
  <2> QED
    BY <2>1, <1>7, WrapIsWord DEF Apply
<1> QED
  BY <1>2, <1>3, <1>4, <1>6, <1>7 DEF BinaryOps

-----------------------------------------------------------------------------
(***************************************************************************)
(* Type correctness is inductive as it stands: each guard on sp keeps the  *)
(* slots its action touches inside the array.                              *)
(***************************************************************************)
\* A zeroed context is well typed.
LEMMA TypeInit == Init => TypeOK
  BY DEF Init, TypeOK, Slots, Word

\* Every action keeps the types, sp within the array included.
LEMMA TypeStep == TypeOK /\ [Next]_vars => TypeOK'
<1> SUFFICES ASSUME TypeOK, [Next]_vars
             PROVE  TypeOK'
  OBVIOUS
<1> USE DEF TypeOK, Slots
<1> DEFINE Cell == [kind : {"lit"}, value : LiteralValues] \cup [kind : {"op"}, value : Opcodes]
<1>1. ASSUME NEW c \in Cell, Fetch(c)
      PROVE  cells' \in Seq(Cell) /\ ip' \in Nat /\ cell_count' \in Nat
  BY <1>1 DEF Fetch
<1>2. \A v \in Literals : Lit(v) \in Cell
  BY DEF Lit
<1>3. \A o \in Opcodes : Op(o) \in Cell
  BY DEF Op
<1>3a. \A op \in BinaryOps \cup {"="} : Op(op) \in Cell
  BY <1>3
<1>3b. ASSUME NEW c \in Cell, Fetch(c),
              NEW s \in {"STACK_UNDERFLOW", "DIVIDE_BY_ZERO", "BAD_OPCODE",
                         "STACK_NOT_SINGLETON", "STACK_OVERFLOW"},
              Fail(s)
       PROVE  TypeOK'
  <2>1. cells' \in Seq(Cell) /\ ip' \in Nat /\ cell_count' \in Nat
    BY <1>1, <1>3b
  <2>2. /\ stack' = stack /\ sp' = sp
        /\ status' = s /\ result' = 0 /\ phase' = "idle"
    BY <1>3b DEF Fail, Return
  <2> QED
    BY <2>1, <2>2 DEF Word
<1>4. ASSUME NEW n \in 1 .. MaxCells, NEW ctx \in Contexts, Evaluate(n, ctx)
      PROVE  TypeOK'
  BY <1>4 DEF Evaluate, reset, Word
<1>5. CASE MissingExit
  BY <1>5 DEF MissingExit, Fail, Return, Word
<1>6. ASSUME NEW v \in Literals, Literal(v)
      PROVE  TypeOK'
  <2>1. sp \in 1 .. StackSize /\ v \in Word
    BY <1>6 DEF Literal, has_room, LiteralValues, Word
  <2> QED
    BY <1>1, <1>2, <1>6, <2>1 DEF Literal, push, Continue
<1>7. ASSUME NEW v \in Literals, LiteralOverflow(v)
      PROVE  TypeOK'
  BY <1>2, <1>3b, <1>7 DEF LiteralOverflow
<1>8. ASSUME NEW op \in BinaryOps, Binary(op)
      PROVE  TypeOK'
  <2>1. sp \in Slots /\ sp + 1 \in Slots
    BY <1>8 DEF Binary, has_at_least
  <2>2. stack[sp] \in Word /\ stack[sp + 1] \in Word
    BY <2>1
  <2>3. Apply(op, stack[sp + 1], stack[sp]) \in Word
    BY <1>8, <2>2, ApplyIsWord DEF Binary, pop2
  <2>4. stack' \in [Slots -> Word] /\ sp' \in 0 .. StackSize
    BY <1>8, <2>1, <2>3 DEF Binary, pop2
  <2> QED
    BY <1>1, <1>3a, <1>8, <2>4 DEF Binary, Continue
<1>9. ASSUME NEW op \in BinaryOps, BinaryUnderflow(op)
      PROVE  TypeOK'
  BY <1>3a, <1>3b, <1>9 DEF BinaryUnderflow
<1>10. ASSUME NEW op \in BinaryOps, BinaryByZero(op)
       PROVE  TypeOK'
  BY <1>3a, <1>3b, <1>10 DEF BinaryByZero
<1>11. ASSUME NEW op \in BinaryOps, BinaryTrap(op)
       PROVE  TypeOK'
  BY <1>1, <1>3a, <1>11 DEF BinaryTrap
<1>12. CASE ExitSingleton
  <2>1. sp \in Slots
    BY <1>12 DEF ExitSingleton, has_exactly
  <2> QED
    BY <1>1, <1>3a, <1>12, <2>1 DEF ExitSingleton, Return, peek
<1>13. CASE ExitNotSingleton
  BY <1>3a, <1>3b, <1>13 DEF ExitNotSingleton
<1>14. ASSUME NEW o \in Opcodes, BadOpcode(o)
       PROVE  TypeOK'
  BY <1>3, <1>3b, <1>14 DEF BadOpcode
<1>15. CASE UNCHANGED vars
  BY <1>15 DEF vars
<1> QED
  BY <1>4, <1>5, <1>6, <1>7, <1>8, <1>9, <1>10, <1>11, <1>12, <1>13, <1>14, <1>15 DEF Next

\* No call ever pushes, pops or peeks outside the context's stack array, and
\* every value it computes is a word.
THEOREM TypeCorrect == Spec => []TypeOK
  BY TypeInit, TypeStep, PTL DEF Spec

-----------------------------------------------------------------------------
(***************************************************************************)
(* Refinement: what each kind of step does to logical_stack.               *)
(***************************************************************************)
\* The view is a sequence of words, StackSize - sp of them, read from the array's end.
LEMMA LogicalStackView ==
  ASSUME TypeOK
  PROVE  /\ logical_stack \in Seq(Word)
         /\ Len(logical_stack) = StackSize - sp
         /\ \A i \in 1 .. StackSize - sp : logical_stack[i] = stack[StackSize - i]
<1>1. StackSize - sp \in Nat /\ \A i \in 1 .. StackSize - sp : StackSize - i \in Slots
  BY DEF TypeOK, Slots
<1>2. \A i \in 1 .. StackSize - sp : stack[StackSize - i] \in Word
  BY <1>1 DEF TypeOK
<1> QED
  BY <1>1, <1>2 DEF logical_stack

\* The same of the next state.
LEMMA LogicalStackViewNext ==
  ASSUME TypeOK'
  PROVE  /\ logical_stack' \in Seq(Word)
         /\ Len(logical_stack') = StackSize - sp'
         /\ \A i \in 1 .. StackSize - sp' : logical_stack'[i] = stack'[StackSize - i]
<1>1. StackSize - sp' \in Nat /\ \A i \in 1 .. StackSize - sp' : StackSize - i \in Slots
  BY DEF TypeOK, Slots
<1>2. \A i \in 1 .. StackSize - sp' : stack'[StackSize - i] \in Word
  BY <1>1 DEF TypeOK
<1> QED
  BY <1>1, <1>2 DEF logical_stack

\* A push appends to the view.
LEMMA PushView ==
  ASSUME TypeOK, TypeOK', NEW v \in Word, has_room, push(v)
  PROVE  logical_stack' = Append(logical_stack, v)
<1> DEFINE n == StackSize - sp
<1>1. n \in Nat /\ sp \in 1 .. StackSize /\ StackSize - sp' = n + 1 /\ StackSize - (n + 1) = sp - 1
  BY DEF TypeOK, has_room, push
<1>2. /\ logical_stack \in Seq(Word)
      /\ Len(logical_stack) = n
      /\ \A i \in 1 .. n : logical_stack[i] = stack[StackSize - i]
  BY LogicalStackView
<1>3. /\ logical_stack' \in Seq(Word)
      /\ Len(logical_stack') = n + 1
      /\ \A i \in 1 .. n + 1 : logical_stack'[i] = stack'[StackSize - i]
  BY <1>1, LogicalStackViewNext
<1>4. \A i \in 1 .. n : stack'[StackSize - i] = stack[StackSize - i]
  BY <1>1 DEF TypeOK, Slots, push
<1>5. stack'[StackSize - (n + 1)] = v
  BY <1>1 DEF TypeOK, Slots, push
<1> HIDE DEF n
<1>6. \A i \in 1 .. n : logical_stack'[i] = logical_stack[i]
  BY <1>1, <1>2, <1>3, <1>4
<1>7. logical_stack'[n + 1] = v
  BY <1>1, <1>3, <1>5
<1> QED
  BY <1>2, <1>3, <1>6, <1>7, AppendEqual

\* A binary operation replaces the view's last two values by its result.
LEMMA ReduceView ==
  ASSUME TypeOK, TypeOK', NEW v \in Word, has_at_least(2),
         stack' = [stack EXCEPT ![sp + 1] = v], sp' = sp + 1
  PROVE  logical_stack' = Append(SubSeq(logical_stack, 1, StackSize - sp - 2), v)
<1> DEFINE n == StackSize - sp - 2
           kept == SubSeq(logical_stack, 1, n)
<1>1. /\ n \in Nat
      /\ sp + 1 \in Slots
      /\ StackSize - sp' = n + 1
      /\ StackSize - (n + 1) = sp + 1
  BY DEF TypeOK, Slots, has_at_least
<1>2. /\ logical_stack \in Seq(Word)
      /\ Len(logical_stack) = n + 2
      /\ \A i \in 1 .. n + 2 : logical_stack[i] = stack[StackSize - i]
  BY <1>1, LogicalStackView DEF TypeOK
<1>3. /\ logical_stack' \in Seq(Word)
      /\ Len(logical_stack') = n + 1
      /\ \A i \in 1 .. n + 1 : logical_stack'[i] = stack'[StackSize - i]
  BY <1>1, LogicalStackViewNext
<1>4. \A i \in 1 .. n : stack'[StackSize - i] = stack[StackSize - i]
  BY <1>1 DEF TypeOK, Slots
<1>5. stack'[StackSize - (n + 1)] = v
  BY <1>1 DEF TypeOK
<1>6. kept \in Seq(Word) /\ Len(kept) = n /\ \A i \in 1 .. n : kept[i] = logical_stack[i]
  BY <1>1, <1>2
<1> HIDE DEF n, kept
<1>7. ASSUME NEW i \in 1 .. n PROVE logical_stack'[i] = kept[i]
  <2>1. i \in 1 .. n + 1 /\ i \in 1 .. n + 2
    BY <1>1
  <2> QED
    BY <1>2, <1>3, <1>4, <1>6, <2>1
<1>8. logical_stack'[n + 1] = v
  BY <1>1, <1>3, <1>5
<1>9. logical_stack' = Append(kept, v)
  BY <1>3, <1>6, <1>7, <1>8, AppendEqual
<1> QED
  BY <1>9 DEF n, kept

\* The specification's arithmetic is the calculator's.
LEMMA SameArithmetic ==
  /\ Abstract!BinaryOps = BinaryOps
  /\ Abstract!zero_sensitive = zero_sensitive
  /\ Abstract!LiteralValues = LiteralValues
  /\ \A op, lhs, rhs : Abstract!Undefined(op, lhs, rhs) = Undefined(op, lhs, rhs)
  /\ \A op, lhs, rhs : Abstract!Apply(op, lhs, rhs) = Apply(op, lhs, rhs)
<1>1. \A x : Abstract!Wrap(x) = Wrap(x)
  BY Zenon DEF Abstract!Wrap, Wrap
<1>2. \A x : Abstract!Magnitude(x) = Magnitude(x)
  BY Zenon DEF Abstract!Magnitude, Magnitude
<1>3. \A x, y : Abstract!TruncQuotient(x, y) = TruncQuotient(x, y)
  BY <1>2, Zenon DEF Abstract!TruncQuotient, TruncQuotient
<1>4. \A x, y : Abstract!TruncRemainder(x, y) = TruncRemainder(x, y)
  BY <1>3, Zenon DEF Abstract!TruncRemainder, TruncRemainder
<1>5. \A op, lhs, rhs : Abstract!Apply(op, lhs, rhs) = Apply(op, lhs, rhs)
  BY <1>1, <1>3, <1>4, Zenon DEF Abstract!Apply, Apply
<1> QED
  BY <1>5, Zenon
  DEF Abstract!BinaryOps, BinaryOps, Abstract!zero_sensitive, zero_sensitive,
      Abstract!LiteralValues, LiteralValues, Abstract!Undefined, Undefined

\* A zeroed context is the sequence machine's initial state.
LEMMA RefinementInit == Init => Abstract!Init
  BY DEF Init, Abstract!Init, logical_stack, Slots

\* Each action of the calculator is one of the sequence machine's, or a stutter.
LEMMA RefinementStep == TypeOK /\ TypeOK' /\ [Next]_vars => [Abstract!Next]_(Abstract!vars)
<1> SUFFICES ASSUME TypeOK, TypeOK', [Next]_vars
             PROVE  [Abstract!Next]_(Abstract!vars)
  OBVIOUS
<1> DEFINE n == StackSize - sp
<1>v. /\ logical_stack \in Seq(Word)
      /\ Len(logical_stack) = n
      /\ \A i \in 1 .. n : logical_stack[i] = stack[StackSize - i]
  BY LogicalStackView
<1>d. Abstract!Depth = n /\ sp \in 0 .. StackSize /\ n \in 0 .. StackSize
  BY <1>v DEF Abstract!Depth, TypeOK
<1>t. n >= 1 => Abstract!Top = stack[sp]
  BY <1>v, <1>d DEF Abstract!Top
<1>s. n >= 2 => Abstract!Second = stack[sp + 1]
  BY <1>v, <1>d DEF Abstract!Second
<1>u. ASSUME UNCHANGED <<stack, sp>> PROVE logical_stack' = logical_stack
  BY <1>u DEF logical_stack
<1>f. ASSUME NEW s \in Abstract!Statuses, phase = "running", Abstract!FailureHolds(s), Fail(s)
      PROVE  Abstract!Next
  BY <1>f, <1>u DEF Fail, Return, Abstract!Fail, Abstract!Next
<1>1. ASSUME NEW m \in 1 .. MaxCells, NEW ctx \in Contexts, Evaluate(m, ctx)
      PROVE  Abstract!Next
  <2>1. sp' = StackSize
    BY <1>1 DEF Evaluate, reset
  <2>2. logical_stack' = <<>>
    BY <2>1 DEF logical_stack
  <2> QED
    BY <1>1, <2>2 DEF Evaluate, Abstract!Begin, Abstract!Next
<1>2. CASE MissingExit
  BY <1>2, <1>f DEF MissingExit, Abstract!FailureHolds, Abstract!Statuses
<1>3. ASSUME NEW v \in Literals, Literal(v)
      PROVE  Abstract!Next
  <2>1. v \in Word /\ v \in LiteralValues
    BY DEF LiteralValues, Word
  <2>2. logical_stack' = Append(logical_stack, v)
    BY <1>3, <2>1, PushView DEF Literal
  <2>3. n < StackSize
    BY <1>3, <1>d DEF Literal, has_room
  <2>4. Abstract!Push(v)
    BY <1>3, <1>d, <2>2, <2>3 DEF Literal, Fetch, Continue, Abstract!Push
  <2> QED
    BY <2>1, <2>4, SameArithmetic DEF Abstract!Next
<1>4. ASSUME NEW v \in Literals, LiteralOverflow(v)
      PROVE  Abstract!Next
  BY <1>4, <1>f, <1>d
  DEF LiteralOverflow, Fetch, has_room, Abstract!FailureHolds, Abstract!Statuses
<1>5. ASSUME NEW op \in BinaryOps, Binary(op)
      PROVE  Abstract!Next
  <2>1. n >= 2 /\ sp \in Slots /\ sp + 1 \in Slots
    BY <1>5, <1>d DEF Binary, has_at_least, Slots
  <2> DEFINE x == Apply(op, stack[sp + 1], stack[sp])
  <2>2. x \in Word
    BY <1>5, <2>1, ApplyIsWord DEF TypeOK, Binary, pop2
  <2>3. stack' = [stack EXCEPT ![sp + 1] = x] /\ sp' = sp + 1
    BY <1>5 DEF Binary, pop2
  <2>4. logical_stack' = Append(SubSeq(logical_stack, 1, n - 2), x)
    <3> HIDE DEF x
    <3> QED
      BY <1>5, <2>2, <2>3, ReduceView DEF Binary
  <2>5. op \in zero_sensitive => stack[sp] # 0
    BY <1>5 DEF Binary, pop2
  <2>6. Abstract!Reduce(op)
    <3>1. phase = "running" /\ UNCHANGED <<status, result, phase>>
      BY <1>5 DEF Binary, Fetch, Continue
    <3> QED
      BY <1>d, <1>t, <1>s, <2>1, <2>4, <2>5, <3>1, SameArithmetic DEF Abstract!Reduce
  <2> QED
    BY <2>6, SameArithmetic DEF Abstract!Next
<1>6. ASSUME NEW op \in BinaryOps, BinaryUnderflow(op)
      PROVE  Abstract!Next
  BY <1>6, <1>f, <1>d
  DEF BinaryUnderflow, Fetch, has_at_least, Abstract!FailureHolds, Abstract!Statuses
<1>7. ASSUME NEW op \in BinaryOps, BinaryByZero(op)
      PROVE  Abstract!Next
  BY <1>7, <1>f, <1>d, <1>t
  DEF BinaryByZero, Fetch, has_at_least, pop2, Abstract!FailureHolds, Abstract!Statuses
<1>8. ASSUME NEW op \in BinaryOps, BinaryTrap(op)
      PROVE  Abstract!Next
  <2>1. n >= 2
    BY <1>8, <1>d DEF BinaryTrap, has_at_least
  <2>2. Undefined(op, stack[sp + 1], stack[sp])
    BY <1>8 DEF BinaryTrap, pop2
  <2>3. Abstract!Trap(op)
    BY <1>8, <1>d, <1>t, <1>s, <1>u, <2>1, <2>2, SameArithmetic DEF BinaryTrap, Fetch, Abstract!Trap
  <2> QED
    BY <2>3, SameArithmetic DEF Abstract!Next
<1>9. CASE ExitSingleton
  <2>1. n = 1
    BY <1>9, <1>d DEF ExitSingleton, has_exactly
  <2>2. Abstract!Succeed
    BY <1>9, <1>d, <1>t, <1>u, <2>1 DEF ExitSingleton, Fetch, Return, peek, Abstract!Succeed
  <2> QED
    BY <2>2 DEF Abstract!Next
<1>10. CASE ExitNotSingleton
  BY <1>10, <1>f, <1>d
  DEF ExitNotSingleton, Fetch, has_exactly, Abstract!FailureHolds, Abstract!Statuses
<1>11. ASSUME NEW o \in Opcodes, BadOpcode(o)
       PROVE  Abstract!Next
  BY <1>11, <1>f DEF BadOpcode, Fetch, Abstract!FailureHolds, Abstract!Statuses
<1>12. CASE UNCHANGED vars
  BY <1>12, <1>u DEF vars, Abstract!vars
<1> QED
  BY <1>1, <1>2, <1>3, <1>4, <1>5, <1>6, <1>7, <1>8, <1>9, <1>10, <1>11, <1>12 DEF Next

\* evaluate() implements the sequence machine: every call starts from an empty
\* stack even on a reused context, every step is a push or a reduction of the
\* top two values, and every status is returned only when it is due.
THEOREM Refinement == Spec => ImplementsRpnStack
<1>1. ASSUME TypeOK, TypeOK', [Next]_vars PROVE [Abstract!Next]_(Abstract!vars)
  BY <1>1, RefinementStep
<1> QED
  BY <1>1, RefinementInit, TypeCorrect, PTL DEF Spec, ImplementsRpnStack, Abstract!Spec
-----------------------------------------------------------------------------
(***************************************************************************)
(* The source: where expressions start, their values, and the tiling, each *)
(* a function defined by recursion along the cells.                        *)
(***************************************************************************)
Cells == [kind : {"lit"}, value : LiteralValues] \cup [kind : {"op"}, value : Opcodes]

StartAt(code, start, i) ==
  IF i = 0 THEN 0
  ELSE IF code[i].kind = "lit" THEN i
  ELSE IF code[i].value \in BinaryOps /\ start[i - 1] > 1 THEN start[start[i - 1] - 1]
  ELSE 0

ValueAt(code, start, val, i) ==
  IF start[i] = 0 THEN 0
  ELSE IF code[i].kind = "lit" THEN code[i].value
  ELSE Apply(code[i].value, val[start[i - 1] - 1], val[i - 1])

TilingAt(start, val, tiling, i) ==
  IF start[i] = 0 THEN <<>> ELSE Append(tiling[start[i] - 1], val[i])

\* Some function satisfies the recursion for the starts.
LEMMA StartExists ==
  ASSUME NEW code, NEW n \in Nat
  PROVE  \E g : g = [i \in 0 .. n |-> StartAt(code, g, i)]
<1> DEFINE Is(g, k) == /\ g = [i \in 0 .. k |-> StartAt(code, g, i)]
                       /\ \A i \in 0 .. k : g[i] \in 0 .. i
           S == {k \in Nat : \E g : Is(g, k)}
<1>1. 0 \in S
  <2> DEFINE g == [i \in 0 .. 0 |-> 0]
  <2>1. g = [i \in 0 .. 0 |-> StartAt(code, g, i)]
    BY DEF StartAt
  <2>2. Is(g, 0)
    BY <2>1
  <2> QED BY <2>2
<1>2. ASSUME NEW k \in Nat, k \in S PROVE k + 1 \in S
  <2>1. PICK g : Is(g, k)
    BY <1>2
  <2> DEFINE next == StartAt(code, g, k + 1)
             h == [i \in 0 .. k + 1 |-> IF i = k + 1 THEN next ELSE g[i]]
  <2> HIDE DEF S
  <2>2. \A i \in 0 .. k : g[i] = StartAt(code, g, i) /\ g[i] \in 0 .. i
    <3>1. g = [i \in 0 .. k |-> StartAt(code, g, i)]
      BY <2>1
    <3>2. \A i \in 0 .. k : g[i] = StartAt(code, g, i)
      BY <3>1, Zenon
    <3> QED BY <2>1, <3>2
  <2> HIDE DEF Is
  <2>3. next \in 0 .. k + 1
    <3>1. g[k] \in 0 .. k
      BY <2>2
    <3>2. g[k] > 1 => g[g[k] - 1] \in 0 .. g[k] - 1
      BY <2>2, <3>1
    <3> QED BY <3>1, <3>2 DEF StartAt
  <2>4. \A i \in 0 .. k : h[i] = g[i] /\ g[i] = StartAt(code, g, i) /\ g[i] \in 0 .. i
    <3>1. \A i \in 0 .. k : h[i] = g[i]
      OBVIOUS
    <3> QED BY <2>2, <3>1
  <2>5. h[k + 1] = next
    OBVIOUS
  <2> HIDE DEF h
  <2>6. ASSUME NEW i \in 0 .. k + 1 PROVE StartAt(code, h, i) = StartAt(code, g, i)
    <3>1. CASE i = 0
      BY <3>1 DEF StartAt
    <3>2. CASE i # 0
      <4>1. i - 1 \in 0 .. k /\ h[i - 1] = g[i - 1] /\ g[i - 1] \in 0 .. i - 1
        BY <2>4, <3>2
      <4>2. g[i - 1] > 1 => h[g[i - 1] - 1] = g[g[i - 1] - 1]
        <5> SUFFICES ASSUME g[i - 1] > 1 PROVE g[i - 1] - 1 \in 0 .. k
          BY <2>4
        <5> QED BY <4>1
      <4> QED BY <4>1, <4>2, <3>2 DEF StartAt
    <3> QED BY <3>1, <3>2
  <2>7. h = [i \in 0 .. k + 1 |-> StartAt(code, h, i)]
    <3>1. \A i \in 0 .. k + 1 : h[i] = StartAt(code, h, i)
      BY <2>4, <2>5, <2>6
    <3> QED BY <3>1 DEF h
  <2>8. \A i \in 0 .. k + 1 : h[i] \in 0 .. i
    BY <2>3, <2>4, <2>5
  <2> QED BY <2>7, <2>8 DEF S, Is
<1> HIDE DEF S
<1>3. n \in S
  BY <1>1, <1>2, NatSetInduction
<1> QED BY <1>3 DEF S

\* ExpressionStart satisfies its recursion, and an expression starts no later than it ends.
LEMMA StartDefined ==
  ASSUME NEW code, Len(code) \in Nat
  PROVE  LET start == ExpressionStart(code)
         IN  /\ start = [i \in 0 .. Len(code) |-> StartAt(code, start, i)]
             /\ \A i \in 0 .. Len(code) : start[i] \in 0 .. i
<1> DEFINE n == Len(code)
           start == ExpressionStart(code)
           Is(g) == g = [i \in 0 .. n |-> StartAt(code, g, i)]
<1>1. start = CHOOSE g : Is(g)
  BY DEF ExpressionStart, StartAt
<1>2. \E g : Is(g)
  BY StartExists
<1> HIDE DEF Is
<1>3. Is(start)
  BY <1>1, <1>2
<1>4. \A i \in 0 .. n : start[i] = StartAt(code, start, i)
  BY <1>3 DEF Is
<1> DEFINE S == {k \in Nat : k <= n => start[k] \in 0 .. k}
<1>5. ASSUME NEW k \in Nat, \A m \in 0 .. k - 1 : m \in S PROVE k \in S
  <2> SUFFICES ASSUME k <= n PROVE start[k] \in 0 .. k
    OBVIOUS
  <2>1. start[k] = StartAt(code, start, k)
    BY <1>4
  <2>2. CASE k = 0
    BY <2>1, <2>2 DEF StartAt
  <2>3. CASE k # 0
    <3>1. start[k - 1] \in 0 .. k - 1
      BY <1>5, <2>3
    <3>2. start[k - 1] > 1 => start[start[k - 1] - 1] \in 0 .. start[k - 1] - 1
      BY <1>5, <3>1
    <3> QED BY <2>1, <2>3, <3>1, <3>2 DEF StartAt
  <2> QED BY <2>2, <2>3
<1> HIDE DEF S, start
<1>6. Nat \subseteq S
  BY <1>5, StrongSetInduction
<1> QED BY <1>3, <1>6 DEF Is, S, start

\* What StartDefined says of a start function, up to cell n.
Starts(code, start, n) ==
  \A i \in 0 .. n : start[i] = StartAt(code, start, i) /\ start[i] \in 0 .. i

\* A value reads earlier values only.
LEMMA EarlierOnly ==
  ASSUME NEW code, NEW n \in Nat, NEW start,
         Starts(code, start, n),
         NEW g, NEW h, NEW i \in 0 .. n, \A j \in 0 .. i - 1 : g[j] = h[j]
  PROVE  ValueAt(code, start, g, i) = ValueAt(code, start, h, i)
<1> USE DEF Starts
<1>1. CASE start[i] = 0
  BY <1>1 DEF ValueAt
<1>2. CASE start[i] # 0
  <2>1. i # 0 /\ start[i] - 1 \in 0 .. i - 1 /\ i - 1 \in 0 .. i - 1 /\ i - 1 \in 0 .. n
    BY <1>2
  <2>3. CASE code[i].kind = "lit"
    BY <2>3 DEF ValueAt
  <2>4. CASE code[i].kind # "lit"
    <3>1. start[i - 1] > 1
      BY <1>2, <2>1, <2>4 DEF StartAt
    <3>2. start[i - 1] - 1 \in 0 .. i - 1
      BY <2>1, <3>1
    <3>3. g[start[i - 1] - 1] = h[start[i - 1] - 1] /\ g[i - 1] = h[i - 1]
      BY <2>1, <3>2
    <3> QED BY <3>3 DEF ValueAt
  <2> QED BY <2>3, <2>4
<1> QED BY <1>1, <1>2

\* Some function satisfies the recursion for the values.
LEMMA ValueExists ==
  ASSUME NEW code, NEW n \in Nat, NEW start,
         Starts(code, start, n)
  PROVE  \E g : g = [i \in 0 .. n |-> ValueAt(code, start, g, i)]
<1> DEFINE Is(g, k) == g = [i \in 0 .. k |-> ValueAt(code, start, g, i)]
           S == {k \in Nat : k <= n => \E g : Is(g, k)}
<1>1. 0 \in S
  <2> DEFINE g == [i \in 0 .. 0 |-> 0]
  <2>1. start[0] = 0
    BY DEF Starts
  <2>2. g = [i \in 0 .. 0 |-> ValueAt(code, start, g, i)]
    BY <2>1 DEF ValueAt
  <2> QED BY <2>2
<1>2. ASSUME NEW k \in Nat, k \in S PROVE k + 1 \in S
  <2> SUFFICES ASSUME k + 1 <= n PROVE \E h : Is(h, k + 1)
    OBVIOUS
  <2>1. PICK g : Is(g, k)
    BY <1>2
  <2> DEFINE h == [i \in 0 .. k + 1 |-> IF i = k + 1 THEN ValueAt(code, start, g, k + 1) ELSE g[i]]
  <2> HIDE DEF S
  <2>2. \A i \in 0 .. k : g[i] = ValueAt(code, start, g, i)
    BY <2>1, Zenon
  <2>3. (\A i \in 0 .. k : h[i] = g[i]) /\ h[k + 1] = ValueAt(code, start, g, k + 1)
    OBVIOUS
  <2> HIDE DEF Is, h
  <2>4. ASSUME NEW i \in 0 .. k + 1 PROVE ValueAt(code, start, h, i) = ValueAt(code, start, g, i)
    <3>1. i \in 0 .. n /\ \A j \in 0 .. i - 1 : h[j] = g[j]
      BY <2>3
    <3> QED BY <3>1, EarlierOnly
  <2>5. \A i \in 0 .. k + 1 : h[i] = ValueAt(code, start, h, i)
    BY <2>2, <2>3, <2>4
  <2>6. h = [i \in 0 .. k + 1 |-> ValueAt(code, start, h, i)]
    BY <2>5 DEF h
  <2> QED BY <2>6 DEF Is
<1> HIDE DEF S
<1>3. n \in S
  BY <1>1, <1>2, NatSetInduction
<1> QED BY <1>3 DEF S

\* The same of the tilings.
LEMMA TilingExists ==
  ASSUME NEW n \in Nat, NEW start, NEW val,
         \A i \in 0 .. n : start[i] \in 0 .. i
  PROVE  \E g : g = [i \in 0 .. n |-> TilingAt(start, val, g, i)]
<1> DEFINE Is(g, k) == g = [i \in 0 .. k |-> TilingAt(start, val, g, i)]
           S == {k \in Nat : k <= n => \E g : Is(g, k)}
<1>1. 0 \in S
  <2> DEFINE g == [i \in 0 .. 0 |-> <<>>]
  <2>1. start[0] = 0
    OBVIOUS
  <2>2. g = [i \in 0 .. 0 |-> TilingAt(start, val, g, i)]
    BY <2>1 DEF TilingAt
  <2> QED BY <2>2
<1>2. ASSUME NEW k \in Nat, k \in S PROVE k + 1 \in S
  <2> SUFFICES ASSUME k + 1 <= n PROVE \E h : Is(h, k + 1)
    OBVIOUS
  <2>1. PICK g : Is(g, k)
    BY <1>2
  <2> DEFINE h == [i \in 0 .. k + 1 |-> IF i = k + 1 THEN TilingAt(start, val, g, k + 1) ELSE g[i]]
  <2> HIDE DEF S
  <2>2. \A i \in 0 .. k : g[i] = TilingAt(start, val, g, i)
    BY <2>1, Zenon
  <2>3. (\A i \in 0 .. k : h[i] = g[i]) /\ h[k + 1] = TilingAt(start, val, g, k + 1)
    OBVIOUS
  <2> HIDE DEF Is, h
  <2>4. ASSUME NEW i \in 0 .. k + 1 PROVE TilingAt(start, val, h, i) = TilingAt(start, val, g, i)
    <3>1. i \in 0 .. n /\ \A j \in 0 .. i - 1 : h[j] = g[j]
      BY <2>3
    <3>2. start[i] # 0 => start[i] - 1 \in 0 .. i - 1
      BY <3>1
    <3> QED BY <3>1, <3>2 DEF TilingAt
  <2>5. \A i \in 0 .. k + 1 : h[i] = TilingAt(start, val, h, i)
    BY <2>2, <2>3, <2>4
  <2>6. h = [i \in 0 .. k + 1 |-> TilingAt(start, val, h, i)]
    BY <2>5 DEF h
  <2> QED BY <2>6 DEF Is
<1> HIDE DEF S
<1>3. n \in S
  BY <1>1, <1>2, NatSetInduction
<1> QED BY <1>3 DEF S

\* TilingOf is Tiling with all its prefixes.
TilingOf(code) ==
  LET start == ExpressionStart(code)
      val == ExpressionValue(code)
      tiling[i \in 0 .. Len(code)] ==
        IF start[i] = 0 THEN <<>> ELSE Append(tiling[start[i] - 1], val[i])
  IN  tiling

\* What SourceDefined says of the three functions of a source, up to cell n.
Reads(code, start, val, tiling, n) ==
  \A i \in 0 .. n :
    /\ start[i] = StartAt(code, start, i) /\ start[i] \in 0 .. i
    /\ val[i] = ValueAt(code, start, val, i)
    /\ tiling[i] = TilingAt(start, val, tiling, i)

\* ExpressionStart, ExpressionValue and Tiling satisfy their recursions.
LEMMA SourceDefined ==
  ASSUME NEW code, Len(code) \in Nat
  PROVE  Reads(code, ExpressionStart(code), ExpressionValue(code), TilingOf(code), Len(code))
<1> DEFINE n == Len(code)
           start == ExpressionStart(code)
           val == ExpressionValue(code)
           tiling == TilingOf(code)
           IsV(g) == g = [i \in 0 .. n |-> ValueAt(code, start, g, i)]
           IsT(g) == g = [i \in 0 .. n |-> TilingAt(start, val, g, i)]
<1>1. Starts(code, start, n)
  <2>1. start = [i \in 0 .. n |-> StartAt(code, start, i)]
    BY StartDefined
  <2> HIDE DEF start
  <2>2. \A i \in 0 .. n : start[i] = StartAt(code, start, i)
    BY <2>1, Zenon
  <2> QED BY <2>2, StartDefined DEF start, Starts
<1>2. val = CHOOSE g : IsV(g)
  BY DEF ExpressionValue, ValueAt
<1>3. tiling = CHOOSE g : IsT(g)
  BY DEF TilingOf, TilingAt
<1> HIDE DEF start, val, tiling
<1>4. \E g : IsV(g)
  BY <1>1, ValueExists
<1>5. \E g : IsT(g)
  BY <1>1, TilingExists DEF Starts
<1>6. IsV(val) /\ IsT(tiling)
  <2> HIDE DEF IsV, IsT
  <2> QED BY <1>2, <1>3, <1>4, <1>5
<1>7. \A i \in 0 .. n : val[i] = ValueAt(code, start, val, i)
  BY <1>6, Zenon
<1>8. \A i \in 0 .. n : tiling[i] = TilingAt(start, val, tiling, i)
  BY <1>6, Zenon
<1> QED BY <1>1, <1>7, <1>8 DEF start, val, tiling, Starts, Reads

\* The last tiling is Tiling.
LEMMA TilingIsLast == ASSUME NEW code PROVE Tiling(code) = TilingOf(code)[Len(code)]
BY DEF Tiling, TilingOf

\* One more cell changes nothing about the cells before it.
LEMMA SamePrefix ==
  ASSUME NEW code \in Seq(Cells), NEW cell \in Cells
  PROVE  LET longer == Append(code, cell)
         IN  \A i \in 0 .. Len(code) :
               /\ ExpressionStart(longer)[i] = ExpressionStart(code)[i]
               /\ ExpressionValue(longer)[i] = ExpressionValue(code)[i]
               /\ TilingOf(longer)[i] = TilingOf(code)[i]
<1> DEFINE longer == Append(code, cell)
           n == Len(code)
           s == ExpressionStart(code)
           v == ExpressionValue(code)
           t == TilingOf(code)
           s2 == ExpressionStart(longer)
           v2 == ExpressionValue(longer)
           t2 == TilingOf(longer)
           S == {i \in Nat : i <= n => s2[i] = s[i] /\ v2[i] = v[i] /\ t2[i] = t[i]}
<1>1. n \in Nat /\ Len(longer) = n + 1 /\ \A i \in 1 .. n : longer[i] = code[i]
  OBVIOUS
<1>2. Reads(code, s, v, t, n)
  BY <1>1, SourceDefined
<1>3. Reads(longer, s2, v2, t2, n + 1)
  <2> HIDE DEF n, longer
  <2>1. Len(longer) \in Nat
    BY <1>1
  <2>2. Reads(longer, s2, v2, t2, Len(longer))
    BY <2>1, SourceDefined
  <2> QED BY <1>1, <2>2
<1> USE DEF Reads
<1> HIDE DEF n, s, v, t, s2, v2, t2, longer
<1>4. ASSUME NEW i \in Nat, \A j \in 0 .. i - 1 : j \in S PROVE i \in S
  <2> SUFFICES ASSUME i <= n PROVE s2[i] = s[i] /\ v2[i] = v[i] /\ t2[i] = t[i]
    OBVIOUS
  <2>1. i \in 0 .. n /\ i \in 0 .. n + 1
    BY <1>1
  <2>2. \A j \in 0 .. i - 1 : s2[j] = s[j] /\ v2[j] = v[j] /\ t2[j] = t[j]
    <3> SUFFICES ASSUME NEW j \in 0 .. i - 1 PROVE s2[j] = s[j] /\ v2[j] = v[j] /\ t2[j] = t[j]
      OBVIOUS
    <3>1. j \in Nat /\ j <= n
      BY <1>1, <2>1
    <3> QED BY <1>4, <3>1
  <2> HIDE DEF S
  <2>3. CASE i = 0
    <3>1. s[i] = 0 /\ s2[i] = 0
      BY <1>2, <1>3, <2>1, <2>3
    <3> QED BY <1>2, <1>3, <2>1, <3>1 DEF ValueAt, TilingAt
  <2>4. CASE i # 0
    <3>1. longer[i] = code[i] /\ i - 1 \in 0 .. i - 1 /\ i - 1 \in 0 .. n
      BY <1>1, <2>1, <2>4
    <3>2. s[i - 1] \in 0 .. i - 1
      BY <1>2, <3>1
    <3>3. s[i - 1] > 1 => s[i - 1] - 1 \in 0 .. i - 1
      BY <3>2, <2>1
    <3>4. s2[i] = s[i]
      <4>1. StartAt(longer, s2, i) = StartAt(code, s, i)
        BY <2>2, <3>1, <3>3 DEF StartAt
      <4> QED BY <1>2, <1>3, <2>1, <4>1
    <3>5. v2[i] = v[i]
      <4>1. CASE s[i] = 0
        BY <1>2, <1>3, <2>1, <3>4, <4>1 DEF ValueAt
      <4>2. CASE s[i] # 0
        <5>1. CASE code[i].kind = "lit"
          BY <1>2, <1>3, <2>1, <3>1, <3>4, <5>1 DEF ValueAt
        <5>2. CASE code[i].kind # "lit"
          <6>1. s[i - 1] > 1
            BY <1>2, <2>1, <2>4, <4>2, <5>2 DEF StartAt
          <6>2. ValueAt(longer, s2, v2, i) = ValueAt(code, s, v, i)
            BY <2>2, <3>1, <3>3, <3>4, <6>1 DEF ValueAt
          <6> QED BY <1>2, <1>3, <2>1, <6>2
        <5> QED BY <5>1, <5>2
      <4> QED BY <4>1, <4>2
    <3>6. t2[i] = t[i]
      <4>1. s[i] # 0 => s[i] - 1 \in 0 .. i - 1
        BY <1>2, <2>1
      <4>2. TilingAt(s2, v2, t2, i) = TilingAt(s, v, t, i)
        BY <2>2, <3>4, <3>5, <4>1 DEF TilingAt
      <4> QED BY <1>2, <1>3, <2>1, <4>2
    <3> QED BY <3>4, <3>5, <3>6
  <2> QED BY <2>3, <2>4
<1> HIDE DEF S
<1>5. Nat \subseteq S
  BY <1>4, StrongSetInduction
<1> QED BY <1>1, <1>5 DEF S, n, s, v, t, s2, v2, t2, longer

\* A tiling is a sequence of values, empty only where no expression ends.
LEMMA TilingType ==
  ASSUME NEW code \in Seq(Cells)
  PROVE  LET start == ExpressionStart(code)
             val == ExpressionValue(code)
             tiling == TilingOf(code)
             Values == {val[i] : i \in 0 .. Len(code)}
         IN  \A i \in 0 .. Len(code) :
               /\ tiling[i] \in Seq(Values)
               /\ start[i] = 0 => tiling[i] = <<>>
               /\ start[i] # 0 => /\ start[i] - 1 \in 0 .. i - 1
                                  /\ tiling[i] = Append(tiling[start[i] - 1], val[i])
                                  /\ Len(tiling[i]) = Len(tiling[start[i] - 1]) + 1
<1> DEFINE n == Len(code)
           s == ExpressionStart(code)
           v == ExpressionValue(code)
           t == TilingOf(code)
           Values == {v[i] : i \in 0 .. n}
           S == {i \in Nat : i <= n => t[i] \in Seq(Values)}
<1>1. n \in Nat
  OBVIOUS
<1>2. \A i \in 0 .. n : s[i] \in 0 .. i /\ t[i] = TilingAt(s, v, t, i)
  BY <1>1, SourceDefined DEF Reads
<1>3. \A i \in 0 .. n : v[i] \in Values
  OBVIOUS
<1> HIDE DEF n, s, v, t, Values
<1>4. ASSUME NEW i \in Nat, \A j \in 0 .. i - 1 : j \in S PROVE i \in S
  <2> SUFFICES ASSUME i <= n PROVE t[i] \in Seq(Values)
    OBVIOUS
  <2>1. i \in 0 .. n
    BY <1>1
  <2>2. CASE s[i] = 0
    <3>1. t[i] = <<>>
      BY <1>2, <2>1, <2>2 DEF TilingAt
    <3> QED BY <3>1
  <2>3. CASE s[i] # 0
    <3>1. s[i] - 1 \in 0 .. i - 1 /\ s[i] - 1 <= n
      BY <1>1, <1>2, <2>1, <2>3
    <3>2. t[s[i] - 1] \in Seq(Values)
      BY <1>4, <3>1
    <3>3. t[i] = Append(t[s[i] - 1], v[i])
      BY <1>2, <2>1, <2>3 DEF TilingAt
    <3> QED BY <1>3, <2>1, <3>2, <3>3
  <2> QED BY <2>2, <2>3
<1> HIDE DEF S
<1>5. \A i \in 0 .. n : t[i] \in Seq(Values)
  <2>1. Nat \subseteq S
    BY <1>4, StrongSetInduction
  <2> QED BY <1>1, <2>1 DEF S
<1>6. ASSUME NEW i \in 0 .. n
      PROVE  /\ s[i] = 0 => t[i] = <<>>
             /\ s[i] # 0 => /\ s[i] - 1 \in 0 .. i - 1
                            /\ t[i] = Append(t[s[i] - 1], v[i])
                            /\ Len(t[i]) = Len(t[s[i] - 1]) + 1
  <2>1. t[i] = TilingAt(s, v, t, i) /\ s[i] \in 0 .. i
    BY <1>2
  <2>2. ASSUME s[i] # 0 PROVE s[i] - 1 \in 0 .. i - 1 /\ t[s[i] - 1] \in Seq(Values)
    BY <1>1, <1>5, <2>1, <2>2
  <2> QED BY <2>1, <2>2 DEF TilingAt
<1> QED BY <1>5, <1>6 DEF n, s, v, t, Values

\* Two appended values are the last two, and what was before them is a prefix.
LEMMA TwoAppended ==
  ASSUME NEW V, NEW q \in Seq(V), NEW a \in V, NEW b \in V
  PROVE  LET t == Append(Append(q, a), b)
         IN  /\ Len(t) = Len(q) + 2
             /\ t[Len(q) + 1] = a
             /\ t[Len(q) + 2] = b
             /\ SubSeq(t, 1, Len(q)) = q
<1> DEFINE t == Append(Append(q, a), b)
           n == Len(q)
<1>1. n \in Nat /\ Append(q, a) \in Seq(V) /\ Len(Append(q, a)) = n + 1
  OBVIOUS
<1>2. /\ t \in Seq(V)
      /\ Len(t) = n + 2
      /\ t[n + 2] = b
      /\ \A i \in 1 .. n + 1 : t[i] = Append(q, a)[i]
  BY <1>1
<1>3. t[n + 1] = a /\ \A i \in 1 .. n : t[i] = q[i]
  BY <1>1, <1>2
<1> HIDE DEF t
<1>4. SubSeq(t, 1, n) \in Seq(V) /\ Len(SubSeq(t, 1, n)) = n
  BY <1>1, <1>2
<1>5. \A i \in 1 .. n : SubSeq(t, 1, n)[i] = q[i]
  BY <1>1, <1>2, <1>3
<1>6. SubSeq(t, 1, n) = q
  BY <1>4, <1>5, SeqEqual
<1> QED BY <1>2, <1>3, <1>6 DEF t

\* An expression ends at every cell of code.
Accepted(code) == \A i \in 1 .. Len(code) : ExpressionStart(code)[i] # 0

\* An accepted cell that follows an accepted source leaves it accepted.
LEMMA AcceptOne ==
  ASSUME NEW code \in Seq(Cells), NEW cell \in Cells, Accepted(code),
         ExpressionStart(Append(code, cell))[Len(code) + 1] # 0
  PROVE  Accepted(Append(code, cell))
<1> DEFINE longer == Append(code, cell)
           n == Len(code)
<1>1. n \in Nat /\ Len(longer) = n + 1
  OBVIOUS
<1>2. \A i \in 0 .. n : ExpressionStart(longer)[i] = ExpressionStart(code)[i]
  BY SamePrefix
<1>3. \A i \in 1 .. n + 1 : i \in 0 .. n \/ i = n + 1
  BY <1>1
<1> HIDE DEF longer
<1>4. \A i \in 1 .. n : ExpressionStart(longer)[i] # 0
  BY <1>1, <1>2 DEF Accepted
<1>5. ExpressionStart(longer)[n + 1] # 0
  BY DEF longer
<1>6. \A i \in 1 .. n + 1 : ExpressionStart(longer)[i] # 0
  BY <1>1, <1>4, <1>5
<1>7. Accepted(longer)
  BY <1>1, <1>6 DEF Accepted
<1> QED BY <1>7 DEF longer

\* A literal is an expression of its own, appended to the tiling.
LEMMA AppendLit ==
  ASSUME NEW code \in Seq(Cells), NEW v \in LiteralValues, Accepted(code)
  PROVE  /\ Accepted(Append(code, Lit(v)))
         /\ Tiling(Append(code, Lit(v))) = Append(Tiling(code), v)
<1> DEFINE longer == Append(code, Lit(v))
           n == Len(code)
           s == ExpressionStart(longer)
           val == ExpressionValue(longer)
           t == TilingOf(longer)
<1>1. /\ n \in Nat /\ Lit(v) \in Cells
      /\ Len(longer) = n + 1 /\ longer[n + 1].kind = "lit" /\ longer[n + 1].value = v
  BY DEF Lit, Cells
<1>2. Reads(longer, s, val, t, n + 1)
  <2> HIDE DEF longer
  <2>1. Reads(longer, s, val, t, Len(longer))
    BY <1>1, SourceDefined
  <2> QED BY <1>1, <2>1
<1>3. t[n] = TilingOf(code)[n]
  BY <1>1, SamePrefix
<1>4. Tiling(longer) = t[n + 1] /\ Tiling(code) = TilingOf(code)[n]
  <2> HIDE DEF longer
  <2> QED BY <1>1, TilingIsLast
<1> HIDE DEF longer, s, val, t, n
<1>5. s[n + 1] = n + 1
  BY <1>1, <1>2 DEF Reads, StartAt
<1>6. val[n + 1] = v
  BY <1>1, <1>2, <1>5 DEF Reads, ValueAt
<1>7. t[n + 1] = Append(t[n], v)
  <2>1. t[n + 1] = TilingAt(s, val, t, n + 1)
    BY <1>1, <1>2 DEF Reads
  <2>2. s[n + 1] # 0 /\ s[n + 1] - 1 = n
    BY <1>1, <1>5
  <2> QED BY <1>6, <2>1, <2>2 DEF TilingAt
<1>8. Accepted(longer)
  BY <1>1, <1>5, AcceptOne DEF longer, s, n
<1> QED BY <1>3, <1>4, <1>7, <1>8 DEF longer

\* An operation on two tiles makes them one, whose value is the operation's result.
LEMMA AppendOp ==
  ASSUME NEW code \in Seq(Cells), NEW op \in BinaryOps, Accepted(code), Len(Tiling(code)) >= 2
  PROVE  LET tiles == Tiling(code)
             k == Len(tiles)
         IN  /\ Accepted(Append(code, Op(op)))
             /\ Tiling(Append(code, Op(op))) =
                  Append(SubSeq(tiles, 1, k - 2), Apply(op, tiles[k - 1], tiles[k]))
<1> DEFINE longer == Append(code, Op(op))
           n == Len(code)
           s == ExpressionStart(code)
           val == ExpressionValue(code)
           t == TilingOf(code)
           s2 == ExpressionStart(longer)
           val2 == ExpressionValue(longer)
           t2 == TilingOf(longer)
           Values == {val[i] : i \in 0 .. n}
           m == s[n] - 1
<1>1. /\ n \in Nat /\ Op(op) \in Cells
      /\ Len(longer) = n + 1 /\ longer[n + 1].kind # "lit" /\ longer[n + 1].value = op
  BY DEF Op, Cells
<1>2. Reads(longer, s2, val2, t2, n + 1)
  <2> HIDE DEF longer
  <2>1. Reads(longer, s2, val2, t2, Len(longer))
    BY <1>1, SourceDefined
  <2> QED BY <1>1, <2>1
<1>3. \A i \in 0 .. n : s2[i] = s[i] /\ val2[i] = val[i] /\ t2[i] = t[i]
  BY <1>1, SamePrefix
<1>4. Tiling(longer) = t2[n + 1] /\ Tiling(code) = t[n]
  <2> HIDE DEF longer
  <2> QED BY <1>1, TilingIsLast
<1>5. \A i \in 0 .. n :
        /\ t[i] \in Seq(Values)
        /\ s[i] = 0 => t[i] = <<>>
        /\ s[i] # 0 => s[i] - 1 \in 0 .. i - 1 /\ t[i] = Append(t[s[i] - 1], val[i])
  BY TilingType
<1>6. \A i \in 0 .. n : val[i] \in Values
  OBVIOUS
<1> HIDE DEF longer, s, val, t, s2, val2, t2, n, Values
<1>7. s[n] # 0 /\ m \in 0 .. n - 1 /\ t[n] = Append(t[m], val[n]) /\ t[m] \in Seq(Values)
  <2>1. s[n] # 0
    BY <1>1, <1>4, <1>5
  <2> QED BY <1>1, <1>5, <2>1
<1> HIDE DEF m
<1> DEFINE q == t[s[m] - 1]
<1>8. /\ s[m] # 0 /\ s[m] - 1 \in 0 .. m - 1
      /\ t[m] = Append(q, val[m]) /\ q \in Seq(Values)
  <2>1. m \in 0 .. n /\ n \in 0 .. n
    BY <1>1, <1>7
  <2>2. Len(t[n]) = Len(t[m]) + 1
    BY <1>6, <1>7, <2>1
  <2>3. Len(t[m]) # 0
    BY <1>4, <1>7, <2>2
  <2>4. s[m] # 0
    BY <1>5, <2>1, <2>3
  <2>5. s[m] - 1 \in 0 .. m - 1 /\ t[m] = Append(q, val[m])
    BY <1>5, <2>1, <2>4
  <2>6. s[m] - 1 \in 0 .. n
    BY <1>1, <2>1, <2>5
  <2> QED BY <1>5, <2>4, <2>5, <2>6
<1>9. s[n] > 1 /\ s[n] - 1 = m /\ m \in 0 .. n /\ n \in 0 .. n
  <2>1. s[n] - 1 = m /\ s[n] \in Int
    <3>1. s[n] \in Int
      BY <1>2, <1>3, <1>1 DEF Reads
    <3> QED BY <3>1 DEF m
  <2> QED BY <1>1, <1>7, <1>8, <2>1
<1>10. s2[n + 1] = s[m] /\ s2[n + 1] # 0
  <2>1. s2[n + 1] = StartAt(longer, s2, n + 1)
    BY <1>1, <1>2 DEF Reads
  <2>2. StartAt(longer, s2, n + 1) = s2[s2[n] - 1]
    BY <1>1, <1>3, <1>9 DEF StartAt
  <2> QED BY <1>3, <1>8, <1>9, <2>1, <2>2
<1>11. val2[n + 1] = Apply(op, val[m], val[n])
  <2>1. val2[n + 1] = ValueAt(longer, s2, val2, n + 1)
    BY <1>1, <1>2 DEF Reads
  <2>2. ValueAt(longer, s2, val2, n + 1) = Apply(op, val2[s2[n] - 1], val2[n])
    BY <1>1, <1>10 DEF ValueAt
  <2> QED BY <1>3, <1>9, <2>1, <2>2
<1>12. t2[n + 1] = Append(q, Apply(op, val[m], val[n]))
  <2>1. t2[n + 1] = TilingAt(s2, val2, t2, n + 1)
    BY <1>1, <1>2 DEF Reads
  <2>2. TilingAt(s2, val2, t2, n + 1) = Append(t2[s[m] - 1], val2[n + 1])
    BY <1>10 DEF TilingAt
  <2>3. s[m] - 1 \in 0 .. n
    BY <1>1, <1>8, <1>9
  <2>4. t2[s[m] - 1] = q
    BY <1>3, <2>3
  <2> QED BY <1>11, <2>1, <2>2, <2>4
<1> HIDE DEF q
<1>13. /\ Len(t[n]) = Len(q) + 2
       /\ t[n][Len(q) + 1] = val[m]
       /\ t[n][Len(q) + 2] = val[n]
       /\ SubSeq(t[n], 1, Len(q)) = q
  <2>1. t[n] = Append(Append(q, val[m]), val[n]) /\ val[m] \in Values /\ val[n] \in Values
    BY <1>6, <1>7, <1>8, <1>9
  <2> QED BY <1>8, <2>1, TwoAppended
<1>14. Len(q) \in Nat
  BY <1>8
<1>15. Accepted(longer)
  BY <1>1, <1>10, AcceptOne DEF longer, s2, n
<1>16. Tiling(longer) = Append(SubSeq(t[n], 1, Len(t[n]) - 2),
                               Apply(op, t[n][Len(t[n]) - 1], t[n][Len(t[n])]))
  <2>1. /\ Len(t[n]) - 2 = Len(q)
        /\ Len(t[n]) - 1 = Len(q) + 1
        /\ Len(t[n]) = Len(q) + 2
    BY <1>13, <1>14
  <2>2. /\ SubSeq(t[n], 1, Len(t[n]) - 2) = q
        /\ t[n][Len(t[n]) - 1] = val[m]
        /\ t[n][Len(t[n])] = val[n]
    BY <1>13, <2>1
  <2> QED BY <1>4, <1>12, <2>2
<1> QED BY <1>4, <1>15, <1>16 DEF longer

\* An accepted source is one expression when its tiling has one tile, its value.
LEMMA OneExpression ==
  ASSUME NEW code \in Seq(Cells), Accepted(code)
  PROVE  /\ Len(Tiling(code)) = 1 <=> IsExpression(code)
         /\ IsExpression(code) => Tiling(code)[1] = ExpressionValue(code)[Len(code)]
<1> DEFINE n == Len(code)
           s == ExpressionStart(code)
           val == ExpressionValue(code)
           t == TilingOf(code)
           Values == {val[i] : i \in 0 .. n}
           m == s[n] - 1
<1>1. n \in Nat /\ (code # <<>> <=> n # 0)
  OBVIOUS
<1>2. Tiling(code) = t[n]
  BY TilingIsLast
<1>3. \A i \in 0 .. n :
        /\ t[i] \in Seq(Values)
        /\ s[i] = 0 => t[i] = <<>>
        /\ s[i] # 0 => s[i] - 1 \in 0 .. i - 1 /\ t[i] = Append(t[s[i] - 1], val[i])
  BY TilingType
<1>4. \A i \in 0 .. n : val[i] \in Values
  OBVIOUS
<1>5. (\A i \in 1 .. n : s[i] # 0) /\ s[0] = 0
  <2>1. Reads(code, s, val, t, n)
    BY <1>1, SourceDefined
  <2> HIDE DEF s, val, t, n
  <2>2. s[0] = 0
    BY <1>1, <2>1 DEF Reads, StartAt
  <2> QED BY <2>2 DEF Accepted, s, n
<1> HIDE DEF s, val, t, n, Values
<1>6. IsExpression(code) <=> n # 0 /\ s[n] = 1
  BY <1>1 DEF IsExpression, s, n
<1>7. CASE n = 0
  BY <1>1, <1>2, <1>3, <1>5, <1>6, <1>7
<1>8. CASE n # 0
  <2>1. m \in 0 .. n - 1 /\ t[n] = Append(t[m], val[n]) /\ t[m] \in Seq(Values) /\ s[n] \in Int
    <3>1. s[n] # 0 /\ n \in 0 .. n
      BY <1>1, <1>5, <1>8
    <3>2. m \in 0 .. n - 1 /\ t[n] = Append(t[m], val[n])
      BY <1>3, <3>1
    <3>3. s[n] \in Int
      <4>1. Reads(code, s, val, t, n)
        BY <1>1, SourceDefined DEF s, val, t, n
      <4> QED BY <1>1, <4>1 DEF Reads
    <3> QED BY <1>1, <1>3, <3>2, <3>3
  <2>2. s[n] = 1 <=> m = 0
    BY <2>1
  <2> HIDE DEF m
  <2>3. Len(t[n]) = Len(t[m]) + 1 /\ Len(t[m]) \in Nat /\ t[n][Len(t[m]) + 1] = val[n]
    BY <1>1, <1>4, <2>1
  <2>4. CASE m = 0
    <3>1. Len(t[m]) = 0
      BY <1>1, <1>3, <1>5, <2>4
    <3> QED BY <1>2, <1>6, <1>8, <2>2, <2>3, <2>4, <3>1 DEF val, n
  <2>5. CASE m # 0
    <3>1. s[m] # 0 /\ m \in 0 .. n /\ s[m] - 1 \in 0 .. n /\ t[m] = Append(t[s[m] - 1], val[m])
      <4>1. m \in 1 .. n /\ m \in 0 .. n
        BY <1>1, <2>1, <2>5
      <4>2. s[m] # 0
        BY <1>5, <4>1
      <4>3. s[m] - 1 \in 0 .. m - 1 /\ t[m] = Append(t[s[m] - 1], val[m])
        BY <1>3, <4>1, <4>2
      <4> QED BY <1>1, <4>1, <4>2, <4>3
    <3>2. Len(t[m]) # 0
      BY <1>3, <1>4, <3>1
    <3> QED BY <1>2, <1>6, <2>2, <2>3, <2>5, <3>2
  <2> QED BY <2>4, <2>5
<1> QED BY <1>7, <1>8

-----------------------------------------------------------------------------
(***************************************************************************)
(* A call's stack and result are its source's.                             *)
(***************************************************************************)
\* While a call runs, every cell it has read ended an expression.
CellsAccepted == phase = "running" => Accepted(cells)

SourceInv == CellsAccepted /\ ValuesMatchSource

\* Dropping an appended cell gives back the sequence.
LEMMA FrontOfAppend ==
  ASSUME NEW S, NEW s \in Seq(S), NEW e \in S
  PROVE  LET t == Append(s, e)
         IN  t # <<>> /\ t[Len(t)] = e /\ SubSeq(t, 1, Len(t) - 1) = s
<1> DEFINE t == Append(s, e)
           n == Len(s)
<1>1. n \in Nat /\ t \in Seq(S) /\ Len(t) = n + 1 /\ t[n + 1] = e /\ \A i \in 1 .. n : t[i] = s[i]
  OBVIOUS
<1> HIDE DEF t
<1>2. SubSeq(t, 1, n) \in Seq(S) /\ Len(SubSeq(t, 1, n)) = n
  BY <1>1
<1>3. \A i \in 1 .. n : SubSeq(t, 1, n)[i] = s[i]
  BY <1>1
<1>4. SubSeq(t, 1, n) = s
  BY <1>2, <1>3, SeqEqual
<1>5. Len(t) - 1 = n /\ t # <<>>
  BY <1>1
<1> QED BY <1>1, <1>4, <1>5 DEF t

\* No source is read, no value is on the stack before the first call.
LEMMA SourceInit == Init => SourceInv
  BY DEF Init, SourceInv, CellsAccepted, ValuesMatchSource, StackMatchesSource, ResultIsExpression

\* A call that fails on a cell leaves no result, and no complete expression either.
LEMMA SourceFail ==
  ASSUME TypeOK, NEW c \in Cells, Fetch(c),
         NEW s \in {"STACK_UNDERFLOW", "DIVIDE_BY_ZERO", "BAD_OPCODE",
                    "STACK_NOT_SINGLETON", "STACK_OVERFLOW"},
         Fail(s),
         ~(c = Op("=") /\ IsExpression(cells))
  PROVE  SourceInv'
<1>1. cells \in Seq(Cells) /\ cells' = Append(cells, c)
  BY DEF TypeOK, Cells, Fetch
<1>2. phase' = "idle" /\ status' = s /\ result' = 0
  BY DEF Fail, Return
<1>3. /\ cells' # <<>> /\ cells'[Len(cells')] = c
      /\ SubSeq(cells', 1, Len(cells') - 1) = cells
  BY <1>1, FrontOfAppend
<1>4. ResultIsExpression'
  BY <1>2, <1>3 DEF ResultIsExpression
<1> QED
  BY <1>2, <1>4 DEF SourceInv, CellsAccepted, ValuesMatchSource, StackMatchesSource

\* A call that keeps running needs its cells accepted and its stack tiled.
LEMMA SourceContinue ==
  ASSUME phase' = "running", Accepted(cells'), logical_stack' = Tiling(cells')
  PROVE  SourceInv'
BY DEF SourceInv, CellsAccepted, ValuesMatchSource, StackMatchesSource, ResultIsExpression

\* Every action keeps the stack and the result those of the source.
LEMMA SourceStep == TypeOK /\ TypeOK' /\ SourceInv /\ [Next]_vars => SourceInv'
<1> SUFFICES ASSUME TypeOK, TypeOK', SourceInv, [Next]_vars
             PROVE  SourceInv'
  OBVIOUS
<1>1. cells \in Seq(Cells)
  BY DEF TypeOK, Cells
<1>2. phase = "running" => Accepted(cells) /\ logical_stack = Tiling(cells)
  BY DEF SourceInv, CellsAccepted, ValuesMatchSource, StackMatchesSource
<1>3. (\A v \in Literals : Lit(v) \in Cells) /\ (\A o \in Opcodes : Op(o) \in Cells)
  BY DEF Cells, Lit, Op
<1>4. (\A op \in BinaryOps \cup {"="} : Op(op) \in Cells) /\ (\A op \in BinaryOps : op # "=")
  BY <1>3 DEF BinaryOps
<1>5. /\ \A v \in Literals : Lit(v) # Op("=")
      /\ \A o : o # "=" => Op(o) # Op("=")
  <2>1. \A v \in Literals : Lit(v).kind = "lit" /\ Op("=").kind = "op"
    BY DEF Lit, Op
  <2>2. \A o : Op(o).value = o
    BY DEF Op
  <2> QED BY <2>1, <2>2
<1>6. /\ logical_stack \in Seq(Word)
      /\ Len(logical_stack) = StackSize - sp
      /\ \A i \in 1 .. StackSize - sp : logical_stack[i] = stack[StackSize - i]
  BY LogicalStackView
<1>7. ASSUME NEW n \in 1 .. MaxCells, NEW ctx \in Contexts, Evaluate(n, ctx)
      PROVE  SourceInv'
  <2>1. cells' = <<>> /\ phase' = "running" /\ sp' = StackSize
    BY <1>7 DEF Evaluate, reset
  <2>2. logical_stack' = <<>>
    BY <2>1 DEF logical_stack
  <2>3. <<>> \in Seq(Cells) /\ Len(<<>>) = 0
    OBVIOUS
  <2>4. Accepted(<<>>)
    BY DEF Accepted
  <2>5. Tiling(<<>>) = <<>>
    <3>1. Reads(<<>>, ExpressionStart(<<>>), ExpressionValue(<<>>), TilingOf(<<>>), Len(<<>>))
      BY <2>3, SourceDefined
    <3>2. TilingOf(<<>>)[0] = <<>>
      BY <3>1, <2>3 DEF Reads, StartAt, TilingAt
    <3> QED BY <2>3, <3>2, TilingIsLast
  <2> QED BY <2>1, <2>2, <2>4, <2>5, SourceContinue
<1>8. CASE MissingExit
  <2>1. cells' = cells /\ phase = "running" /\ phase' = "idle" /\ status' = "MISSING_EXIT" /\ result' = 0
    BY <1>8 DEF MissingExit, Fail, Return
  <2>2. cells # <<>> => cells[Len(cells)] # Op("=")
    <3> SUFFICES ASSUME cells # <<>>, cells[Len(cells)] = Op("=") PROVE FALSE
      OBVIOUS
    <3> DEFINE n == Len(cells)
               start == ExpressionStart(cells)
    <3>1. n \in Nat /\ n # 0 /\ n \in 1 .. n /\ n \in 0 .. n
      BY <1>1
    <3>2. start[n] = StartAt(cells, start, n)
      BY <3>1, SourceDefined DEF Reads
    <3>3. start[n] # 0
      BY <1>2, <2>1, <3>1 DEF Accepted
    <3> HIDE DEF start
    <3>4. cells[n].kind # "lit" /\ cells[n].value \notin BinaryOps
      BY <1>4 DEF Op
    <3> QED BY <3>1, <3>2, <3>3, <3>4 DEF StartAt
  <2>3. ResultIsExpression'
    BY <2>1, <2>2 DEF ResultIsExpression
  <2> QED BY <2>1, <2>3 DEF SourceInv, CellsAccepted, ValuesMatchSource, StackMatchesSource
<1>9. ASSUME NEW v \in Literals, Literal(v)
      PROVE  SourceInv'
  <2>1. phase = "running" /\ phase' = "running" /\ cells' = Append(cells, Lit(v))
    BY <1>9 DEF Literal, Fetch, Continue
  <2>2. v \in Word /\ v \in LiteralValues
    BY DEF LiteralValues, Word
  <2>3. logical_stack' = Append(logical_stack, v)
    BY <1>9, <2>2, PushView DEF Literal
  <2>4. Accepted(cells') /\ Tiling(cells') = Append(Tiling(cells), v)
    BY <1>1, <1>2, <2>1, <2>2, AppendLit
  <2> QED BY <1>2, <2>1, <2>3, <2>4, SourceContinue
<1>10. ASSUME NEW v \in Literals, LiteralOverflow(v)
       PROVE  SourceInv'
  BY <1>3, <1>5, <1>10, SourceFail DEF LiteralOverflow
<1>11. ASSUME NEW op \in BinaryOps, Binary(op)
       PROVE  SourceInv'
  <2> DEFINE k == StackSize - sp
             x == Apply(op, stack[sp + 1], stack[sp])
  <2>1. phase = "running" /\ phase' = "running" /\ cells' = Append(cells, Op(op))
    BY <1>11 DEF Binary, Fetch, Continue
  <2>2. k >= 2 /\ k \in Nat /\ sp \in Slots /\ sp + 1 \in Slots /\ stack' = [stack EXCEPT ![sp + 1] = x] /\ sp' = sp + 1
    BY <1>11 DEF Binary, has_at_least, pop2, TypeOK, Slots
  <2>3. x \in Word
    <3>1. stack[sp] \in Word /\ stack[sp + 1] \in Word /\ (op \in zero_sensitive => stack[sp] # 0)
      BY <1>11, <2>2 DEF TypeOK, Binary, pop2
    <3> QED BY <3>1, ApplyIsWord
  <2>4. logical_stack' = Append(SubSeq(logical_stack, 1, k - 2), x)
    <3> HIDE DEF x
    <3> QED BY <1>11, <2>2, <2>3, ReduceView DEF Binary
  <2>5. Len(logical_stack) = k /\ logical_stack[k - 1] = stack[sp + 1] /\ logical_stack[k] = stack[sp]
    <3>1. StackSize - (k - 1) = sp + 1 /\ StackSize - k = sp /\ k - 1 \in 1 .. k /\ k \in 1 .. k
      BY <2>2 DEF TypeOK
    <3> QED BY <1>6, <3>1
  <2>6. logical_stack = Tiling(cells) /\ Accepted(cells)
    BY <1>2, <2>1
  <2> HIDE DEF k
  <2>7. /\ Accepted(Append(cells, Op(op)))
        /\ Tiling(Append(cells, Op(op))) = Append(SubSeq(logical_stack, 1, k - 2), x)
    <3>1. Len(Tiling(cells)) >= 2
      BY <2>2, <2>5, <2>6
    <3> QED BY <1>1, <2>5, <2>6, <3>1, AppendOp
  <2> QED BY <2>1, <2>4, <2>7, SourceContinue
<1>12. ASSUME NEW op \in BinaryOps, BinaryUnderflow(op)
       PROVE  SourceInv'
  BY <1>4, <1>5, <1>12, SourceFail DEF BinaryUnderflow
<1>13. ASSUME NEW op \in BinaryOps, BinaryByZero(op)
       PROVE  SourceInv'
  BY <1>4, <1>5, <1>13, SourceFail DEF BinaryByZero
<1>14. ASSUME NEW op \in BinaryOps, BinaryTrap(op)
       PROVE  SourceInv'
  BY <1>14 DEF BinaryTrap, SourceInv, CellsAccepted, ValuesMatchSource, StackMatchesSource, ResultIsExpression
<1>15. CASE ExitSingleton
  <2>1. /\ phase = "running" /\ phase' = "idle" /\ cells' = Append(cells, Op("="))
        /\ status' = "OK" /\ result' = stack[sp] /\ sp = StackSize - 1
    BY <1>15 DEF ExitSingleton, Fetch, has_exactly, Return, peek
  <2>2. Len(logical_stack) = 1 /\ logical_stack[1] = stack[sp]
    <3>1. StackSize - sp = 1 /\ StackSize - 1 = sp
      BY <2>1
    <3> QED BY <1>6, <3>1
  <2>3. IsExpression(cells) /\ stack[sp] = ExpressionValue(cells)[Len(cells)]
    BY <1>1, <1>2, <2>1, <2>2, OneExpression
  <2>4. /\ cells' # <<>> /\ cells'[Len(cells')] = Op("=")
        /\ SubSeq(cells', 1, Len(cells') - 1) = cells
    BY <1>1, <1>4, <2>1, FrontOfAppend
  <2>5. ResultIsExpression'
    BY <2>1, <2>3, <2>4 DEF ResultIsExpression
  <2> QED BY <2>1, <2>5 DEF SourceInv, CellsAccepted, ValuesMatchSource, StackMatchesSource
<1>16. CASE ExitNotSingleton
  <2>1. phase = "running" /\ sp # StackSize - 1
    BY <1>16 DEF ExitNotSingleton, Fetch, has_exactly
  <2>2. Len(logical_stack) # 1
    BY <1>6, <2>1 DEF TypeOK
  <2>3. ~IsExpression(cells)
    BY <1>1, <1>2, <2>1, <2>2, OneExpression
  <2> QED BY <1>4, <1>16, <2>3, SourceFail DEF ExitNotSingleton
<1>17. ASSUME NEW o \in Opcodes, BadOpcode(o)
       PROVE  SourceInv'
  <2>1. o # "="
    BY <1>17 DEF BadOpcode
  <2> QED BY <1>3, <1>5, <1>17, <2>1, SourceFail DEF BadOpcode
<1>18. CASE UNCHANGED vars
  BY <1>18 DEF vars, SourceInv, CellsAccepted, ValuesMatchSource, StackMatchesSource,
                ResultIsExpression, logical_stack
<1> QED
  BY <1>7, <1>8, <1>9, <1>10, <1>11, <1>12, <1>13, <1>14, <1>15, <1>16, <1>17, <1>18 DEF Next

\* For every program: the stack of a running call holds the values of the
\* expressions its cells consist of, in source order, and a call returns OK with
\* the value of its expression exactly when its cells are one expression and "=".
THEOREM ValuesCorrect == Spec => []ValuesMatchSource
<1>1. SourceInv => ValuesMatchSource
  BY DEF SourceInv
<1> QED
  BY <1>1, SourceInit, SourceStep, TypeCorrect, PTL DEF Spec

=============================================================================
