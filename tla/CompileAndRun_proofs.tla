------------------------- MODULE CompileAndRun_proofs -------------------------
(***************************************************************************)
(* Proofs about the Python loop: its state is well typed, its stack stays  *)
(* within stack_limit whatever thread it is given, and a fault leaves ip   *)
(* and the stack alone.                                                    *)
(*                                                                         *)
(* About the compiler: for sources of any length and nesting, the patch    *)
(* stack only ever names operands that an IF reserved and that still wait  *)
(* for their THEN, and a source is compiled exactly when it is well        *)
(* formed.                                                                 *)
(*                                                                         *)
(* And about the two together: what was compiled is laid out so that the   *)
(* loop only ever stands where an instruction starts, and compiling and    *)
(* running a source implements SourceMachine.                              *)
(***************************************************************************)
EXTENDS CompileAndRun, SequenceTheorems, SetInduction, NaturalsInduction, TLAPS

\* What the library's Max and Min return on two numbers.
LEMMA MaxOfTwo ==
  ASSUME NEW a \in Int, NEW b \in Int
  PROVE  Max({a, b}) = IF a >= b THEN a ELSE b
  BY DEF Max

\* The smaller of two numbers.
LEMMA MinOfTwo ==
  ASSUME NEW a \in Int, NEW b \in Int
  PROVE  Min({a, b}) = IF a <= b THEN a ELSE b
  BY DEF Min

\* Slicing never leaves a sequence, however the bounds fall (Slice).
LEMMA SliceType ==
  ASSUME NEW S, NEW s \in Seq(S), NEW from \in Int, NEW to \in Int
  PROVE  Slice(s, from, to) \in Seq(S)
<1> DEFINE clip(i) == IF i < 0 THEN Max({0, i + Len(s)}) ELSE Min({i, Len(s)})
<1>1. \A i \in Int : clip(i) \in 0 .. Len(s)
  <2> SUFFICES ASSUME NEW i \in Int PROVE clip(i) \in 0 .. Len(s)
    OBVIOUS
  <2>1. Len(s) \in Nat
    OBVIOUS
  <2>2. Max({0, i + Len(s)}) = IF 0 >= i + Len(s) THEN 0 ELSE i + Len(s)
    BY <2>1, MaxOfTwo
  <2>3. Min({i, Len(s)}) = IF i <= Len(s) THEN i ELSE Len(s)
    BY <2>1, MinOfTwo
  <2> QED
    BY <2>1, <2>2, <2>3
<1>2. PICK m \in 0 .. Len(s) : m = clip(from)
  BY <1>1
<1>3. PICK n \in 0 .. Len(s) : n = clip(to)
  BY <1>1
<1>4. SubSeq(s, m + 1, n) \in Seq(S)
  <2>1. \A i \in m + 1 .. n : s[i] \in S
    BY <1>2, <1>3
  <2>2. m + 1 \in Int /\ n \in Int
    OBVIOUS
  <2> QED
    BY <2>1, <2>2, SubSeqProperties, Zenon
<1> QED
  BY <1>2, <1>3, <1>4 DEF Slice

\* A quotient by a positive number is a number.
LEMMA QuotientType ==
  ASSUME NEW a \in Int, NEW b \in Nat \ {0}
  PROVE  a \div b \in Int
  OBVIOUS

\* An octet of a cell is an octet, whatever the cell holds (Byte).
LEMMA ByteType ==
  ASSUME NEW cell \in Int, NEW k \in 0 .. 3
  PROVE  Byte(cell, k) \in 0 .. ByteValues - 1
<1> DEFINE place == <<1, ByteValues, ByteValues * ByteValues,
                      ByteValues * ByteValues * ByteValues>>
<1>1. ByteValues * ByteValues \in Nat \ {0}
  BY ByteAssumption
<1>2. ByteValues * ByteValues * ByteValues \in Nat \ {0}
  BY <1>1, ByteAssumption
<1>3. place[k + 1] \in Nat \ {0}
  BY <1>1, <1>2, ByteAssumption
<1>4. cell \div place[k + 1] \in Int
  BY <1>3, QuotientType
<1>5. \A x \in Int : x % ByteValues \in 0 .. ByteValues - 1
  BY ByteAssumption
<1> QED
  BY <1>4, <1>5 DEF Byte

\* A function on 1 .. n is a sequence.
LEMMA TupleType ==
  ASSUME NEW S, NEW n \in Nat, NEW f \in [1 .. n -> S]
  PROVE  f \in Seq(S)
  OBVIOUS

\* A counted payload is octets, and its length is a number (unpack_inline_payload).
LEMMA PayloadType ==
  ASSUME NEW cells \in Seq(Int), NEW length \in Int
  PROVE  unpack_inline_payload(cells, length) \in Seq(0 .. ByteValues - 1)
<1> DEFINE raw == [i \in 1 .. 4 * Len(cells) |->
                     Byte(cells[(i - 1) \div 4 + 1], (i - 1) % 4)]
<1>1. ASSUME NEW i \in 1 .. 4 * Len(cells)
      PROVE  Byte(cells[(i - 1) \div 4 + 1], (i - 1) % 4) \in 0 .. ByteValues - 1
  <2>1. (i - 1) \div 4 + 1 \in 1 .. Len(cells) /\ (i - 1) % 4 \in 0 .. 3
    OBVIOUS
  <2>2. cells[(i - 1) \div 4 + 1] \in Int
    BY <2>1
  <2> QED
    BY <2>1, <2>2, ByteType
<1>2. unpack_inline_payload(cells, length) = Slice(raw, 0, length)
  BY DEF unpack_inline_payload
<1>3. raw \in [1 .. 4 * Len(cells) -> 0 .. ByteValues - 1]
  BY <1>1
<1> HIDE DEF raw
<1>4. raw \in Seq(0 .. ByteValues - 1)
  <2>1. 4 * Len(cells) \in Nat
    OBVIOUS
  <2> QED
    BY <1>3, <2>1, TupleType
<1> QED
  BY <1>2, <1>4, SliceType

\* Where the loop can read, it reads a number (Index).
LEMMA ReadType ==
  ASSUME NEW s \in Seq(Int), NEW i \in Int, i < Len(s), i >= -Len(s)
  PROVE  s[Index(s, i)] \in Int
<1>1. Index(s, i) \in 1 .. Len(s)
  BY DEF Index
<1> QED
  BY <1>1

\* The requirements of every handled instruction ask for whole numbers.
LEMMA RequirementsType ==
  ASSUME NEW h \in HANDLERS
  PROVE  /\ Requirements(h).data_in \in Nat
         /\ Requirements(h).data_out \in Nat
  BY DEF HANDLERS, Requirements, Req, ADD, EXIT, LIT, BRANCH, ZBRANCH, LITSTRING, DOCOL

\* What a word may rely on once step_once calls its handler.
LEMMA ReadyMeans ==
  ASSUME LoopTypeOK, NEW h \in HANDLERS, Ready(h)
  PROVE  /\ outcome = "running"
         /\ ip < Len(thread) /\ ip >= -Len(thread)
         /\ Depth >= Requirements(h).data_in
         /\ StackLimit - Depth >= Requirements(h).data_out
<1>1. Preflight = "ok" /\ Handler = h /\ outcome = "running"
  BY DEF Ready
<1>2. ip < Len(thread) /\ ip >= -Len(thread) /\ enforce_requirements(h) = "ok"
  BY <1>1 DEF Preflight, LoopTypeOK
<1>3. Depth \in Nat /\ StackLimit \in Nat
  BY StackLimitAssumption DEF Depth, LoopTypeOK
<1>4. Depth >= Requirements(h).data_in
  BY <1>2, <1>3, RequirementsType DEF enforce_requirements, Depth
<1>5. StackLimit - Depth >= Requirements(h).data_out
  BY <1>2, <1>3, <1>4, RequirementsType DEF enforce_requirements, Depth
<1> QED
  BY <1>1, <1>2, <1>4, <1>5

\* An inline operand that is there is a number.
LEMMA OperandType ==
  ASSUME LoopTypeOK, ip >= -Len(thread), ~OperandMissing
  PROVE  Operand \in Int
<1>1. thread \in Seq(Int) /\ ip \in Int /\ Len(thread) \in Nat
  BY DEF LoopTypeOK
<1>2. PICK i \in Int : i = ip + 1 /\ i < Len(thread) /\ i >= -Len(thread)
  <2>1. ip + 1 \in Int /\ ip + 1 < Len(thread) /\ ip + 1 >= -Len(thread)
    BY <1>1 DEF OperandMissing
  <2> QED
    BY <2>1
<1>3. thread[Index(thread, i)] \in Int
  BY <1>1, <1>2, ReadType, Zenon
<1> QED
  BY <1>2, <1>3 DEF Operand

-----------------------------------------------------------------------------
(***************************************************************************)
(* The inductive invariant.  Types and the stack's limit are proved        *)
(* together: a push is within the limit by the requirements checked before *)
(* it, which compare numbers.                                              *)
(***************************************************************************)
LoopInv == LoopTypeOK /\ StackWithinLimit

\* Values made of numbers and octets are stack values.
LEMMA ValueTypes ==
  /\ \A n \in Int : IntValue(n) \in StackValue
  /\ \A o \in Seq(0 .. ByteValues - 1) : InlineStringRef(o) \in StackValue
<1>1. <<>> \in Seq(0 .. ByteValues - 1)
  OBVIOUS
<1> QED
  BY <1>1 DEF IntValue, InlineStringRef, StackValue

\* Dropping what is there shortens the stack by as much.
LEMMA DroppedType ==
  ASSUME LoopTypeOK, NEW n \in Nat, n <= Depth
  PROVE  Dropped(n) \in Seq(StackValue) /\ Len(Dropped(n)) = Depth - n
<1>1. data_stack \in Seq(StackValue) /\ Depth = Len(data_stack) /\ Depth \in Nat
  BY DEF LoopTypeOK, Depth
<1>2. \A i \in 1 .. Depth - n : data_stack[i] \in StackValue
  BY <1>1
<1>3. 1 \in Int /\ Depth - n \in Int
  BY <1>1
<1>4. Dropped(n) \in Seq(StackValue)
  BY <1>2, <1>3, SubSeqProperties, Zenon DEF Dropped
<1>5. PICK last \in Nat : last = Depth - n /\ last <= Len(data_stack)
  <2>1. Depth - n \in Nat /\ Depth - n <= Len(data_stack)
    BY <1>1
  <2> QED
    BY <2>1, Zenon
<1>6. Len(SubSeq(data_stack, 1, last)) = last
  BY <1>1, <1>5
<1> QED
  BY <1>4, <1>5, <1>6 DEF Dropped

\* A word whose call is made continues well typed and within the limit when
\* it leaves ip a number and the stack a short enough sequence of values.
LEMMA ContinueKeeps ==
  ASSUME LoopInv, NEW next_ip \in Int, NEW stack \in Seq(StackValue), Len(stack) <= StackLimit,
         Continue(next_ip, stack)
  PROVE  LoopInv'
  BY DEF LoopInv, LoopTypeOK, StackWithinLimit, Continue

\* A raised fault or exception, and EXIT, change nothing but the outcome.
LEMMA RaiseKeeps ==
  ASSUME LoopInv, NEW code \in {"halted"} \cup Faults \cup Exceptions, Raise(code)
  PROVE  LoopInv'
  BY DEF LoopInv, LoopTypeOK, StackWithinLimit, Raise

\* A fresh LoopState is well typed and its stack is within the limit.
THEOREM InitLoopInv == InitLoop => LoopInv
<1> SUFFICES ASSUME InitLoop PROVE LoopInv
  OBVIOUS
<1>1. PICK s \in Scenarios : thread = s.thread
  BY DEF InitLoop
<1>2. thread \in Seq(Int)
  BY <1>1, ScenariosAssumption
<1>3. ip = 0 /\ data_stack = <<>> /\ outcome = "running"
  BY DEF InitLoop
<1>4. <<>> \in Seq(StackValue) /\ Len(<<>>) = 0
  OBVIOUS
<1> QED
  BY <1>2, <1>3, <1>4, StackLimitAssumption DEF LoopInv, LoopTypeOK, StackWithinLimit

\* The limit, in the form the handlers use it: what they declare fits.
LEMMA ReadyFits ==
  ASSUME LoopInv, NEW h \in HANDLERS, Ready(h)
  PROVE  /\ Depth \in Nat /\ StackLimit \in Nat /\ Depth <= StackLimit
         /\ Depth >= Requirements(h).data_in
         /\ Depth + Requirements(h).data_out <= StackLimit
         /\ ip \in Int /\ ip >= -Len(thread)
         /\ data_stack \in Seq(StackValue) /\ Len(data_stack) = Depth
<1>1. LoopTypeOK /\ Depth \in Nat /\ StackLimit \in Nat /\ Depth <= StackLimit
  BY StackLimitAssumption DEF LoopInv, LoopTypeOK, StackWithinLimit, Depth
<1>2. ip >= -Len(thread) /\ Depth >= Requirements(h).data_in
        /\ StackLimit - Depth >= Requirements(h).data_out
  BY <1>1, ReadyMeans
<1> QED
  BY <1>1, <1>2, RequirementsType DEF LoopTypeOK, Depth

\* Every handler, and every refusal, keeps the invariant.
THEOREM NextLoopInv == LoopInv /\ [step_once]_loop_vars => LoopInv'
<1> SUFFICES ASSUME LoopInv, [step_once]_loop_vars PROVE LoopInv'
  OBVIOUS
<1> USE DEF Faults, Exceptions
<1>t. LoopTypeOK
  BY DEF LoopInv
<1>1. CASE Refuse
  <2>1. Preflight \in {"ok"} \cup Faults \cup Exceptions
    BY DEF Preflight, enforce_requirements
  <2>2. Preflight \in Faults \cup Exceptions /\ Raise(Preflight)
    BY <1>1, <2>1 DEF Refuse
  <2> QED
    BY <2>2, RaiseKeeps
<1>2. CASE handle_lit
  <2>1. Ready(LIT)
    BY <1>2 DEF handle_lit
  <2>2. LIT \in HANDLERS /\ Requirements(LIT).data_out = 1
    BY DEF HANDLERS, Requirements, Req, ADD, EXIT, LIT, BRANCH, ZBRANCH, LITSTRING, DOCOL
  <2>3. CASE OperandMissing
    BY <1>2, <2>3, RaiseKeeps DEF handle_lit
  <2>4. CASE ~OperandMissing
    <3>1. Operand \in Int
      BY <1>t, <2>1, <2>2, <2>4, ReadyFits, OperandType
    <3>2. PICK v \in StackValue : v = IntValue(Operand)
      BY <3>1, ValueTypes
    <3>3. Append(data_stack, v) \in Seq(StackValue) /\ Len(Append(data_stack, v)) = Depth + 1
      BY <2>1, <2>2, ReadyFits
    <3>4. Len(Append(data_stack, v)) <= StackLimit /\ ip + 2 \in Int
      BY <2>1, <2>2, <3>3, ReadyFits
    <3>5. Continue(ip + 2, Append(data_stack, v))
      BY <1>2, <2>4, <3>2 DEF handle_lit
    <3> QED
      BY <3>3, <3>4, <3>5, ContinueKeeps
  <2> QED
    BY <2>3, <2>4
<1>3. CASE handle_litstring
  <2>1. Ready(LITSTRING)
    BY <1>3 DEF handle_litstring
  <2>2. LITSTRING \in HANDLERS /\ Requirements(LITSTRING).data_out = 2
    BY DEF HANDLERS, Requirements, Req, ADD, EXIT, LIT, BRANCH, ZBRANCH, LITSTRING, DOCOL
  <2>3. \/ Raise("inline-operand-underflow") \/ Raise("OverflowError")
        \/ /\ ~OperandMissing
           /\ LET octets == unpack_inline_payload(PayloadCells, Operand)
              IN  Continue(PayloadEnd,
                           data_stack \o <<InlineStringRef(octets), IntValue(Len(octets))>>)
    BY <1>3 DEF handle_litstring
  <2>4. CASE Raise("inline-operand-underflow") \/ Raise("OverflowError")
    BY <2>4, RaiseKeeps
  <2>5. CASE /\ ~OperandMissing
             /\ LET octets == unpack_inline_payload(PayloadCells, Operand)
                IN  Continue(PayloadEnd,
                             data_stack \o <<InlineStringRef(octets), IntValue(Len(octets))>>)
    <3>1. Operand \in Int
      BY <1>t, <2>1, <2>2, <2>5, ReadyFits, OperandType
    <3>2. PayloadEnd \in Int /\ ip + 2 \in Int
      <4>1. (Operand + 3) \div 4 \in Int
        BY <3>1, QuotientType
      <4> QED
        BY <2>1, <2>2, <4>1, ReadyFits DEF PayloadEnd, litstring_payload_cells
    <3>3. PayloadCells \in Seq(Int)
      BY <1>t, <3>2, SliceType DEF PayloadCells, LoopTypeOK
    <3>4. PICK o \in Seq(0 .. ByteValues - 1) : o = unpack_inline_payload(PayloadCells, Operand)
      BY <3>1, <3>3, PayloadType
    <3>5. PICK r \in StackValue, n \in StackValue :
            r = InlineStringRef(o) /\ n = IntValue(Len(o))
      BY <3>4, ValueTypes
    <3>6. <<r, n>> \in Seq(StackValue) /\ Len(<<r, n>>) = 2
      OBVIOUS
    <3>7. PICK stack \in Seq(StackValue) :
            stack = data_stack \o <<r, n>> /\ Len(stack) = Depth + 2
      <4>1. data_stack \in Seq(StackValue) /\ Len(data_stack) = Depth
        BY <2>1, <2>2, ReadyFits
      <4>2. /\ data_stack \o <<r, n>> \in Seq(StackValue)
            /\ Len(data_stack \o <<r, n>>) = Len(data_stack) + Len(<<r, n>>)
        BY <3>6, <4>1, ConcatProperties, Zenon
      <4> QED
        BY <3>6, <4>1, <4>2
    <3>8. Len(stack) <= StackLimit
      BY <2>1, <2>2, <3>7, ReadyFits
    <3>9. Continue(PayloadEnd, stack)
      BY <2>5, <3>4, <3>5, <3>7
    <3> QED
      BY <3>2, <3>8, <3>9, ContinueKeeps
  <2> QED
    BY <2>3, <2>4, <2>5
<1>4. CASE handle_add
  <2>1. Ready(ADD)
    BY <1>4 DEF handle_add
  <2>2. ADD \in HANDLERS /\ Requirements(ADD).data_in = 2 /\ Requirements(ADD).data_out = 1
    BY DEF HANDLERS, Requirements, Req, ADD, EXIT, LIT, BRANCH, ZBRANCH, LITSTRING, DOCOL
  <2>3. Depth \in Nat /\ Depth >= 2 /\ Depth <= StackLimit /\ StackLimit \in Nat /\ ip \in Int
    BY <2>1, <2>2, ReadyFits
  <2>4. PICK below \in Seq(StackValue) : below = Dropped(2) /\ Len(below) = Depth - 2
    BY <1>t, <2>3, DroppedType
  <2>5. \/ \E v \in StackValue : Continue(ip + 1, Append(Dropped(2), v))
        \/ data_stack' = Dropped(2) /\ outcome' = "TypeError" /\ UNCHANGED <<thread, words, ip>>
    <3> DEFINE sum == data_stack[Depth - 1].value + Top.value
    <3>1. CASE data_stack[Depth - 1].kind = "int" /\ Top.kind = "int"
      <4>1. sum \in -ValueBound .. ValueBound /\ Continue(ip + 1, Append(Dropped(2), IntValue(sum)))
        BY <1>4, <3>1 DEF handle_add
      <4>2. sum \in Int
        <5>1. data_stack[Depth - 1] \in StackValue /\ Top \in StackValue
          BY <1>t, <2>3 DEF LoopTypeOK, Top, Depth
        <5>2. data_stack[Depth - 1].value \in Int /\ Top.value \in Int
          BY <5>1 DEF StackValue
        <5> QED
          BY <5>2
      <4> QED
        BY <4>1, <4>2, ValueTypes
    <3>2. CASE ~(data_stack[Depth - 1].kind = "int" /\ Top.kind = "int")
      BY <1>4, <3>2 DEF handle_add
    <3> QED
      BY <3>1, <3>2
  <2>6. ASSUME NEW v \in StackValue, Continue(ip + 1, Append(Dropped(2), v))
        PROVE  LoopInv'
    <3>1. PICK stack \in Seq(StackValue) : stack = Append(below, v) /\ Len(stack) = Depth - 2 + 1
      <4>1. Append(below, v) \in Seq(StackValue) /\ Len(Append(below, v)) = Len(below) + 1
        OBVIOUS
      <4> QED
        BY <2>4, <4>1
    <3>2. Len(stack) <= StackLimit /\ ip + 1 \in Int /\ Continue(ip + 1, stack)
      BY <2>3, <2>4, <2>6, <3>1
    <3> QED
      BY <3>2, ContinueKeeps
  <2>7. CASE data_stack' = Dropped(2) /\ outcome' = "TypeError" /\ UNCHANGED <<thread, words, ip>>
    <3>1. data_stack' \in Seq(StackValue) /\ Len(data_stack') <= StackLimit
      BY <2>3, <2>4, <2>7
    <3> QED
      BY <1>t, <2>7, <3>1 DEF LoopInv, LoopTypeOK, StackWithinLimit
  <2> QED
    BY <2>5, <2>6, <2>7
<1>5. CASE handle_branch
  <2>1. Ready(BRANCH)
    BY <1>5 DEF handle_branch
  <2>2. BRANCH \in HANDLERS
    BY DEF HANDLERS
  <2>3. CASE OperandMissing
    BY <1>5, <2>3, RaiseKeeps DEF handle_branch
  <2>4. CASE ~OperandMissing
    <3>1. Operand \in Int
      BY <1>t, <2>1, <2>2, <2>4, ReadyFits, OperandType
    <3>2. ip + 1 + Operand + 1 \in Int /\ data_stack \in Seq(StackValue)
            /\ Len(data_stack) <= StackLimit
      BY <2>1, <2>2, <3>1, ReadyFits
    <3>3. Continue(ip + 1 + Operand + 1, data_stack)
      BY <1>5, <2>4 DEF handle_branch
    <3> QED
      BY <3>2, <3>3, ContinueKeeps
  <2> QED
    BY <2>3, <2>4
<1>6. CASE handle_zero_branch
  <2>1. Ready(ZBRANCH)
    BY <1>6 DEF handle_zero_branch
  <2>2. ZBRANCH \in HANDLERS /\ Requirements(ZBRANCH).data_in = 1
    BY DEF HANDLERS, Requirements, Req, ADD, EXIT, LIT, BRANCH, ZBRANCH, LITSTRING, DOCOL
  <2>3. CASE OperandMissing
    BY <1>6, <2>3, RaiseKeeps DEF handle_zero_branch
  <2>4. CASE ~OperandMissing
    <3>1. Operand \in Int
      BY <1>t, <2>1, <2>2, <2>4, ReadyFits, OperandType
    <3>2. Depth >= 1 /\ Depth \in Nat /\ Depth <= StackLimit /\ StackLimit \in Nat /\ ip \in Int
      BY <2>1, <2>2, ReadyFits
    <3>3. PICK below \in Seq(StackValue) : below = Dropped(1) /\ Len(below) = Depth - 1
      BY <1>t, <3>2, DroppedType
    <3>4. Len(below) <= StackLimit
      BY <3>2, <3>3
    <3>5. PICK skip \in Int : skip = IF Top = IntValue(0) THEN Operand ELSE 0
      BY <3>1
    <3>6. ip + 2 + skip \in Int
      BY <3>2
    <3>7. Continue(ip + 2 + skip, below)
      BY <1>6, <2>4, <3>3, <3>5 DEF handle_zero_branch
    <3> QED
      BY <3>4, <3>6, <3>7, ContinueKeeps
  <2> QED
    BY <2>3, <2>4
<1>7. CASE handle_exit
  BY <1>7, RaiseKeeps DEF handle_exit
<1>8. CASE UNCHANGED loop_vars
  BY <1>8 DEF loop_vars, LoopInv, LoopTypeOK, StackWithinLimit
<1> QED
  BY <1>1, <1>2, <1>3, <1>4, <1>5, <1>6, <1>7, <1>8 DEF step_once

\* The loop's state is always well typed, on any threads of numbers.
THEOREM LoopTypeCorrect == LoopSpec => []LoopTypeOK
<1>1. LoopInv => LoopTypeOK
  BY DEF LoopInv
<1> QED
  BY <1>1, InitLoopInv, NextLoopInv, PTL DEF LoopSpec

\* The declared requirements keep the data stack within stack_limit, whatever
\* thread is executed and however deep its branches jump.
THEOREM StackBounded == LoopSpec => []StackWithinLimit
<1>1. LoopInv => StackWithinLimit
  BY DEF LoopInv
<1> QED
  BY <1>1, InitLoopInv, NextLoopInv, PTL DEF LoopSpec

\* No fault is raised after something was popped or moved: the ip and stack a
\* failed scenario reports are those the faulting word found.
THEOREM FaultsKeepState == LoopSpec => FaultKeepsState
<1>1. LoopInv /\ [step_once]_loop_vars
        => [outcome' \in Faults => UNCHANGED <<ip, data_stack>>]_loop_vars
  <2> SUFFICES ASSUME step_once, outcome' \in Faults
               PROVE  UNCHANGED <<ip, data_stack>>
    BY DEF loop_vars
  <2> USE DEF Raise, Faults
  <2>r. \A code : Raise(code) => UNCHANGED <<ip, data_stack>>
    OBVIOUS
  <2>c. \A n, s : Continue(n, s) => outcome' = outcome
    BY DEF Continue
  <2>1. outcome = "running"
    BY DEF step_once, Refuse, handle_lit, handle_litstring, handle_add, handle_branch,
           handle_zero_branch, handle_exit, Ready
  <2>2. \A n, s : ~Continue(n, s)
    BY <2>c, <2>1
  <2>3. outcome' # "TypeError"
    OBVIOUS
  <2>4. CASE Refuse
    BY <2>4, <2>r DEF Refuse
  <2>5. CASE handle_lit \/ handle_litstring \/ handle_branch \/ handle_zero_branch \/ handle_exit
    BY <2>5, <2>r, <2>2 DEF handle_lit, handle_litstring, handle_branch, handle_zero_branch,
                            handle_exit
  <2>6. CASE handle_add
    BY <2>6, <2>2, <2>3 DEF handle_add
  <2> QED
    BY <2>4, <2>5, <2>6 DEF step_once
<1> QED
  BY <1>1, InitLoopInv, NextLoopInv, PTL DEF LoopSpec, FaultKeepsState

-----------------------------------------------------------------------------
\* A set of naturals that is not empty has the minimum the library chooses.
LEMMA MinOfNaturals ==
  ASSUME NEW T, T \subseteq Nat, T # {}
  PROVE  Min(T) \in T /\ \A y \in T : Min(T) <= y
<1> DEFINE R == {ss \in Nat \X Nat : ss[1] < ss[2]}
<1>1. IsWellFoundedOn(R, Nat)
  BY NatLessThanWellFounded DEF OpToRel
<1>2. PICK x \in T : \A y \in T : ~ (<<y, x>> \in R)
  <2> HIDE DEF R
  <2> QED
    BY <1>1, WFMin, Zenon
<1>3. ASSUME NEW y \in T PROVE x <= y
  <2>1. <<y, x>> \notin R /\ <<y, x>> \in Nat \X Nat
    BY <1>2
  <2>2. ~ (y < x)
    BY <2>1
  <2> QED
    BY <2>2
<1> QED
  BY <1>3 DEF Min

\* A closing quote is in the source, not before the place it is looked for.
LEMMA ClosingRange ==
  ASSUME NEW s \in Sources, NEW p \in Nat \ {0}
  PROVE  Closing(s, p) = 0 \/ Closing(s, p) \in p .. Len(s)
<1> DEFINE quotes == {q \in p .. Len(s) : HasQuote(s[q])}
<1>1. Len(s) \in Nat
  BY SourcesAssumption
<1>2. CASE quotes = {}
  BY <1>2 DEF Closing
<1>3. CASE quotes # {}
  <2>1. quotes \subseteq Nat
    BY <1>1
  <2>2. Min(quotes) \in quotes
    BY <1>3, <2>1, MinOfNaturals
  <2>3. Closing(s, p) = Min(quotes)
    BY <1>3 DEF Closing
  <2> QED
    BY <2>2, <2>3
<1> QED
  BY <1>2, <1>3

\* One more octet at the low end of a number.
LEMMA OneMoreOctet ==
  ASSUME NEW b \in Nat \ {0}, NEW M \in Nat, NEW x \in 0 .. M - 1, NEW a \in 0 .. b - 1
  PROVE  a + b * x \in 0 .. b * M - 1
<1>1. PICK y \in Nat : M = x + 1 + y
  <2>1. M - 1 - x \in Nat /\ M = x + 1 + (M - 1 - x)
    OBVIOUS
  <2> QED
    BY <2>1
<1>2. b * M = b * x + b + b * y
  BY <1>1
<1>3. b * x \in Nat /\ b * y \in Nat
  OBVIOUS
<1> QED
  BY <1>2, <1>3

\* A packed text is a sequence of cells, four octets to each (pack_inline_payload).
LEMMA PackedType ==
  ASSUME NEW text \in Seq(0 .. ByteValues - 1)
  PROVE  /\ pack_inline_payload(text) \in Seq(Int)
         /\ Len(pack_inline_payload(text)) = litstring_payload_cells(Len(text))
         /\ litstring_payload_cells(Len(text)) \in Nat
         /\ \A c \in 1 .. Len(pack_inline_payload(text)) : Representable(pack_inline_payload(text)[c])
<1> DEFINE octet(i) == IF i <= Len(text) THEN text[i] ELSE 0
           cells == litstring_payload_cells(Len(text))
           cell(c) == octet(4 * c - 3) + ByteValues * (octet(4 * c - 2)
                        + ByteValues * (octet(4 * c - 1) + ByteValues * octet(4 * c)))
<1>1. cells \in Nat
  BY DEF litstring_payload_cells
<1>2. \A i \in Nat \ {0} : octet(i) \in 0 .. ByteValues - 1
  BY ByteAssumption
<1>b. ByteValues \in Nat \ {0}
  BY ByteAssumption
<1>3. ASSUME NEW c \in 1 .. cells PROVE cell(c) \in Int /\ Representable(cell(c))
  <2>1. 4 * c - 3 \in Nat \ {0} /\ 4 * c - 2 \in Nat \ {0}
          /\ 4 * c - 1 \in Nat \ {0} /\ 4 * c \in Nat \ {0}
    BY <1>1
  <2>2. PICK a \in 0 .. ByteValues - 1, b \in 0 .. ByteValues - 1,
             d \in 0 .. ByteValues - 1, e \in 0 .. ByteValues - 1 :
          a = octet(4 * c - 3) /\ b = octet(4 * c - 2) /\ d = octet(4 * c - 1) /\ e = octet(4 * c)
    BY <1>2, <2>1
  <2> HIDE DEF octet
  <2>3. PICK two \in Nat : two = ByteValues * ByteValues
    BY <1>b
  <2>4. PICK f \in 0 .. two - 1 : f = d + ByteValues * e
    BY <1>b, <2>3, OneMoreOctet
  <2>10. PICK three \in Nat : three = ByteValues * two
    BY <1>b
  <2>11. PICK g \in 0 .. three - 1 : g = b + ByteValues * f
    BY <1>b, <2>10, OneMoreOctet
  <2>5. a + ByteValues * g \in 0 .. ByteValues * three - 1
    BY <1>b, OneMoreOctet
  <2>6. cell(c) = a + ByteValues * g
    BY <2>2, <2>4, <2>11
  <2>7. ByteValues * three = ByteValues * (ByteValues * (ByteValues * ByteValues))
    BY <2>3, <2>10
  <2>8. Representable(a + ByteValues * g)
    BY <2>5, <2>7 DEF Representable
  <2>9. a + ByteValues * g \in Int
    BY <1>b
  <2> QED
    BY <2>6, <2>8, <2>9
<1>4. pack_inline_payload(text) = [c \in 1 .. cells |-> cell(c)]
  BY DEF pack_inline_payload
<1>7. cells = litstring_payload_cells(Len(text))
  OBVIOUS
<1> HIDE DEF cell, cells
<1>5. [c \in 1 .. cells |-> cell(c)] \in Seq(Int) /\ Len([c \in 1 .. cells |-> cell(c)]) = cells
  BY <1>1, <1>3
<1>6. \A c \in 1 .. cells : [d \in 1 .. cells |-> cell(d)][c] = cell(c)
  OBVIOUS
<1> QED
  BY <1>1, <1>3, <1>4, <1>5, <1>6, <1>7

(***************************************************************************)
(* The inductive invariant.  That the slots lie in what was emitted, in    *)
(* increasing order and two cells apart, is what keeps a patch away from   *)
(* the other slots' cells.                                                 *)
(***************************************************************************)
CompilerInv == source \in Sources /\ CompilerTypeOK /\ SlotsReserved

\* An operand and the 0BRANCH before it are both in what was emitted.
LEMMA SlotCells ==
  ASSUME NEW n \in Nat, NEW x \in 1 .. n - 1
  PROVE  x \in 1 .. n /\ x + 1 \in 1 .. n
  OBVIOUS

\* Of two places, the one further in is not the last.
LEMMA EarlierPlace ==
  ASSUME NEW n \in Nat, NEW i \in 1 .. n + 1, NEW j \in 1 .. n + 1, i < j
  PROVE  i \in 1 .. n /\ (j \in 1 .. n \/ j = n + 1)
  OBVIOUS

\* A place among all but the last is a place.
LEMMA ButTheLast ==
  ASSUME NEW n \in Nat, NEW i \in 1 .. n - 1
  PROVE  i \in 1 .. n
  OBVIOUS

\* The first part of a sequence.
LEMMA FirstPart ==
  ASSUME NEW S, NEW s \in Seq(S), NEW n \in 0 .. Len(s)
  PROVE  /\ SubSeq(s, 1, n) \in Seq(S) /\ Len(SubSeq(s, 1, n)) = n
         /\ \A i \in 1 .. n : SubSeq(s, 1, n)[i] = s[i]
<1>1. 1 \in Int /\ n \in Int /\ \A i \in 1 .. n : s[i] \in S
  OBVIOUS
<1>2. PICK part : part = SubSeq(s, 1, n)
  OBVIOUS
<1>3. /\ part \in Seq(S) /\ Len(part) = IF 1 <= n THEN n - 1 + 1 ELSE 0
      /\ \A i \in 1 .. n - 1 + 1 : part[i] = s[1 + i - 1]
  BY <1>1, <1>2, SubSeqProperties
<1> QED
  BY <1>2, <1>3

\* An inner slot's operand is neither cell of a slot further out.
LEMMA SlotsApart ==
  ASSUME NEW x \in Int, NEW y \in Int, x + 1 < y
  PROVE  x # y + 1 /\ x + 1 # y + 1
  OBVIOUS

\* Emitting more cells leaves every open slot as it was.
LEMMA EmitKeepsSlots ==
  ASSUME CompilerInv, NEW cells \in Seq(Int),
         emitted' = emitted \o cells, slots' = slots
  PROVE  emitted' \in Seq(Int) /\ SlotsReserved'
<1>1. emitted \in Seq(Int) /\ slots \in Seq(Nat)
  BY DEF CompilerInv, CompilerTypeOK
<1>2. emitted' \in Seq(Int) /\ Len(emitted') = Len(emitted) + Len(cells)
  BY <1>1
<1>3. \A k \in 1 .. Len(emitted) : emitted'[k] = emitted[k]
  BY <1>1
<1>4. \A i \in 1 .. Len(slots) : slots[i] \in 1 .. Len(emitted) /\ slots[i] + 1 \in 1 .. Len(emitted)
  <2> SUFFICES ASSUME NEW i \in 1 .. Len(slots)
               PROVE  slots[i] \in 1 .. Len(emitted) /\ slots[i] + 1 \in 1 .. Len(emitted)
    OBVIOUS
  <2>1. slots[i] \in 1 .. Len(emitted) - 1
    BY <1>1 DEF CompilerInv, SlotsReserved, CompilerTypeOK
  <2>2. Len(emitted) \in Nat
    BY <1>1
  <2>3. \A n \in Nat : \A k \in 1 .. n - 1 : k \in 1 .. n /\ k + 1 \in 1 .. n
    OBVIOUS
  <2> QED BY ONLY <2>1, <2>2, <2>3
<1> QED
  BY <1>1, <1>2, <1>3, <1>4 DEF CompilerInv, SlotsReserved

\* A compilation starts with no cells and no slots.
THEOREM InitCompilerInv == InitCompiler => CompilerInv
<1> SUFFICES ASSUME InitCompiler PROVE CompilerInv
  OBVIOUS
<1>1. <<>> \in Seq(Int) /\ <<>> \in Seq(Nat) /\ Len(<<>>) = 0
  OBVIOUS
<1> QED
  BY <1>1 DEF InitCompiler, CompilerInv, CompilerTypeOK, SlotsReserved

\* The end of a compilation changes nothing but its outcome.
LEMMA EndKeeps ==
  ASSUME CompilerInv, NEW why \in {"compiled", "compile-parse-error", "ValueError"}, EndWith(why)
  PROVE  CompilerInv'
  BY DEF CompilerInv, CompilerTypeOK, SlotsReserved, EndWith

\* A word that only emits keeps the invariant.
LEMMA EmitKeeps ==
  ASSUME CompilerInv, NEW cells \in Seq(Int), NEW next_cursor \in Nat \ {0},
         Emit(next_cursor, cells), UNCHANGED <<source, slots, compile_outcome>>
  PROVE  CompilerInv'
<1>1. emitted' = emitted \o cells /\ cursor' = next_cursor /\ slots' = slots
  BY DEF Emit
<1>2. emitted' \in Seq(Int) /\ SlotsReserved'
  BY <1>1, EmitKeepsSlots
<1> QED
  BY <1>1, <1>2 DEF CompilerInv, CompilerTypeOK

\* IF opens a slot for the operand it reserves, above the slots already open.
LEMMA IfKeeps ==
  ASSUME CompilerInv, handle_if
  PROVE  CompilerInv'
<1>1. /\ cursor' = cursor + 1 /\ emitted' = emitted \o <<ZBRANCH, 0>>
      /\ slots' = Append(slots, Len(emitted) + 1)
      /\ UNCHANGED <<source, compile_outcome>>
  BY DEF handle_if, Emit
<1>2. /\ emitted \in Seq(Int) /\ slots \in Seq(Nat) /\ cursor \in Nat \ {0}
      /\ Len(emitted) \in Nat /\ Len(slots) \in Nat
  BY DEF CompilerInv, CompilerTypeOK
<1>3. <<ZBRANCH, 0>> \in Seq(Int) /\ Len(<<ZBRANCH, 0>>) = 2
  BY DEF ZBRANCH
<1>4. /\ emitted' \in Seq(Int) /\ Len(emitted') = Len(emitted) + 2
      /\ \A k \in 1 .. Len(emitted) : emitted'[k] = emitted[k]
      /\ emitted'[Len(emitted) + 1] = ZBRANCH /\ emitted'[Len(emitted) + 2] = 0
  BY <1>1, <1>2, <1>3
<1>5. /\ slots' \in Seq(Nat) /\ Len(slots') = Len(slots) + 1
      /\ \A i \in 1 .. Len(slots) : slots'[i] = slots[i]
      /\ slots'[Len(slots) + 1] = Len(emitted) + 1
  BY <1>1, <1>2
<1>6. ASSUME NEW i \in 1 .. Len(slots')
      PROVE  /\ slots'[i] \in 1 .. Len(emitted') - 1
             /\ emitted'[slots'[i]] = ZBRANCH
             /\ emitted'[slots'[i] + 1] = 0
  <2>1. CASE i \in 1 .. Len(slots)
    <3>1. /\ slots[i] \in 1 .. Len(emitted) - 1
          /\ emitted[slots[i]] = ZBRANCH /\ emitted[slots[i] + 1] = 0
      BY <2>1 DEF CompilerInv, SlotsReserved
    <3>2. PICK x \in 1 .. Len(emitted) - 1 : x = slots[i]
      BY <3>1
    <3>3. slots'[i] = x /\ emitted[x] = ZBRANCH /\ emitted[x + 1] = 0
      BY <1>5, <2>1, <3>1, <3>2
    <3>4. x \in 1 .. Len(emitted) /\ x + 1 \in 1 .. Len(emitted)
      BY <1>2, SlotCells
    <3>5. emitted'[x] = ZBRANCH /\ emitted'[x + 1] = 0
      BY <1>4, <3>3, <3>4
    <3>6. x \in 1 .. Len(emitted') - 1
      BY <1>2, <1>4
    <3> QED
      BY <3>3, <3>5, <3>6
  <2>2. CASE i = Len(slots) + 1
    BY <1>2, <1>4, <1>5, <2>2
  <2> QED
    BY <1>2, <1>5, <2>1, <2>2
<1>7. ASSUME NEW i \in 1 .. Len(slots'), NEW j \in 1 .. Len(slots'), i < j
      PROVE  slots'[i] + 1 < slots'[j]
  <2>1. i \in 1 .. Len(slots) /\ slots'[i] = slots[i] /\ slots[i] \in 1 .. Len(emitted) - 1
    <3>1. PICK n \in Nat : n = Len(slots) /\ Len(slots') = n + 1
      BY <1>2, <1>5
    <3>2. i \in 1 .. Len(slots)
      BY <1>7, <3>1, EarlierPlace
    <3> QED
      BY <1>5, <3>2 DEF CompilerInv, SlotsReserved
  <2>2. CASE j \in 1 .. Len(slots)
    <3>1. slots[i] + 1 < slots[j]
      BY <1>7, <2>1, <2>2 DEF CompilerInv, SlotsReserved
    <3>2. slots'[j] = slots[j]
      BY <1>5, <2>2, Zenon
    <3> QED
      BY <2>1, <3>1, <3>2
  <2>3. CASE j = Len(slots) + 1
    <3>1. PICK x \in 1 .. Len(emitted) - 1 : x = slots[i]
      BY <2>1
    <3>2. slots'[i] = x /\ slots'[j] = Len(emitted) + 1
      BY <1>5, <2>1, <2>3, <3>1, Zenon
    <3> QED
      BY <1>2, <3>2
  <2> QED
    BY <1>2, <1>5, <2>2, <2>3
<1>8. SlotsReserved'
  BY <1>6, <1>7 DEF SlotsReserved
<1> QED
  BY <1>1, <1>2, <1>4, <1>5, <1>8 DEF CompilerInv, CompilerTypeOK

\* THEN writes into the last slot's operand, which no other slot names.
LEMMA ThenKeeps ==
  ASSUME CompilerInv, handle_then
  PROVE  CompilerInv'
<1>1. CASE slots = <<>>
  BY <1>1, EndKeeps DEF handle_then
<1>2. CASE slots # <<>>
  <2>1. /\ emitted \in Seq(Int) /\ slots \in Seq(Nat) /\ cursor \in Nat \ {0}
        /\ Len(emitted) \in Nat /\ Len(slots) \in Nat \ {0}
    BY <1>2 DEF CompilerInv, CompilerTypeOK
  <2>2. PICK operand_index \in 1 .. Len(emitted) - 1 : operand_index = slots[Len(slots)]
    <3>1. Len(slots) \in 1 .. Len(slots)
      BY <2>1
    <3>2. slots[Len(slots)] \in 1 .. Len(emitted) - 1
      BY <3>1 DEF CompilerInv, SlotsReserved
    <3> QED
      BY <3>2
  <2>3. PICK offset \in Int : offset = Len(emitted) - operand_index - 1
    BY <2>1, <2>2
  <2>4. /\ emitted' = [emitted EXCEPT ![operand_index + 1] = offset]
        /\ slots' = SubSeq(slots, 1, Len(slots) - 1)
        /\ cursor' = cursor + 1
        /\ UNCHANGED <<source, compile_outcome>>
    BY <1>2, <2>2, <2>3 DEF handle_then, Patch, Last, Front
  <2>5. /\ emitted' \in Seq(Int) /\ Len(emitted') = Len(emitted)
        /\ \A k \in 1 .. Len(emitted) : k # operand_index + 1 => emitted'[k] = emitted[k]
    BY <2>1, <2>2, <2>4
  <2>6. /\ slots' \in Seq(Nat) /\ Len(slots') = Len(slots) - 1
        /\ \A i \in 1 .. Len(slots) - 1 : slots'[i] = slots[i]
    <3>1. PICK n \in Nat : n = Len(slots) - 1 /\ Len(slots) = n + 1
      <4>1. Len(slots) - 1 \in Nat /\ Len(slots) = Len(slots) - 1 + 1
        BY <2>1
      <4> QED
        BY <4>1
    <3>2. slots' = SubSeq(slots, 1, n)
      BY <2>4, <3>1
    <3>3. /\ SubSeq(slots, 1, n) \in Seq(Nat) /\ Len(SubSeq(slots, 1, n)) = n
          /\ \A i \in 1 .. n : SubSeq(slots, 1, n)[i] = slots[i]
      <4>1. n \in 0 .. Len(slots) /\ slots \in Seq(Nat)
        BY <2>1, <3>1
      <4> QED
        BY <4>1, FirstPart, Zenon
    <3> QED
      BY <3>1, <3>2, <3>3
  <2>7. ASSUME NEW i \in 1 .. Len(slots')
        PROVE  /\ slots'[i] \in 1 .. Len(emitted') - 1
               /\ emitted'[slots'[i]] = ZBRANCH
               /\ emitted'[slots'[i] + 1] = 0
    <3>1. /\ i \in 1 .. Len(slots) /\ Len(slots) \in 1 .. Len(slots) /\ i < Len(slots)
          /\ slots'[i] = slots[i]
      <4>1. i \in 1 .. Len(slots) - 1
        BY <2>6
      <4>2. slots'[i] = slots[i]
        BY <2>6, <4>1
      <4>3. i \in 1 .. Len(slots) /\ Len(slots) \in 1 .. Len(slots) /\ i < Len(slots)
        BY <2>1, <4>1
      <4> QED
        BY <4>2, <4>3
    <3>2. /\ slots[i] \in 1 .. Len(emitted) - 1
          /\ emitted[slots[i]] = ZBRANCH /\ emitted[slots[i] + 1] = 0
          /\ slots[i] + 1 < operand_index
      BY <2>2, <3>1 DEF CompilerInv, SlotsReserved
    <3>3. PICK x \in 1 .. Len(emitted) - 1 : x = slots[i]
      BY <3>2
    <3>4. /\ slots'[i] = x /\ emitted[x] = ZBRANCH /\ emitted[x + 1] = 0
          /\ x + 1 < operand_index
      BY <3>1, <3>2, <3>3
    <3>5. x \in 1 .. Len(emitted) /\ x + 1 \in 1 .. Len(emitted)
      BY <2>1, SlotCells
    <3>6. x # operand_index + 1 /\ x + 1 # operand_index + 1
      <4>1. x \in Int /\ operand_index \in Int
        BY <2>2, <3>3
      <4>2. x + 1 < operand_index
        BY <3>4
      <4> QED
        BY <4>1, <4>2, SlotsApart
    <3>7. emitted'[x] = ZBRANCH /\ emitted'[x + 1] = 0
      BY <2>5, <3>4, <3>5, <3>6
    <3>8. x \in 1 .. Len(emitted') - 1
      BY <2>5
    <3> QED
      BY <3>4, <3>7, <3>8
  <2>8. ASSUME NEW i \in 1 .. Len(slots'), NEW j \in 1 .. Len(slots'), i < j
        PROVE  slots'[i] + 1 < slots'[j]
    <3>1. i \in 1 .. Len(slots) /\ j \in 1 .. Len(slots)
            /\ slots'[i] = slots[i] /\ slots'[j] = slots[j]
      <4>1. i \in 1 .. Len(slots) - 1 /\ j \in 1 .. Len(slots) - 1
        BY <2>6
      <4>2. slots'[i] = slots[i] /\ slots'[j] = slots[j]
        BY <2>6, <4>1
      <4>3. i \in 1 .. Len(slots) /\ j \in 1 .. Len(slots)
        <5>1. Len(slots) \in Nat
          BY <2>1
        <5> QED
          BY <4>1, <5>1, ButTheLast, Zenon
      <4> QED
        BY <4>2, <4>3
    <3> QED
      BY <2>8, <3>1 DEF CompilerInv, SlotsReserved
  <2>9. SlotsReserved'
    BY <2>7, <2>8 DEF SlotsReserved
  <2> QED
    BY <2>1, <2>4, <2>5, <2>6, <2>9 DEF CompilerInv, CompilerTypeOK
<1> QED
  BY <1>1, <1>2

\* S" emits its header and the packed text, wherever the quote is found.
LEMMA QuoteKeeps ==
  ASSUME CompilerInv, handle_s_quote
  PROVE  CompilerInv'
<1>1. cursor \in Nat \ {0} /\ cursor <= Len(source) /\ source \in Sources
  BY DEF CompilerInv, CompilerTypeOK, handle_s_quote, Token
<1>2. PICK closing : closing = Closing(source, cursor + 1)
  OBVIOUS
<1>3. closing = 0 \/ closing \in cursor + 1 .. Len(source)
  <2>1. cursor + 1 \in Nat \ {0}
    BY <1>1
  <2> QED
    BY <1>1, <1>2, <2>1, ClosingRange
<1>4. CASE closing = 0
  BY <1>2, <1>4, EndKeeps DEF handle_s_quote
<1>5. CASE closing # 0
  <2>1. Len(source) \in Nat
    BY <1>1, SourcesAssumption
  <2>2. /\ cursor + 1 \in 1 .. Len(source) /\ closing \in 1 .. Len(source)
        /\ cursor + 1 <= closing /\ closing + 1 \in Nat \ {0}
    BY <1>1, <1>3, <1>5, <2>1
  <2>3. PICK text \in Seq(0 .. ByteValues - 1) : text = Text(source, cursor + 1, closing)
    BY <1>1, <2>2, SourcesAssumption
  <2>4. PICK packed \in Seq(Int) : packed = pack_inline_payload(text)
    BY PackedType
  <2>5. <<LITSTRING, Len(text)>> \in Seq(Int)
    BY DEF LITSTRING
  <2>6. <<LITSTRING, Len(text)>> \o packed \in Seq(Int)
    BY <2>5
  <2>7. /\ Emit(closing + 1, <<LITSTRING, Len(text)>> \o packed)
        /\ UNCHANGED <<source, slots, compile_outcome>>
    BY <1>2, <1>5, <2>3, <2>4 DEF handle_s_quote, StringCells
  <2> QED
    BY <2>2, <2>6, <2>7, EmitKeeps
<1> QED
  BY <1>4, <1>5

\* LIT emits the number beside it, or ends the compilation.
LEMMA LitKeeps ==
  ASSUME CompilerInv, compile_lit
  PROVE  CompilerInv'
<1>1. cursor \in Nat \ {0} /\ cursor <= Len(source) /\ source \in Sources
  BY DEF CompilerInv, CompilerTypeOK, compile_lit, Token
<1>2. CASE cursor = Len(source) \/ source[cursor + 1].kind # "number"
  BY <1>2, EndKeeps DEF compile_lit
<1>3. CASE ~ (cursor = Len(source) \/ source[cursor + 1].kind # "number")
  <2>1. source \in Seq([kind : STRING, value : Int, octets : Seq(0 .. ByteValues - 1)])
    BY <1>1, SourcesAssumption
  <2>2. cursor + 1 \in 1 .. Len(source) /\ cursor + 2 \in Nat \ {0}
    BY <1>1, <1>3, <2>1
  <2>3. source[cursor + 1] \in [kind : STRING, value : Int, octets : Seq(0 .. ByteValues - 1)]
    BY <2>1, <2>2, ElementOfSeq, Zenon
  <2>4. source[cursor + 1].value \in Int
    BY <2>3
  <2>5. <<LIT, source[cursor + 1].value>> \in Seq(Int)
    BY <2>4 DEF LIT
  <2>6. /\ Emit(cursor + 2, <<LIT, source[cursor + 1].value>>)
        /\ UNCHANGED <<source, slots, compile_outcome>>
    BY <1>3 DEF compile_lit
  <2> QED
    BY <2>2, <2>5, <2>6, EmitKeeps
<1> QED
  BY <1>2, <1>3

\* Every word of the source, and its end, keeps the invariant.
THEOREM NextCompilerInv == CompilerInv /\ [compile_source_to_thread]_compiler_vars => CompilerInv'
<1> SUFFICES ASSUME CompilerInv, [compile_source_to_thread]_compiler_vars PROVE CompilerInv'
  OBVIOUS
<1>1. cursor + 1 \in Nat \ {0} /\ <<ADD>> \in Seq(Int) /\ <<EXIT>> \in Seq(Int)
  BY DEF CompilerInv, CompilerTypeOK, ADD, EXIT
<1>2. CASE compile_plus
  BY <1>1, <1>2, EmitKeeps DEF compile_plus
<1>3. CASE compile_exit
  BY <1>1, <1>3, EmitKeeps DEF compile_exit
<1>4. CASE unknown_token \/ finish
  BY <1>4, EndKeeps DEF unknown_token, finish
<1>5. CASE UNCHANGED compiler_vars
  BY <1>5 DEF compiler_vars, CompilerInv, CompilerTypeOK, SlotsReserved
<1> QED
  BY <1>2, <1>3, <1>4, <1>5, LitKeeps, QuoteKeeps, IfKeeps, ThenKeeps
     DEF compile_source_to_thread

\* The compiler's state is always well typed: cells are numbers.
THEOREM CompilerTypeCorrect == CompilerSpec => []CompilerTypeOK
<1>1. CompilerInv => CompilerTypeOK
  BY DEF CompilerInv
<1> QED
  BY <1>1, InitCompilerInv, NextCompilerInv, PTL DEF CompilerSpec

\* However deep IFs nest and whatever stands between them, every open slot
\* names a reserved operand of its own, so THEN never patches other code.
THEOREM SlotsCorrect == CompilerSpec => []SlotsReserved
<1>1. CompilerInv => SlotsReserved
  BY DEF CompilerInv
<1> QED
  BY <1>1, InitCompilerInv, NextCompilerInv, PTL DEF CompilerSpec

-----------------------------------------------------------------------------
(***************************************************************************)
(* Which sources are accepted.  The words of a source are found again in   *)
(* the order in which the compiler reads them: the cursor always stands    *)
(* where one starts, and no other starts before the place it moves to.     *)
(***************************************************************************)
\* g is the function that WordPositions reads the starts of words off.
Starts(s, g) ==
  g = [p \in 1 .. Len(s) |-> p = 1 \/ \E q \in 1 .. p - 1 : After(s, q) = p /\ g[q]]

\* A word starts at the first lexeme, and where the word before ends, and nowhere else.
LEMMA WordFacts ==
  ASSUME NEW s, Len(s) \in Nat
  PROVE  /\ WordPositions(s) \subseteq 1 .. Len(s)
         /\ \A p \in 1 .. Len(s) :
              p \in WordPositions(s)
                <=> p = 1 \/ \E q \in WordPositions(s) : q < p /\ After(s, q) = p
<1> DEFINE Closed(C) == \A p \in 1 .. Len(s) :
                          (p = 1 \/ \E q \in 1 .. p - 1 : After(s, q) = p /\ q \in C) => p \in C
           W == {p \in 1 .. Len(s) : \A C \in SUBSET (1 .. Len(s)) : Closed(C) => p \in C}
           Reached(p) == p = 1 \/ \E q \in 1 .. p - 1 : After(s, q) = p /\ q \in W
<1>1. \A p \in 1 .. Len(s) : Reached(p) => p \in W
  <2> SUFFICES ASSUME NEW p \in 1 .. Len(s), Reached(p),
                      NEW C \in SUBSET (1 .. Len(s)), Closed(C)
               PROVE  p \in C
    OBVIOUS
  <2>1. CASE p = 1
    BY <2>1
  <2>2. CASE \E q \in 1 .. p - 1 : After(s, q) = p /\ q \in W
    <3>1. PICK q \in 1 .. p - 1 : After(s, q) = p /\ q \in W
      BY <2>2
    <3>2. q \in C
      BY <3>1
    <3> QED BY <3>1, <3>2
  <2> QED BY <2>1, <2>2
<1>2. \A p \in W : Reached(p)
  <2> DEFINE C == {p \in 1 .. Len(s) : Reached(p)}
  <2>1. Closed(C)
    <3> SUFFICES ASSUME NEW p \in 1 .. Len(s),
                        p = 1 \/ \E q \in 1 .. p - 1 : After(s, q) = p /\ q \in C
                 PROVE  Reached(p)
      OBVIOUS
    <3>1. \A q \in C : q \in W
      <4> HIDE DEF W
      <4> QED BY <1>1
    <3> HIDE DEF W, C
    <3> QED BY <3>1
  <2>2. C \in SUBSET (1 .. Len(s))
    OBVIOUS
  <2>3. \A p \in W : p \in C
    <3> HIDE DEF C, Closed
    <3> QED BY <2>1, <2>2
  <2> HIDE DEF W
  <2> QED BY <2>3
<1> DEFINE g == [p \in 1 .. Len(s) |-> p \in W]
<1>3. Starts(s, g)
  <2>1. ASSUME NEW p \in 1 .. Len(s)
        PROVE  (p \in W) = (p = 1 \/ \E q \in 1 .. p - 1 : After(s, q) = p /\ g[q])
    <3>1. \A q \in 1 .. p - 1 : g[q] <=> q \in W
      <4>1. \A q \in 1 .. p - 1 : q \in 1 .. Len(s)
        OBVIOUS
      <4> HIDE DEF W
      <4> QED BY <4>1, Zenon
    <3>2. p \in W <=> Reached(p)
      <4> HIDE DEF W
      <4> QED BY <1>1, <1>2
    <3>3. (p \in W) <=> (p = 1 \/ \E q \in 1 .. p - 1 : After(s, q) = p /\ g[q])
      <4> HIDE DEF W, g
      <4> QED BY <3>1, <3>2, Zenon
    <3> HIDE DEF W, g
    <3> QED BY <3>3, SMT
  <2>2. g = [p \in 1 .. Len(s) |-> p = 1 \/ \E q \in 1 .. p - 1 : After(s, q) = p /\ g[q]]
    <3>1. g = [p \in 1 .. Len(s) |-> p \in W]
      OBVIOUS
    <3> HIDE DEF W, g
    <3> QED BY <2>1, <3>1, Zenon
  <2> HIDE DEF g
  <2> QED BY <2>2, Zenon DEF Starts
<1>4. Starts(s, CHOOSE h : Starts(s, h))
  <2> HIDE DEF g
  <2> QED BY <1>3, Zenon
<1>5. PICK h : h = CHOOSE f : Starts(s, f)
  OBVIOUS
<1>6. Starts(s, h)
  BY <1>4, <1>5, Zenon
<1>7. WordPositions(s) = {p \in 1 .. Len(s) : h[p]}
  BY <1>5, Zenon DEF WordPositions, Starts
<1>8. \A p \in 1 .. Len(s) :
        h[p] <=> p = 1 \/ \E q \in 1 .. p - 1 : After(s, q) = p /\ h[q]
  <2>1. h = [p \in 1 .. Len(s) |-> p = 1 \/ \E q \in 1 .. p - 1 : After(s, q) = p /\ h[q]]
    BY <1>6, Zenon DEF Starts
  <2> QED BY <2>1, Zenon
<1> HIDE DEF W, g
<1>9. \A p \in 1 .. Len(s) : p \in WordPositions(s) <=> h[p]
  BY <1>7, Zenon
<1>10. WordPositions(s) \subseteq 1 .. Len(s)
  BY <1>7, Zenon
<1>11. \A p \in 1 .. Len(s) : \A q : q \in 1 .. p - 1 <=> q \in 1 .. Len(s) /\ q < p
  OBVIOUS
<1>12. ASSUME NEW p \in 1 .. Len(s)
       PROVE  p \in WordPositions(s)
                <=> p = 1 \/ \E q \in WordPositions(s) : q < p /\ After(s, q) = p
  <2>1. (\E q \in 1 .. p - 1 : After(s, q) = p /\ h[q])
          <=> \E q \in WordPositions(s) : q < p /\ After(s, q) = p
    BY <1>9, <1>10, <1>11, Zenon
  <2> QED BY <1>8, <1>9, <2>1, Zenon
<1> QED BY <1>10, <1>12, Zenon

\* Where a word ends: LIT after its number, S" after the lexeme with the quote.
LEMMA AfterWord ==
  ASSUME NEW s, NEW p
  PROVE  /\ s[p].kind = "LIT" => After(s, p) = p + 2
         /\ s[p].kind = "S\"" /\ Closing(s, p + 1) # 0 => After(s, p) = Closing(s, p + 1) + 1
         /\ s[p].kind # "LIT" /\ ~(s[p].kind = "S\"" /\ Closing(s, p + 1) # 0)
              => After(s, p) = p + 1
<1>1. "LIT" # "S\""
  OBVIOUS
<1>2. CASE s[p].kind = "LIT"
  BY <1>1, <1>2 DEF After
<1>3. CASE s[p].kind = "S\"" /\ Closing(s, p + 1) # 0
  BY <1>1, <1>3 DEF After
<1>4. CASE s[p].kind # "LIT" /\ ~(s[p].kind = "S\"" /\ Closing(s, p + 1) # 0)
  BY <1>4 DEF After
<1> QED
  BY <1>2, <1>3, <1>4, Zenon

\* A word ends after where it starts.
LEMMA AfterRange ==
  ASSUME NEW s \in Sources, NEW p \in 1 .. Len(s)
  PROVE  After(s, p) \in Int /\ After(s, p) > p
<1>n. Len(s) \in Nat
  BY SourcesAssumption
<1>1. PICK closing : closing = Closing(s, p + 1)
  OBVIOUS
<1>2. closing = 0 \/ closing \in p + 1 .. Len(s)
  <2>1. p + 1 \in Nat \ {0}
    OBVIOUS
  <2> QED
    BY <1>1, <2>1, ClosingRange
<1>3. After(s, p) = p + 2 \/ After(s, p) = p + 1 \/ (closing # 0 /\ After(s, p) = closing + 1)
  BY <1>1, AfterWord, Zenon
<1>4. CASE closing # 0 /\ After(s, p) = closing + 1
  BY <1>n, <1>2, <1>4
<1>5. CASE After(s, p) = p + 2 \/ After(s, p) = p + 1
  BY <1>n, <1>5
<1> QED
  BY <1>3, <1>4, <1>5

\* No word starts inside the word at c, when all before it end by c.
LEMMA NoWordInside ==
  ASSUME NEW s \in Sources, NEW c \in WordPositions(s),
         \A p \in WordPositions(s) : p < c => After(s, p) <= c
  PROVE  \A q \in WordPositions(s) : q > c => q >= After(s, c)
<1>n. Len(s) \in Nat
  BY SourcesAssumption
<1>1. PICK P \in SUBSET (1 .. Len(s)) : P = WordPositions(s)
  BY <1>n, WordFacts
<1>2. PICK d \in Int : d = After(s, c) /\ d > c
  BY <1>1, AfterRange
<1> DEFINE T == {q \in P : q > c /\ q < d}
<1>3. SUFFICES ASSUME T # {} PROVE FALSE
  <2>1. \A q \in P : q \in Int /\ c \in Int
    BY <1>1
  <2> QED
    BY <1>1, <1>2, <1>3, <2>1
<1>4. T \subseteq Nat
  BY <1>1
<1>5. PICK q \in T : \A y \in T : q <= y
  <2> HIDE DEF T
  <2> QED
    BY <1>3, <1>4, MinOfNaturals
<1>6. q \in P /\ q \in 1 .. Len(s) /\ q > c /\ q < d /\ c \in P /\ c \in 1 .. Len(s)
  BY <1>1, <1>5
<1>7. PICK r \in P : r < q /\ After(s, r) = q
  <2>1. q # 1
    BY <1>6
  <2> QED
    BY <1>n, <1>1, <1>6, <2>1, WordFacts
<1>8. r \in Int /\ q \in Int
  BY <1>1, <1>6
<1>9. CASE r < c
  BY <1>1, <1>6, <1>7, <1>8, <1>9
<1>10. CASE r = c
  BY <1>2, <1>6, <1>7, <1>10
<1>11. CASE r > c
  <2>1. r \in T
    BY <1>2, <1>6, <1>7, <1>8, <1>11
  <2>2. q <= r
    BY <1>5, <2>1
  <2> QED
    BY <1>7, <1>8, <2>2
<1> QED
  BY <1>6, <1>8, <1>9, <1>10, <1>11

\* One more position counts when its lexeme is of the kind.
LEMMA CountOneMore ==
  ASSUME NEW s, NEW kind, NEW S, IsFiniteSet(S), NEW c, c \notin S
  PROVE  /\ Count(s, S, kind) \in Nat
         /\ Count(s, S \cup {c}, kind) = Count(s, S, kind) + (IF s[c].kind = kind THEN 1 ELSE 0)
<1> DEFINE A == {p \in S : s[p].kind = kind}
           B == {p \in S \cup {c} : s[p].kind = kind}
<1>1. IsFiniteSet(A)
  BY FS_Subset
<1>2. Cardinality(A) \in Nat
  BY <1>1, FS_CardinalityType
<1>3. ASSUME s[c].kind = kind
      PROVE  Count(s, S \cup {c}, kind) = Count(s, S, kind) + 1
  <2>1. B = A \cup {c} /\ c \notin A
    BY <1>3
  <2>3. Count(s, S \cup {c}, kind) = Cardinality(B) /\ Count(s, S, kind) = Cardinality(A)
    BY DEF Count
  <2>2. Cardinality(A \cup {c}) = Cardinality(A) + 1
    <3> HIDE DEF A
    <3> QED
      BY <1>1, <2>1, FS_AddElement
  <2> HIDE DEF A, B
  <2> QED
    BY <1>2, <1>3, <2>1, <2>2, <2>3
<1>4. ASSUME s[c].kind # kind
      PROVE  Count(s, S \cup {c}, kind) = Count(s, S, kind) /\ Count(s, S, kind) \in Nat
  <2>1. B = A
    BY <1>4
  <2>2. Count(s, S \cup {c}, kind) = Cardinality(B) /\ Count(s, S, kind) = Cardinality(A)
    BY DEF Count
  <2> HIDE DEF A, B
  <2> QED
    BY <1>2, <1>4, <2>1, <2>2
<1>5. A = {p \in S : s[p].kind = kind} /\ Count(s, S, kind) = Cardinality(A)
  BY DEF Count
<1> HIDE DEF A, B
<1> QED
  BY <1>2, <1>3, <1>4, <1>5

\* Nothing is open before the first word.
LEMMA OpenAtStart ==
  ASSUME NEW s
  PROVE  Open(s, 1, 0) = 0
<1>1. WordPositions(s) \cap (1 .. 0) = {}
  OBVIOUS
<1>2. \A kind : {p \in {} : s[p].kind = kind} = {}
  OBVIOUS
<1>3. \A kind : Count(s, {}, kind) = 0
  BY <1>2, FS_EmptySet DEF Count
<1> QED
  BY <1>1, <1>3 DEF Open

\* What the word at c does to the number of open IFs.
Opens(s, c) == (IF s[c].kind = "IF" THEN 1 ELSE 0) - (IF s[c].kind = "THEN" THEN 1 ELSE 0)

\* The IFs open after the word at c are those open before it, and its own.
LEMMA OpenAfterWord ==
  ASSUME NEW s, Len(s) \in Nat, NEW c \in WordPositions(s)
  PROVE  /\ Open(s, 1, c - 1) \in Int
         /\ Open(s, 1, c) = Open(s, 1, c - 1) + Opens(s, c)
<1>1. PICK P \in SUBSET (1 .. Len(s)) : P = WordPositions(s)
  BY WordFacts
<1>2. PICK S : S = P \cap (1 .. c - 1)
  OBVIOUS
<1>3. P \cap (1 .. c) = S \cup {c} /\ c \notin S
  BY <1>1, <1>2
<1>4. IsFiniteSet(S)
  <2>1. IsFiniteSet(1 .. Len(s))
    BY FS_Interval
  <2>2. S \subseteq 1 .. Len(s)
    BY <1>1, <1>2
  <2> QED
    BY <2>1, <2>2, FS_Subset
<1>5. PICK i \in Nat, t \in Nat : i = Count(s, S, "IF") /\ t = Count(s, S, "THEN")
  BY <1>3, <1>4, CountOneMore
<1>6. Open(s, 1, c - 1) = i - t
  BY <1>1, <1>2, <1>5 DEF Open
<1>7. Open(s, 1, c) = Count(s, S \cup {c}, "IF") - Count(s, S \cup {c}, "THEN")
  BY <1>1, <1>3 DEF Open
<1>8. /\ Count(s, S \cup {c}, "IF") = i + (IF s[c].kind = "IF" THEN 1 ELSE 0)
      /\ Count(s, S \cup {c}, "THEN") = t + (IF s[c].kind = "THEN" THEN 1 ELSE 0)
  BY <1>3, <1>4, <1>5, CountOneMore
<1> QED
  BY <1>6, <1>7, <1>8 DEF Opens

\* What WellFormed asks of one word.
GoodWord(s, p) ==
  /\ s[p].kind \in Keywords
  /\ s[p].kind = "LIT" => p < Len(s) /\ s[p + 1].kind = "number"
  /\ s[p].kind = "S\"" => Closing(s, p + 1) # 0
  /\ Open(s, 1, p) >= 0

(***************************************************************************)
(* The inductive invariant of what is accepted: the cursor stands where a  *)
(* word starts or at the end, the words before it end by there and are     *)
(* good, and there is a slot for each IF that is open.                     *)
(***************************************************************************)
CursorAt(s, c, open) ==
  /\ c \in 1 .. Len(s) + 1
  /\ c <= Len(s) => c \in WordPositions(s)
  /\ \A p \in WordPositions(s) : p < c => After(s, p) <= c /\ GoodWord(s, p)
  /\ open = Open(s, 1, c - 1)

AcceptInv ==
  /\ CompilerInv
  /\ compile_outcome = "compiling" => CursorAt(source, cursor, Len(slots))
  /\ AcceptsExactlyWellFormed

\* The end of a good word is the place of the next, or the end of the source.
LEMMA Advance ==
  ASSUME NEW s \in Sources, NEW c, NEW open, CursorAt(s, c, open), c <= Len(s),
         GoodWord(s, c), NEW d, d = After(s, c), d <= Len(s) + 1
  PROVE  CursorAt(s, d, open + Opens(s, c))
<1>n. Len(s) \in Nat
  BY SourcesAssumption
<1>1. PICK P \in SUBSET (1 .. Len(s)) : P = WordPositions(s)
  BY <1>n, WordFacts
<1>2. c \in P /\ c \in 1 .. Len(s)
  BY <1>1 DEF CursorAt
<1>3. d \in Int /\ d > c /\ d \in 1 .. Len(s) + 1
  <2>1. d \in Int /\ d > c
    BY <1>2, AfterRange
  <2> QED
    BY <1>n, <1>2, <2>1
<1>4. \A p \in P : p < c => After(s, p) <= c
  BY <1>1 DEF CursorAt
<1>5. \A q \in P : q > c => q >= d
  BY <1>1, <1>2, <1>4, NoWordInside
<1>6. d <= Len(s) => d \in P
  <2> SUFFICES ASSUME d <= Len(s) PROVE d \in P
    OBVIOUS
  <2>1. d \in 1 .. Len(s)
    BY <1>3
  <2> QED
    BY <1>n, <1>1, <1>2, <1>3, <2>1, WordFacts
<1>7. \A p \in P : p < d => p < c \/ p = c
  BY <1>1, <1>2, <1>3, <1>5
<1>8. ASSUME NEW p \in P, p < d
      PROVE  After(s, p) <= d /\ GoodWord(s, p)
  <2>1. CASE p = c
    BY <1>3, <2>1
  <2>2. CASE p < c
    <3>1. After(s, p) <= c /\ GoodWord(s, p)
      BY <1>1, <2>2 DEF CursorAt
    <3>2. After(s, p) \in Int
      BY <1>1, AfterRange
    <3> QED
      BY <1>2, <1>3, <3>1, <3>2
  <2> QED
    BY <1>7, <1>8, <2>1, <2>2
<1>9. Open(s, 1, d - 1) = Open(s, 1, c)
  <2>1. P \cap (1 .. d - 1) = P \cap (1 .. c)
    BY <1>1, <1>2, <1>3, <1>7
  <2> QED
    BY <1>1, <2>1 DEF Open
<1>10. Open(s, 1, d - 1) = open + Opens(s, c)
  BY <1>n, <1>1, <1>2, <1>9, OpenAfterWord DEF CursorAt
<1> QED
  BY <1>1, <1>3, <1>6, <1>8, <1>10 DEF CursorAt

\* A bad word makes the source ill formed.
LEMMA BadWord ==
  ASSUME NEW s \in Sources, NEW c, NEW open, CursorAt(s, c, open), c <= Len(s),
         ~GoodWord(s, c)
  PROVE  ~WellFormed(s)
  BY Zenon DEF CursorAt, GoodWord, WellFormed

\* At the end of the source, it is well formed when nothing is left open.
LEMMA AtTheEnd ==
  ASSUME NEW s \in Sources, NEW c, NEW open, CursorAt(s, c, open), c > Len(s)
  PROVE  WellFormed(s) <=> open = 0
<1>1. Len(s) \in Nat /\ c = Len(s) + 1 /\ c - 1 = Len(s)
  <2>1. Len(s) \in Nat
    BY SourcesAssumption
  <2> QED
    BY <2>1 DEF CursorAt
<1>2. \A p \in WordPositions(s) : p < c
  BY <1>1, WordFacts
<1>3. \A p \in WordPositions(s) : GoodWord(s, p)
  BY <1>2, Zenon DEF CursorAt
<1>4. open = Open(s, 1, Len(s))
  BY <1>1 DEF CursorAt
<1>5. WellFormed(s) <=> (\A p \in WordPositions(s) : GoodWord(s, p)) /\ Open(s, 1, Len(s)) = 0
  BY Zenon DEF WellFormed, GoodWord
<1> QED
  BY <1>3, <1>4, <1>5, Zenon

\* Before the first word.
THEOREM InitAcceptInv == InitCompiler => AcceptInv
<1> SUFFICES ASSUME InitCompiler PROVE AcceptInv
  OBVIOUS
<1>1. /\ source \in Sources /\ cursor = 1 /\ slots = <<>> /\ compile_outcome = "compiling"
      /\ Len(source) \in Nat
  BY SourcesAssumption DEF InitCompiler
<1>2. Len(slots) = 0 /\ Open(source, 1, 0) = 0
  BY <1>1, OpenAtStart
<1>3. 1 <= Len(source) => 1 \in WordPositions(source)
  <2> SUFFICES ASSUME 1 <= Len(source) PROVE 1 \in WordPositions(source)
    OBVIOUS
  <2>1. 1 \in 1 .. Len(source)
    BY <1>1
  <2> QED
    BY <1>1, <2>1, WordFacts
<1>4. \A p \in WordPositions(source) : ~(p < 1)
  BY <1>1, WordFacts
<1>5. CursorAt(source, 1, 0)
  BY <1>1, <1>2, <1>3, <1>4 DEF CursorAt
<1> QED
  BY <1>1, <1>2, <1>5, InitCompilerInv DEF AcceptInv, AcceptsExactlyWellFormed

\* An end that says what the source is keeps the invariant.
LEMMA EndAccepts ==
  ASSUME AcceptInv, CompilerInv', NEW why, EndWith(why),
         \/ why = "compiled" /\ WellFormed(source)
         \/ why \in {"compile-parse-error", "ValueError"} /\ ~WellFormed(source)
  PROVE  AcceptInv'
<1>1. source' = source /\ compile_outcome' = why
  BY DEF EndWith
<1>2. why # "compiling"
  OBVIOUS
<1>3. AcceptsExactlyWellFormed'
  BY <1>1 DEF AcceptsExactlyWellFormed
<1> QED
  BY <1>1, <1>2, <1>3 DEF AcceptInv

\* A good word is passed, and the slots follow it.
LEMMA WordAccepted ==
  ASSUME AcceptInv, CompilerInv', compile_outcome = "compiling", cursor <= Len(source),
         GoodWord(source, cursor), UNCHANGED <<source, compile_outcome>>,
         cursor' = After(source, cursor), cursor' <= Len(source) + 1,
         Len(slots') = Len(slots) + Opens(source, cursor)
  PROVE  AcceptInv'
<1>1. source \in Sources /\ CursorAt(source, cursor, Len(slots))
  BY DEF AcceptInv, CompilerInv
<1>2. CursorAt(source, cursor', Len(slots'))
  BY <1>1, Advance
<1>3. AcceptsExactlyWellFormed'
  BY DEF AcceptsExactlyWellFormed
<1> QED
  BY <1>2, <1>3 DEF AcceptInv

\* What is known at a token of the source.
LEMMA AtToken ==
  ASSUME AcceptInv, compile_outcome = "compiling", cursor <= Len(source)
  PROVE  /\ source \in Sources /\ Len(source) \in Nat /\ cursor \in 1 .. Len(source)
         /\ CursorAt(source, cursor, Len(slots)) /\ Len(slots) \in Nat
         /\ Open(source, 1, cursor) = Len(slots) + Opens(source, cursor)
<1>1. source \in Sources /\ slots \in Seq(Nat) /\ CursorAt(source, cursor, Len(slots))
  BY DEF AcceptInv, CompilerInv, CompilerTypeOK
<1>2. Len(source) \in Nat /\ Len(slots) \in Nat
  BY <1>1, SourcesAssumption
<1>3. cursor \in WordPositions(source)
  BY <1>1 DEF CursorAt
<1>4. cursor \in 1 .. Len(source)
  BY <1>2, <1>3, WordFacts
<1>5. Len(slots) = Open(source, 1, cursor - 1)
  BY <1>1 DEF CursorAt
<1>6. Open(source, 1, cursor) = Len(slots) + Opens(source, cursor)
  BY <1>2, <1>3, <1>5, OpenAfterWord
<1> QED
  BY <1>1, <1>2, <1>4, <1>6

\* + and EXIT.
LEMMA PlainAccepted ==
  ASSUME AcceptInv, CompilerInv', compile_plus \/ compile_exit
  PROVE  AcceptInv'
<1>1. /\ compile_outcome = "compiling" /\ cursor <= Len(source)
      /\ source[cursor].kind \in {"+", "EXIT"}
      /\ cursor' = cursor + 1 /\ UNCHANGED <<source, slots, compile_outcome>>
  BY DEF compile_plus, compile_exit, Token, Emit
<1>2. Opens(source, cursor) = 0
  BY <1>1 DEF Opens
<1>3. GoodWord(source, cursor)
  <2>1. Open(source, 1, cursor) >= 0
    BY <1>1, <1>2, AtToken
  <2>2. source[cursor].kind # "LIT" /\ source[cursor].kind # "S\""
    BY <1>1
  <2>3. source[cursor].kind \in Keywords
    BY <1>1 DEF Keywords
  <2> QED
    BY <2>1, <2>2, <2>3 DEF GoodWord
<1>4. After(source, cursor) = cursor + 1
  BY <1>1, AfterWord
<1>5. cursor' <= Len(source) + 1 /\ Len(slots') = Len(slots) + Opens(source, cursor)
  BY <1>1, <1>2, AtToken
<1> QED
  BY <1>1, <1>3, <1>4, <1>5, WordAccepted

\* LIT.
LEMMA LitAccepted ==
  ASSUME AcceptInv, CompilerInv', compile_lit
  PROVE  AcceptInv'
<1>1. /\ compile_outcome = "compiling" /\ cursor <= Len(source) /\ source[cursor].kind = "LIT"
  BY DEF compile_lit, Token
<1>2. Len(source) \in Nat /\ cursor \in 1 .. Len(source) /\ Len(slots) \in Nat
  BY <1>1, AtToken
<1>3. CASE cursor = Len(source) \/ source[cursor + 1].kind # "number"
  <2>1. ~GoodWord(source, cursor)
    BY <1>1, <1>2, <1>3 DEF GoodWord
  <2>2. ~WellFormed(source)
    BY <1>1, <2>1, AtToken, BadWord
  <2>3. EndWith("compile-parse-error") \/ EndWith("ValueError")
    BY <1>3 DEF compile_lit
  <2> QED
    BY <2>2, <2>3, EndAccepts
<1>4. CASE ~(cursor = Len(source) \/ source[cursor + 1].kind # "number")
  <2>1. cursor' = cursor + 2 /\ UNCHANGED <<source, slots, compile_outcome>>
    BY <1>4 DEF compile_lit, Emit
  <2>2. Opens(source, cursor) = 0
    BY <1>1 DEF Opens
  <2>3. GoodWord(source, cursor)
    <3>1. Open(source, 1, cursor) >= 0
      BY <1>1, <1>2, <2>2, AtToken
    <3>2. source[cursor].kind \in Keywords /\ source[cursor].kind # "S\""
      BY <1>1 DEF Keywords
    <3>3. cursor < Len(source) /\ source[cursor + 1].kind = "number"
      BY <1>2, <1>4
    <3> QED
      BY <3>1, <3>2, <3>3 DEF GoodWord
  <2>4. After(source, cursor) = cursor + 2
    BY <1>1, AfterWord
  <2>5. cursor' <= Len(source) + 1 /\ Len(slots') = Len(slots) + Opens(source, cursor)
    BY <1>2, <1>4, <2>1, <2>2
  <2> QED
    BY <1>1, <2>1, <2>3, <2>4, <2>5, WordAccepted
<1> QED
  BY <1>3, <1>4

\* S".
LEMMA QuoteAccepted ==
  ASSUME AcceptInv, CompilerInv', handle_s_quote
  PROVE  AcceptInv'
<1>1. /\ compile_outcome = "compiling" /\ cursor <= Len(source) /\ source[cursor].kind = "S\""
  BY DEF handle_s_quote, Token
<1>2. /\ source \in Sources /\ Len(source) \in Nat /\ cursor \in 1 .. Len(source)
      /\ Len(slots) \in Nat
  BY <1>1, AtToken
<1>3. PICK closing : closing = Closing(source, cursor + 1)
  OBVIOUS
<1>4. closing = 0 \/ closing \in cursor + 1 .. Len(source)
  <2>1. cursor + 1 \in Nat \ {0}
    BY <1>2
  <2> QED
    BY <1>2, <1>3, <2>1, ClosingRange
<1>5. CASE closing = 0
  <2>1. ~GoodWord(source, cursor)
    BY <1>1, <1>3, <1>5 DEF GoodWord
  <2>2. ~WellFormed(source)
    BY <1>1, <2>1, AtToken, BadWord
  <2>3. EndWith("compile-parse-error")
    BY <1>3, <1>5 DEF handle_s_quote
  <2> QED
    BY <2>2, <2>3, EndAccepts
<1>6. CASE closing # 0
  <2>1. cursor' = closing + 1 /\ UNCHANGED <<source, slots, compile_outcome>>
    BY <1>3, <1>6 DEF handle_s_quote, Emit
  <2>2. Opens(source, cursor) = 0
    <3>1. "S\"" # "IF" /\ "S\"" # "THEN"
      OBVIOUS
    <3>2. source[cursor].kind # "IF" /\ source[cursor].kind # "THEN"
      BY <1>1, <3>1, Zenon
    <3> QED
      BY <3>2 DEF Opens
  <2>3. GoodWord(source, cursor)
    <3>1. Open(source, 1, cursor) >= 0
      <4>1. Open(source, 1, cursor) = Len(slots) + Opens(source, cursor)
        BY <1>1, AtToken, Zenon
      <4> QED
        BY <1>2, <2>2, <4>1
    <3>2. source[cursor].kind \in Keywords /\ source[cursor].kind # "LIT"
      BY <1>1 DEF Keywords
    <3> QED
      BY <1>3, <1>6, <3>1, <3>2 DEF GoodWord
  <2>4. After(source, cursor) = closing + 1
    BY <1>1, <1>3, <1>6, AfterWord
  <2>5. cursor' <= Len(source) + 1 /\ Len(slots') = Len(slots) + Opens(source, cursor)
    BY <1>2, <1>4, <1>6, <2>1, <2>2
  <2> QED
    BY <1>1, <2>1, <2>3, <2>4, <2>5, WordAccepted
<1> QED
  BY <1>5, <1>6

\* IF.
LEMMA IfAccepted ==
  ASSUME AcceptInv, CompilerInv', handle_if
  PROVE  AcceptInv'
<1>1. /\ compile_outcome = "compiling" /\ cursor <= Len(source) /\ source[cursor].kind = "IF"
      /\ cursor' = cursor + 1 /\ slots' = Append(slots, Len(emitted) + 1)
      /\ UNCHANGED <<source, compile_outcome>>
  BY DEF handle_if, Token, Emit
<1>2. /\ Len(source) \in Nat /\ cursor \in 1 .. Len(source) /\ Len(slots) \in Nat
  BY <1>1, AtToken
<1>3. Opens(source, cursor) = 1
  BY <1>1 DEF Opens
<1>4. GoodWord(source, cursor)
  <2>1. Open(source, 1, cursor) >= 0
    BY <1>1, <1>2, <1>3, AtToken
  <2>2. source[cursor].kind \in Keywords /\ source[cursor].kind # "LIT" /\ source[cursor].kind # "S\""
    BY <1>1 DEF Keywords
  <2> QED
    BY <2>1, <2>2 DEF GoodWord
<1>5. After(source, cursor) = cursor + 1
  <2>1. source[cursor].kind # "LIT" /\ source[cursor].kind # "S\""
    BY <1>1
  <2> QED
    BY <2>1, AfterWord
<1>6. Len(slots') = Len(slots) + 1
  <2>1. slots \in Seq(Nat) /\ Len(emitted) + 1 \in Nat
    BY DEF AcceptInv, CompilerInv, CompilerTypeOK
  <2> QED
    BY <1>1, <2>1
<1>7. cursor' <= Len(source) + 1
  BY <1>1, <1>2
<1> QED
  BY <1>1, <1>3, <1>4, <1>5, <1>6, <1>7, WordAccepted

\* THEN.
LEMMA ThenAccepted ==
  ASSUME AcceptInv, CompilerInv', handle_then
  PROVE  AcceptInv'
<1>1. /\ compile_outcome = "compiling" /\ cursor <= Len(source) /\ source[cursor].kind = "THEN"
  BY DEF handle_then, Token
<1>2. /\ Len(source) \in Nat /\ cursor \in 1 .. Len(source) /\ Len(slots) \in Nat
      /\ slots \in Seq(Nat)
  BY <1>1, AtToken DEF AcceptInv, CompilerInv, CompilerTypeOK
<1>3. Opens(source, cursor) = -1
  BY <1>1 DEF Opens
<1>4. Open(source, 1, cursor) = Len(slots) - 1
  BY <1>1, <1>2, <1>3, AtToken
<1>5. CASE slots = <<>>
  <2>1. ~(Open(source, 1, cursor) >= 0)
    BY <1>2, <1>4, <1>5
  <2>2. ~GoodWord(source, cursor)
    BY <2>1 DEF GoodWord
  <2>3. ~WellFormed(source)
    BY <1>1, <2>2, AtToken, BadWord
  <2>4. EndWith("compile-parse-error")
    BY <1>5 DEF handle_then
  <2> QED
    BY <2>3, <2>4, EndAccepts
<1>6. CASE slots # <<>>
  <2>1. cursor' = cursor + 1 /\ slots' = Front(slots) /\ UNCHANGED <<source, compile_outcome>>
    BY <1>6 DEF handle_then, Patch
  <2>2. PICK n \in Nat : Len(slots) = n + 1
    <3>1. Len(slots) - 1 \in Nat /\ Len(slots) = Len(slots) - 1 + 1
      BY <1>2, <1>6
    <3> QED
      BY <3>1
  <2>3. Len(slots') = n
    <3>1. slots' = SubSeq(slots, 1, n)
      <4>1. Len(slots) - 1 = n
        BY <2>2
      <4> QED
        BY <2>1, <4>1 DEF Front
    <3> QED
      BY <1>2, <2>2, <3>1
  <2>4. GoodWord(source, cursor)
    <3>1. Open(source, 1, cursor) >= 0
      BY <1>4, <2>2
    <3>2. source[cursor].kind \in Keywords /\ source[cursor].kind # "LIT"
            /\ source[cursor].kind # "S\""
      BY <1>1 DEF Keywords
    <3> QED
      BY <3>1, <3>2 DEF GoodWord
  <2>5. After(source, cursor) = cursor + 1
    <3>1. source[cursor].kind # "LIT" /\ source[cursor].kind # "S\""
      BY <1>1
    <3> QED
      BY <3>1, AfterWord
  <2>6. cursor' <= Len(source) + 1 /\ Len(slots') = Len(slots) + Opens(source, cursor)
    BY <1>2, <1>3, <2>1, <2>2, <2>3
  <2> QED
    BY <1>1, <2>1, <2>4, <2>5, <2>6, WordAccepted
<1> QED
  BY <1>5, <1>6

\* An unknown token, and the end of the source.
LEMMA EndsAccepted ==
  ASSUME AcceptInv, CompilerInv', unknown_token \/ finish
  PROVE  AcceptInv'
<1>1. CASE unknown_token
  <2>1. /\ compile_outcome = "compiling" /\ cursor <= Len(source)
        /\ source[cursor].kind \notin Keywords /\ EndWith("compile-parse-error")
    BY <1>1 DEF unknown_token
  <2>2. ~GoodWord(source, cursor)
    BY <2>1 DEF GoodWord
  <2>3. ~WellFormed(source)
    BY <2>1, <2>2, AtToken, BadWord
  <2> QED
    BY <2>1, <2>3, EndAccepts
<1>2. CASE finish
  <2>1. /\ compile_outcome = "compiling" /\ cursor > Len(source)
        /\ EndWith(IF slots = <<>> THEN "compiled" ELSE "compile-parse-error")
    BY <1>2 DEF finish
  <2>2. source \in Sources /\ CursorAt(source, cursor, Len(slots)) /\ slots \in Seq(Nat)
    BY <2>1 DEF AcceptInv, CompilerInv, CompilerTypeOK
  <2>3. WellFormed(source) <=> Len(slots) = 0
    BY <2>1, <2>2, AtTheEnd
  <2>4. Len(slots) = 0 <=> slots = <<>>
    BY <2>2
  <2>5. CASE slots = <<>>
    BY <2>1, <2>3, <2>4, <2>5, EndAccepts
  <2>6. CASE slots # <<>>
    BY <2>1, <2>3, <2>4, <2>6, EndAccepts
  <2> QED
    BY <2>5, <2>6
<1> QED
  BY <1>1, <1>2

\* Every word of the source, and its end, keeps the invariant.
THEOREM NextAcceptInv == AcceptInv /\ [compile_source_to_thread]_compiler_vars => AcceptInv'
<1> SUFFICES ASSUME AcceptInv, [compile_source_to_thread]_compiler_vars PROVE AcceptInv'
  OBVIOUS
<1>1. CompilerInv'
  BY NextCompilerInv DEF AcceptInv
<1>2. CASE UNCHANGED compiler_vars
  BY <1>1, <1>2 DEF compiler_vars, AcceptInv, AcceptsExactlyWellFormed
<1> QED
  BY <1>1, <1>2, PlainAccepted, LitAccepted, QuoteAccepted, IfAccepted, ThenAccepted, EndsAccepted
     DEF compile_source_to_thread

\* A source of any length and nesting is compiled when it is well formed, and
\* rejected when it is not.
THEOREM AcceptsCorrect == CompilerSpec => []AcceptsExactlyWellFormed
<1>1. AcceptInv => AcceptsExactlyWellFormed
  BY DEF AcceptInv
<1> QED
  BY <1>1, InitAcceptInv, NextAcceptInv, PTL DEF CompilerSpec

\* What is compiled and run is compiled like any source: the composition's
\* steps are steps of the compiler, or leave it alone.
THEOREM SpecCompiles == Spec => CompilerSpec
<1>1. Init => InitCompiler
  BY DEF Init
<1>2. [Next]_vars => [compile_source_to_thread]_compiler_vars
  BY DEF Next, vars, Compile, Start, Step
<1> QED
  BY <1>1, <1>2, PTL DEF Spec, CompilerSpec

-----------------------------------------------------------------------------
(***************************************************************************)
(* The layout of a thread.  B is the set of places where a word's cells    *)
(* start, and where the last one's end; open are the operands whose IF     *)
(* still waits for its THEN.                                               *)
(***************************************************************************)
WordCells(cells, open, B, k, n) ==
  \/ /\ cells[k + 1] = LIT
     /\ n = k + 2
  \/ /\ cells[k + 1] \in {ADD, EXIT}
     /\ n = k + 1
  \/ /\ cells[k + 1] = LITSTRING
     /\ cells[k + 2] \in Nat
     /\ n = k + 2 + litstring_payload_cells(cells[k + 2])
     /\ \A j \in k + 3 .. n : Representable(cells[j])
  \/ /\ cells[k + 1] = ZBRANCH
     /\ n = k + 2
     /\ \/ k + 1 \in open
        \/ cells[k + 2] \in Nat /\ n + cells[k + 2] \in B

Layout(cells, open, B) ==
  /\ 0 \in B /\ Len(cells) \in B /\ B \subseteq 0 .. Len(cells)
  /\ \A k \in B : k < Len(cells) =>
       \E n \in B : /\ k < n
                    /\ \A j \in B : j <= k \/ n <= j
                    /\ WordCells(cells, open, B, k, n)
  /\ \A operand \in open : operand - 1 \in B

\* A payload of a counted length takes a number of cells.
LEMMA PayloadCellsType ==
  ASSUME NEW length \in Nat
  PROVE  litstring_payload_cells(length) \in Nat
  BY DEF litstring_payload_cells

\* A word whose cells are left alone is still that word.
LEMMA WordCellsKept ==
  ASSUME NEW cells, NEW open, NEW B, NEW k \in Int, NEW n \in Int, k < n,
         WordCells(cells, open, B, k, n),
         NEW others, \A j \in k + 1 .. n : others[j] = cells[j],
         NEW opened, k + 1 \in open => k + 1 \in opened,
         NEW C, B \subseteq C
  PROVE  WordCells(others, opened, C, k, n)
<1>1. others[k + 1] = cells[k + 1]
  OBVIOUS
<1>2. CASE cells[k + 1] = LIT /\ n = k + 2
  BY <1>1, <1>2 DEF WordCells
<1>3. CASE cells[k + 1] \in {ADD, EXIT} /\ n = k + 1
  BY <1>1, <1>3 DEF WordCells
<1>4. CASE /\ cells[k + 1] = LITSTRING
           /\ cells[k + 2] \in Nat
           /\ n = k + 2 + litstring_payload_cells(cells[k + 2])
           /\ \A j \in k + 3 .. n : Representable(cells[j])
  <2>1. n >= k + 2
    BY <1>4, PayloadCellsType
  <2>2. others[k + 2] = cells[k + 2]
    BY <2>1
  <2>3. \A j \in k + 3 .. n : others[j] = cells[j]
    OBVIOUS
  <2>4. \A j \in k + 3 .. n : Representable(others[j])
    BY <1>4, <2>3, Zenon
  <2> QED
    BY <1>1, <1>4, <2>2, <2>4, Zenon DEF WordCells
<1>5. CASE /\ cells[k + 1] = ZBRANCH
           /\ n = k + 2
           /\ \/ k + 1 \in open
              \/ cells[k + 2] \in Nat /\ n + cells[k + 2] \in B
  <2>1. others[k + 2] = cells[k + 2]
    BY <1>5
  <2> QED
    BY <1>1, <1>5, <2>1, Zenon DEF WordCells
<1> QED
  BY <1>2, <1>3, <1>4, <1>5, Zenon DEF WordCells

\* A thread keeps its layout when a word's cells are added at its end.
LEMMA EmitLayout ==
  ASSUME NEW cells \in Seq(Int), NEW open, NEW B, Layout(cells, open, B),
         NEW more \in Seq(Int), Len(more) > 0,
         NEW opened, open \subseteq opened, opened \subseteq open \cup {Len(cells) + 1},
         NEW grown, grown = cells \o more,
         NEW C, C = B \cup {Len(grown)},
         WordCells(grown, opened, C, Len(cells), Len(grown))
  PROVE  Layout(grown, opened, C)
<1>1. /\ Len(cells) \in Nat /\ Len(grown) \in Nat /\ Len(cells) < Len(grown)
      /\ \A j \in 1 .. Len(cells) : grown[j] = cells[j]
  OBVIOUS
<1>2. /\ 0 \in B /\ Len(cells) \in B /\ B \subseteq 0 .. Len(cells)
      /\ \A operand \in open : operand - 1 \in B
  BY DEF Layout
<1>3. C \subseteq 0 .. Len(grown)
  <2>1. PICK a \in Nat, b \in Nat : a = Len(cells) /\ b = Len(grown) /\ a < b
    BY <1>1
  <2>2. B \subseteq 0 .. a /\ C = B \cup {b}
    BY <1>2, <2>1
  <2>3. ASSUME NEW x \in C PROVE x \in 0 .. b
    <3>1. x \in 0 .. a \/ x = b
      BY <2>2
    <3> QED
      BY <2>1, <3>1
  <2> QED
    BY <2>1, <2>3
<1>4. ASSUME NEW k \in C, k < Len(grown)
      PROVE  \E n \in C : /\ k < n
                          /\ \A j \in C : j <= k \/ n <= j
                          /\ WordCells(grown, opened, C, k, n)
  <2>1. k \in B /\ k \in 0 .. Len(cells)
    BY <1>1, <1>2, <1>4
  <2>2. CASE k < Len(cells)
    <3>1. PICK n \in B : /\ k < n
                         /\ \A j \in B : j <= k \/ n <= j
                         /\ WordCells(cells, open, B, k, n)
      BY <2>1, <2>2 DEF Layout
    <3>2. n \in C /\ n \in 0 .. Len(cells) /\ n <= Len(grown)
      BY <1>1, <1>2
    <3>3. \A j \in C : j <= k \/ n <= j
      BY <3>1, <3>2
    <3>4. \A j \in k + 1 .. n : grown[j] = cells[j]
      <4>1. PICK a \in Nat : a = Len(cells)
        BY <1>1
      <4>2. k \in 0 .. a /\ n \in 0 .. a
        BY <2>1, <3>2, <4>1
      <4>3. \A j \in k + 1 .. n : j \in 1 .. a
        BY <4>2
      <4> QED
        BY <1>1, <4>1, <4>3, Zenon
    <3>5. k \in Int /\ n \in Int /\ (k + 1 \in open => k + 1 \in opened) /\ B \subseteq C
      BY <2>1, <3>2
    <3>6. WordCells(grown, opened, C, k, n)
      <4>1. k < n /\ WordCells(cells, open, B, k, n) /\ k \in Int /\ n \in Int
        BY <3>1, <3>5
      <4> QED
        BY ONLY <3>4, <3>5, <4>1, WordCellsKept
    <3> QED
      BY <3>1, <3>2, <3>3, <3>6
  <2>3. CASE k = Len(cells)
    <3>1. \A j \in C : j <= k \/ Len(grown) <= j
      BY <1>1, <1>2, <2>3
    <3>2. Len(grown) \in C
      OBVIOUS
    <3> QED
      BY <1>4, <2>3, <3>1, <3>2
  <2>4. k < Len(cells) \/ k = Len(cells)
    BY <1>1, <2>1
  <2> QED
    BY <2>2, <2>3, <2>4, Zenon
<1>5. \A operand \in opened : operand - 1 \in C
  BY <1>1, <1>2
<1> QED
  BY <1>2, <1>3, <1>4, <1>5 DEF Layout

\* The cells of a 0BRANCH are two.
LEMMA BranchCells ==
  ASSUME NEW cells, NEW open, NEW B, NEW k, NEW n, WordCells(cells, open, B, k, n),
         cells[k + 1] = ZBRANCH
  PROVE  n = k + 2
  BY DEF WordCells, LIT, ADD, EXIT, LITSTRING, ZBRANCH

\* Patching an open operand with the way to the end keeps the layout, and
\* the operand is open no more.
LEMMA PatchLayout ==
  ASSUME NEW cells \in Seq(Int), NEW open, NEW B, Layout(cells, open, B),
         NEW operand \in open, operand \in 1 .. Len(cells) - 1, cells[operand] = ZBRANCH,
         NEW patched, Len(patched) = Len(cells),
         \A j \in 1 .. Len(cells) : j # operand + 1 => patched[j] = cells[j],
         patched[operand + 1] = Len(cells) - operand - 1
  PROVE  Layout(patched, open \ {operand}, B)
<1>1. /\ 0 \in B /\ Len(cells) \in B /\ B \subseteq 0 .. Len(cells) /\ Len(cells) \in Nat
      /\ \A x \in open : x - 1 \in B
  BY DEF Layout
<1>2. PICK k0 \in B : k0 = operand - 1 /\ k0 < Len(cells)
  BY <1>1
<1>3. PICK n0 \in B : /\ k0 < n0
                      /\ \A j \in B : j <= k0 \/ n0 <= j
                      /\ WordCells(cells, open, B, k0, n0)
  BY <1>2 DEF Layout
<1>4. k0 \in Int /\ k0 + 1 = operand /\ k0 + 2 = operand + 1
  BY <1>1, <1>2
<1>5. n0 = k0 + 2
  <2>1. cells[k0 + 1] = ZBRANCH
    BY <1>4
  <2>2. WordCells(cells, open, B, k0, n0)
    BY <1>3
  <2> QED
    BY <2>1, <2>2, BranchCells
<1>6. ASSUME NEW k \in B, k < Len(cells)
      PROVE  \E n \in B : /\ k < n
                          /\ \A j \in B : j <= k \/ n <= j
                          /\ WordCells(patched, open \ {operand}, B, k, n)
  <2>1. CASE k = k0
    <3>1. patched[k0 + 1] = ZBRANCH
      BY <1>4
    <3>2. patched[k0 + 2] \in Nat /\ n0 + patched[k0 + 2] = Len(cells)
      <4>1. PICK length \in Nat : length = Len(cells)
        BY <1>1
      <4>2. patched[k0 + 2] = length - operand - 1 /\ operand \in 1 .. length - 1
        BY <1>4, <4>1
      <4>3. n0 = operand + 1
        BY <1>4, <1>5
      <4>4. length - operand - 1 \in Nat /\ operand + 1 + (length - operand - 1) = length
        BY <4>1, <4>2
      <4> QED
        BY <4>1, <4>2, <4>3, <4>4
    <3>3. WordCells(patched, open \ {operand}, B, k0, n0)
      BY <1>1, <1>5, <3>1, <3>2 DEF WordCells
    <3> QED
      BY <1>3, <2>1, <3>3
  <2>2. CASE k # k0
    <3>1. PICK n \in B : /\ k < n
                         /\ \A j \in B : j <= k \/ n <= j
                         /\ WordCells(cells, open, B, k, n)
      BY <1>6 DEF Layout
    <3>2. k \in 0 .. Len(cells) /\ n \in 0 .. Len(cells)
      BY <1>1
    <3>3. n <= k0 \/ k0 + 2 <= k
      BY <1>3, <1>4, <1>5, <2>2, <3>1, <3>2
    <3>4. ASSUME NEW j \in k + 1 .. n
          PROVE  patched[j] = cells[j]
      <4>1. PICK a \in Nat : a = Len(cells)
        BY <1>1
      <4>2. k \in 0 .. a /\ n \in 0 .. a /\ k0 \in Int /\ operand + 1 = k0 + 2
        BY <1>4, <3>2, <4>1
      <4>3. j \in 1 .. a /\ j # k0 + 2
        BY <4>2, <3>3
      <4>4. j \in 1 .. Len(cells) /\ j # operand + 1
        BY <4>1, <4>2, <4>3
      <4> QED
        BY <4>4
    <3>5. k \in Int /\ n \in Int /\ (k + 1 \in open => k + 1 \in open \ {operand})
      BY <1>4, <2>2, <3>2
    <3>6. WordCells(patched, open \ {operand}, B, k, n)
      <4>1. k < n /\ WordCells(cells, open, B, k, n) /\ k \in Int /\ n \in Int
        BY <3>1, <3>5
      <4> QED
        BY <3>4, <3>5, <4>1, WordCellsKept
    <3> QED
      BY <3>1, <3>6
  <2> QED
    BY <2>1, <2>2
<1> QED
  BY <1>1, <1>6 DEF Layout

\* The words before the one after c are those before c, and c.
LEMMA WordsBefore ==
  ASSUME NEW s \in Sources, NEW c, NEW open, CursorAt(s, c, open), c <= Len(s)
  PROVE  /\ c \in WordPositions(s) /\ c \in 1 .. Len(s)
         /\ After(s, c) \in Int /\ After(s, c) > c
         /\ \A p \in WordPositions(s) : p < After(s, c) <=> p < c \/ p = c
<1>n. Len(s) \in Nat
  BY SourcesAssumption
<1>1. PICK P \in SUBSET (1 .. Len(s)) : P = WordPositions(s)
  BY <1>n, WordFacts
<1>2. c \in P /\ c \in 1 .. Len(s)
  BY <1>1 DEF CursorAt
<1>3. PICK d \in Int : d = After(s, c) /\ d > c
  BY <1>2, AfterRange
<1>4. \A p \in P : p < c => After(s, p) <= c
  BY <1>1 DEF CursorAt
<1>5. \A q \in P : q > c => q >= d
  BY <1>1, <1>2, <1>3, <1>4, NoWordInside
<1>6. \A p \in P : p < d <=> p < c \/ p = c
  BY <1>1, <1>2, <1>3, <1>5
<1> QED
  BY <1>1, <1>2, <1>3, <1>6

\* A good word has a number of cells.
LEMMA CellsType ==
  ASSUME NEW s \in Sources, NEW p \in 1 .. Len(s), GoodWord(s, p)
  PROVE  Cells(s, p) \in Nat
<1>1. CASE s[p].kind \in {"LIT", "IF"}
  BY <1>1 DEF Cells
<1>2. CASE s[p].kind = "S\""
  <2>1. PICK closing : closing = Closing(s, p + 1)
    OBVIOUS
  <2>2. closing # 0
    BY <1>2, <2>1 DEF GoodWord
  <2>3. p + 1 \in Nat \ {0} /\ Len(s) \in Nat
    BY SourcesAssumption
  <2>4. closing \in p + 1 .. Len(s)
    BY <2>1, <2>2, <2>3, ClosingRange
  <2>5. PICK text \in Seq(0 .. ByteValues - 1) : text = Text(s, p + 1, closing)
    <3>1. p + 1 \in 1 .. Len(s) /\ closing \in 1 .. Len(s) /\ p + 1 <= closing
      BY <2>3, <2>4
    <3> QED
      BY <3>1, SourcesAssumption
  <2>6. Len(text) \in Nat
    OBVIOUS
  <2>7. 2 + litstring_payload_cells(Len(text)) \in Nat
    <3>1. litstring_payload_cells(Len(text)) \in Nat
      BY <2>6, PayloadCellsType
    <3> QED
      BY <3>1
  <2>8. s[p].kind \notin {"LIT", "IF"}
    <3>1. "S\"" # "LIT" /\ "S\"" # "IF"
      OBVIOUS
    <3> QED
      BY <1>2, <3>1, Zenon
  <2>9. Cells(s, p) = 2 + litstring_payload_cells(Len(text))
    BY <1>2, <2>1, <2>5, <2>8, Zenon DEF Cells
  <2> QED
    BY <2>7, <2>9
<1>3. CASE s[p].kind \notin {"LIT", "IF", "S\""}
  BY <1>3 DEF Cells
<1> QED
  BY <1>1, <1>2, <1>3, Zenon

\* The cells before the next word are those before this one, and its own.
LEMMA CellsAdvance ==
  ASSUME NEW s \in Sources, NEW c, NEW open, CursorAt(s, c, open), c <= Len(s),
         GoodWord(s, c), NEW d, d = After(s, c), IsFiniteSet(CellsUpTo(s, c))
  PROVE  /\ IsFiniteSet(CellsUpTo(s, d))
         /\ CellsBefore(s, c) \in Nat /\ Cells(s, c) \in Nat
         /\ CellsBefore(s, d) = CellsBefore(s, c) + Cells(s, c)
<1> DEFINE own == {c} \X (1 .. Cells(s, c))
           before == CellsUpTo(s, c)
<1>1. PICK n \in Nat : n = Cells(s, c)
  BY WordsBefore, CellsType
<1>2. IsFiniteSet(own) /\ Cardinality(own) = n
  <2>1. IsFiniteSet({c}) /\ Cardinality({c}) = 1
    BY FS_Singleton
  <2>2. IsFiniteSet(1 .. n) /\ Cardinality(1 .. n) = n
    BY FS_Interval
  <2>3. IsFiniteSet({c} \X (1 .. n)) /\ Cardinality({c} \X (1 .. n)) = 1 * n
    BY <2>1, <2>2, FS_Product
  <2> QED
    BY <1>1, <2>3
<1>3. {w \in WordPositions(s) : w < d} = {w \in WordPositions(s) : w < c} \cup {c}
  BY WordsBefore
<1>4. CellsUpTo(s, d) = before \cup own
  <2> DEFINE V == {w \in WordPositions(s) : w < c}
  <2>1. CellsUpTo(s, d) = UNION {{p} \X (1 .. Cells(s, p)) : p \in V \cup {c}}
    BY <1>3, Zenon DEF CellsUpTo
  <2>2. before = UNION {{p} \X (1 .. Cells(s, p)) : p \in V}
    BY Zenon DEF CellsUpTo
  <2> HIDE DEF V, before
  <2>3. (UNION {{p} \X (1 .. Cells(s, p)) : p \in V \cup {c}})
          = (UNION {{p} \X (1 .. Cells(s, p)) : p \in V}) \cup own
    OBVIOUS
  <2> QED
    BY <2>1, <2>2, <2>3, Zenon
<1>5. before \cap own = {}
  <2> SUFFICES ASSUME NEW x \in before, x \in own PROVE FALSE
    OBVIOUS
  <2>1. PICK p \in {w \in WordPositions(s) : w < c} : x \in {p} \X (1 .. Cells(s, p))
    BY Zenon DEF CellsUpTo
  <2>2. x[1] = p /\ x[1] = c
    BY <2>1
  <2>3. p < c /\ c \in Int
    BY <2>1, WordsBefore
  <2> QED
    BY <2>2, <2>3
<1>6. Cardinality(before) \in Nat
  BY FS_CardinalityType
<1>10. IsFiniteSet(before)
  OBVIOUS
<1> HIDE DEF before, own
<1>7. /\ IsFiniteSet(before \cup own)
      /\ Cardinality(before \cup own) = Cardinality(before) + Cardinality(own)
  <2>1. /\ IsFiniteSet(before \cup own)
        /\ Cardinality(before \cup own)
             = Cardinality(before) + Cardinality(own) - Cardinality(before \cap own)
    BY <1>2, <1>10, FS_Union
  <2>2. Cardinality(before \cap own) = 0
    BY <1>5, FS_EmptySet
  <2> QED
    BY <1>2, <1>6, <2>1, <2>2
<1>8. CellsBefore(s, c) = Cardinality(before)
  BY DEF CellsBefore, before
<1>9. CellsBefore(s, d) = Cardinality(before \cup own)
  BY <1>4 DEF CellsBefore
<1> QED
  BY <1>1, <1>2, <1>4, <1>6, <1>7, <1>8, <1>9

\* Where the cells of the words up to c start, in the thread.
Boundaries(s, c) ==
  {CellsBefore(s, q) : q \in {p \in WordPositions(s) \cup {Len(s) + 1} : p <= c}}

\* One word further there is one boundary more.
LEMMA BoundariesAdvance ==
  ASSUME NEW s \in Sources, NEW c, NEW open, CursorAt(s, c, open), c <= Len(s),
         NEW d, d = After(s, c), d <= Len(s) + 1, NEW next, CursorAt(s, d, next)
  PROVE  Boundaries(s, d) = Boundaries(s, c) \cup {CellsBefore(s, d)}
<1>n. Len(s) \in Nat
  BY SourcesAssumption
<1>1. PICK P \in SUBSET (1 .. Len(s)) : P = WordPositions(s)
  BY <1>n, WordFacts
<1>2. c \in 1 .. Len(s) /\ d \in Int /\ d > c /\ \A p \in P : p < d <=> p < c \/ p = c
  BY <1>1, WordsBefore
<1>3. d \in P \cup {Len(s) + 1}
  BY <1>n, <1>1, <1>2 DEF CursorAt
<1> DEFINE upto(e) == {p \in P \cup {Len(s) + 1} : p <= e}
<1>4. upto(d) = upto(c) \cup {d}
  <2>1. ASSUME NEW p \in P \cup {Len(s) + 1}
        PROVE  p <= d <=> p <= c \/ p = d
    <3>1. CASE p \in P
      BY <1>1, <1>2, <3>1
    <3>2. CASE p = Len(s) + 1
      BY <1>n, <1>2, <3>2
    <3> QED
      BY <3>1, <3>2
  <2> QED
    BY <1>3, <2>1
<1>5. /\ Boundaries(s, d) = {CellsBefore(s, q) : q \in upto(d)}
      /\ Boundaries(s, c) = {CellsBefore(s, q) : q \in upto(c)}
  BY <1>1, Zenon DEF Boundaries
<1> HIDE DEF upto
<1> QED
  BY <1>4, <1>5

OpenSlots(s) == {s[i] : i \in 1 .. Len(s)}

(***************************************************************************)
(* The inductive invariant of the layout: what was emitted are the cells   *)
(* of the words before the cursor, and a compiled thread is complete.      *)
(***************************************************************************)
LayoutInv ==
  /\ AcceptInv
  /\ compile_outcome \in {"compiling", "compiled"} =>
       /\ IsFiniteSet(CellsUpTo(source, cursor))
       /\ Len(emitted) = CellsBefore(source, cursor)
       /\ Layout(emitted, OpenSlots(slots), Boundaries(source, cursor))
  /\ compile_outcome = "compiled" => slots = <<>> /\ cursor = Len(source) + 1

\* A compilation starts at the only boundary, with nothing emitted.
THEOREM InitLayoutInv == InitCompiler => LayoutInv
<1> SUFFICES ASSUME InitCompiler PROVE LayoutInv
  OBVIOUS
<1>1. AcceptInv
  BY InitAcceptInv
<1>2. /\ source \in Sources /\ cursor = 1 /\ slots = <<>> /\ emitted = <<>>
      /\ compile_outcome = "compiling" /\ Len(source) \in Nat
  BY SourcesAssumption DEF InitCompiler
<1>3. CursorAt(source, 1, Len(slots))
  BY <1>1, <1>2 DEF AcceptInv
<1>4. WordPositions(source) \subseteq 1 .. Len(source)
  BY <1>2, WordFacts
<1>5. CellsUpTo(source, 1) = {}
  <2>1. {w \in WordPositions(source) : w < 1} = {}
    BY <1>2, <1>4
  <2> QED
    BY <2>1 DEF CellsUpTo
<1>6. IsFiniteSet(CellsUpTo(source, 1)) /\ CellsBefore(source, 1) = 0
  BY <1>5, FS_EmptySet DEF CellsBefore
<1>7. Boundaries(source, 1) = {0}
  <2>1. {p \in WordPositions(source) \cup {Len(source) + 1} : p <= 1} = {1}
    <3>1. 1 \in WordPositions(source) \cup {Len(source) + 1}
      BY <1>2, <1>3 DEF CursorAt
    <3> QED
      BY <1>2, <1>4, <3>1
  <2>2. Boundaries(source, 1) = {CellsBefore(source, q) : q \in {1}}
    BY <2>1, Zenon DEF Boundaries
  <2> QED
    BY <1>6, <2>2
<1>8. Len(emitted) = 0 /\ OpenSlots(slots) = {}
  BY <1>2 DEF OpenSlots
<1>9. Layout(emitted, {}, {0})
  BY <1>8 DEF Layout
<1> QED
  BY <1>1, <1>2, <1>6, <1>7, <1>8, <1>9 DEF LayoutInv

\* What is known of the word at the cursor, once it was compiled.
LEMMA Compiled ==
  ASSUME AcceptInv, AcceptInv', compile_outcome = "compiling", compile_outcome' = "compiling",
         source' = source, cursor <= Len(source), cursor' = After(source, cursor)
  PROVE  /\ source \in Sources
         /\ CursorAt(source, cursor, Len(slots)) /\ CursorAt(source, cursor', Len(slots'))
         /\ GoodWord(source, cursor) /\ cursor' <= Len(source) + 1
         /\ cursor \in 1 .. Len(source) /\ emitted \in Seq(Int) /\ slots \in Seq(Nat)
<1>1. /\ source \in Sources /\ CursorAt(source, cursor, Len(slots))
      /\ CursorAt(source, cursor', Len(slots')) /\ emitted \in Seq(Int) /\ slots \in Seq(Nat)
  BY DEF AcceptInv, CompilerInv, CompilerTypeOK
<1>2. /\ cursor \in WordPositions(source) /\ cursor \in 1 .. Len(source) /\ cursor < cursor'
  BY <1>1, WordsBefore
<1>3. GoodWord(source, cursor)
  BY <1>1, <1>2 DEF CursorAt
<1>4. cursor' <= Len(source) + 1
  <2>1. Len(source) \in Nat
    BY <1>1, SourcesAssumption
  <2> QED
    BY <1>1, <2>1 DEF CursorAt
<1> QED
  BY <1>1, <1>2, <1>3, <1>4

\* The length of a thread with more cells at its end.
LEMMA GrownLength ==
  ASSUME NEW cells \in Seq(Int), NEW more \in Seq(Int)
  PROVE  /\ Len(cells \o more) = Len(cells) + Len(more)
         /\ Len(cells) \in Nat /\ Len(cells \o more) \in Nat
  OBVIOUS

\* A word that is no patched IF is that word whatever the boundaries are.
LEMMA NoTargets ==
  ASSUME NEW cells, NEW open, NEW k, NEW n, WordCells(cells, open, {}, k, n), NEW C
  PROVE  WordCells(cells, open, C, k, n)
  BY Zenon DEF WordCells

\* A word that emits its cells keeps the layout.
LEMMA EmitWord ==
  ASSUME LayoutInv, AcceptInv', compile_outcome = "compiling",
         UNCHANGED <<source, compile_outcome>>,
         cursor <= Len(source), cursor' = After(source, cursor),
         NEW more \in Seq(Int), emitted' = emitted \o more,
         Len(more) = Cells(source, cursor), Len(more) > 0,
         OpenSlots(slots) \subseteq OpenSlots(slots'),
         OpenSlots(slots') \subseteq OpenSlots(slots) \cup {Len(emitted) + 1},
         WordCells(emitted', OpenSlots(slots'), {}, Len(emitted), Len(emitted'))
  PROVE  LayoutInv'
<1>1. /\ IsFiniteSet(CellsUpTo(source, cursor)) /\ Len(emitted) = CellsBefore(source, cursor)
      /\ Layout(emitted, OpenSlots(slots), Boundaries(source, cursor))
  BY DEF LayoutInv
<1>2. /\ source \in Sources
      /\ CursorAt(source, cursor, Len(slots)) /\ CursorAt(source, cursor', Len(slots'))
      /\ GoodWord(source, cursor) /\ cursor' <= Len(source) + 1 /\ emitted \in Seq(Int)
  BY Compiled DEF LayoutInv
<1>3. Len(emitted') = Len(emitted) + Len(more) /\ Len(emitted) \in Nat /\ Len(emitted') \in Nat
  <2>1. PICK cells \in Seq(Int) : cells = emitted
    BY <1>2
  <2>2. /\ Len(cells \o more) = Len(cells) + Len(more)
        /\ Len(cells) \in Nat /\ Len(cells \o more) \in Nat
    BY GrownLength
  <2>3. emitted' = cells \o more
    BY <2>1
  <2> QED
    BY <2>1, <2>2, <2>3
<1>4. /\ IsFiniteSet(CellsUpTo(source, cursor'))
      /\ CellsBefore(source, cursor') = Len(emitted')
  BY <1>1, <1>2, <1>3, CellsAdvance
<1>5. PICK B : B = Boundaries(source, cursor)
  OBVIOUS
<1>6. PICK C : C = B \cup {Len(emitted')} /\ C = Boundaries(source, cursor')
  BY <1>2, <1>4, <1>5, BoundariesAdvance
<1>7. WordCells(emitted', OpenSlots(slots'), C, Len(emitted), Len(emitted'))
  BY NoTargets
<1>8. Layout(emitted', OpenSlots(slots'), C)
  BY <1>1, <1>2, <1>5, <1>6, <1>7, EmitLayout
<1>9. source' = source /\ compile_outcome' = "compiling"
  OBVIOUS
<1> QED
  BY <1>4, <1>6, <1>8, <1>9 DEF LayoutInv

\* The end of a compilation: with no slot open and nothing left, or a failure.
LEMMA EndLayout ==
  ASSUME LayoutInv, AcceptInv', NEW why, EndWith(why), compile_outcome = "compiling",
         \/ why \in {"compile-parse-error", "ValueError"}
         \/ why = "compiled" /\ slots = <<>> /\ cursor > Len(source)
  PROVE  LayoutInv'
<1>1. compile_outcome' = why /\ UNCHANGED <<source, cursor, emitted, slots>>
  BY DEF EndWith
<1>2. CASE why \in {"compile-parse-error", "ValueError"}
  BY <1>1, <1>2 DEF LayoutInv
<1>3. CASE why = "compiled" /\ slots = <<>> /\ cursor > Len(source)
  <2>1. source \in Sources /\ CursorAt(source, cursor, Len(slots))
    BY DEF LayoutInv, AcceptInv, CompilerInv
  <2>2. cursor = Len(source) + 1
    <3>1. Len(source) \in Nat
      BY <2>1, SourcesAssumption
    <3> QED
      BY <1>3, <2>1, <3>1 DEF CursorAt
  <2>3. /\ IsFiniteSet(CellsUpTo(source, cursor)) /\ Len(emitted) = CellsBefore(source, cursor)
        /\ Layout(emitted, OpenSlots(slots), Boundaries(source, cursor))
    BY DEF LayoutInv
  <2> QED
    BY <1>1, <1>3, <2>2, <2>3 DEF LayoutInv
<1> QED
  BY <1>2, <1>3

\* The last cells of a thread are those just emitted.
LEMMA GrownCells ==
  ASSUME NEW cells \in Seq(Int), NEW more \in Seq(Int), NEW j \in 1 .. Len(more)
  PROVE  (cells \o more)[Len(cells) + j] = more[j]
  OBVIOUS

\* + and EXIT take one cell.
LEMMA PlainLayout ==
  ASSUME LayoutInv, AcceptInv', compile_plus \/ compile_exit
  PROVE  LayoutInv'
<1>1. PICK word \in {ADD, EXIT} : emitted' = emitted \o <<word>>
  BY DEF compile_plus, compile_exit, Emit
<1>2. /\ compile_outcome = "compiling" /\ cursor <= Len(source)
      /\ source[cursor].kind \in {"+", "EXIT"}
      /\ cursor' = cursor + 1 /\ UNCHANGED <<source, slots, compile_outcome>>
  BY DEF compile_plus, compile_exit, Token, Emit
<1>3. After(source, cursor) = cursor + 1 /\ Cells(source, cursor) = 1
  <2>1. source[cursor].kind \notin {"LIT", "IF", "S\"", "THEN"}
    BY <1>2
  <2> QED
    BY <2>1, AfterWord DEF Cells
<1>4. <<word>> \in Seq(Int) /\ Len(<<word>>) = 1 /\ emitted \in Seq(Int)
  BY DEF ADD, EXIT, LayoutInv, AcceptInv, CompilerInv, CompilerTypeOK
<1>5. emitted'[Len(emitted) + 1] = word /\ Len(emitted') = Len(emitted) + 1
  BY <1>1, <1>4, GrownCells, GrownLength
<1>6. WordCells(emitted', OpenSlots(slots'), {}, Len(emitted), Len(emitted'))
  BY <1>5 DEF WordCells
<1>7. PICK more \in Seq(Int) : more = <<word>> /\ Len(more) = 1
  BY <1>4
<1>8. Len(more) = Cells(source, cursor) /\ Len(more) > 0 /\ emitted' = emitted \o more
  BY <1>1, <1>3, <1>7
<1>9. /\ UNCHANGED <<source, compile_outcome>> /\ cursor' = After(source, cursor)
      /\ OpenSlots(slots) \subseteq OpenSlots(slots')
      /\ OpenSlots(slots') \subseteq OpenSlots(slots) \cup {Len(emitted) + 1}
  BY <1>2, <1>3
<1> QED
  BY <1>2, <1>6, <1>8, <1>9, EmitWord

\* LIT and the number beside it take two.
LEMMA LitLayout ==
  ASSUME LayoutInv, AcceptInv', compile_lit
  PROVE  LayoutInv'
<1>1. compile_outcome = "compiling" /\ cursor <= Len(source) /\ source[cursor].kind = "LIT"
  BY DEF compile_lit, Token
<1>2. CASE cursor = Len(source) \/ source[cursor + 1].kind # "number"
  BY <1>1, <1>2, EndLayout DEF compile_lit
<1>3. CASE ~(cursor = Len(source) \/ source[cursor + 1].kind # "number")
  <2>1. /\ emitted' = emitted \o <<LIT, source[cursor + 1].value>>
        /\ cursor' = cursor + 2 /\ UNCHANGED <<source, slots, compile_outcome>>
    BY <1>3 DEF compile_lit, Emit
  <2>2. After(source, cursor) = cursor + 2 /\ Cells(source, cursor) = 2
    BY <1>1, AfterWord DEF Cells
  <2>3. /\ source \in Sources /\ GoodWord(source, cursor) /\ cursor \in 1 .. Len(source)
        /\ emitted \in Seq(Int)
    BY <1>1, <2>1, <2>2, Compiled DEF LayoutInv
  <2>4. PICK v \in Int : v = source[cursor + 1].value
    <3>1. source \in Seq([kind : STRING, value : Int, octets : Seq(0 .. ByteValues - 1)])
      BY <2>3, SourcesAssumption
    <3>2. cursor + 1 \in 1 .. Len(source)
      <4>1. Len(source) \in Nat
        BY <3>1
      <4>2. cursor \in 1 .. Len(source) /\ cursor + 1 <= Len(source)
        <5>1. source[cursor].kind = "LIT" => cursor < Len(source)
          BY <2>3, Zenon DEF GoodWord
        <5> QED
          BY <1>1, <2>3, <4>1, <5>1
      <4> QED
        BY <4>1, <4>2
    <3>3. source[cursor + 1] \in [kind : STRING, value : Int, octets : Seq(0 .. ByteValues - 1)]
      BY <3>1, <3>2, ElementOfSeq, Zenon
    <3> QED
      BY <3>3
  <2>5. <<LIT, v>> \in Seq(Int) /\ Len(<<LIT, v>>) = 2 /\ <<LIT, v>>[1] = LIT
    BY DEF LIT
  <2>6. emitted' = emitted \o <<LIT, v>>
    BY <2>1, <2>4
  <2>7. emitted'[Len(emitted) + 1] = LIT /\ Len(emitted') = Len(emitted) + 2
    BY <2>3, <2>5, <2>6, GrownCells, GrownLength
  <2>8. WordCells(emitted', OpenSlots(slots'), {}, Len(emitted), Len(emitted'))
    BY <2>7 DEF WordCells
  <2>9. PICK more \in Seq(Int) : more = <<LIT, v>> /\ Len(more) = 2
    BY <2>5
  <2>10. Len(more) = Cells(source, cursor) /\ Len(more) > 0 /\ emitted' = emitted \o more
    BY <2>2, <2>6, <2>9
  <2>11. /\ UNCHANGED <<source, compile_outcome>> /\ cursor' = After(source, cursor)
         /\ OpenSlots(slots) \subseteq OpenSlots(slots')
         /\ OpenSlots(slots') \subseteq OpenSlots(slots) \cup {Len(emitted) + 1}
    BY <2>1, <2>2
  <2> QED
    BY <1>1, <2>8, <2>10, <2>11, EmitWord
<1> QED
  BY <1>2, <1>3

\* S" takes two, and those of its packed text.
LEMMA QuoteLayout ==
  ASSUME LayoutInv, AcceptInv', handle_s_quote
  PROVE  LayoutInv'
<1>1. compile_outcome = "compiling" /\ cursor <= Len(source) /\ source[cursor].kind = "S\""
  BY DEF handle_s_quote, Token
<1>2. PICK closing : closing = Closing(source, cursor + 1)
  OBVIOUS
<1>3. CASE closing = 0
  BY <1>1, <1>2, <1>3, EndLayout DEF handle_s_quote
<1>4. CASE closing # 0
  <2>1. /\ emitted' = emitted \o StringCells(Text(source, cursor + 1, closing))
        /\ cursor' = closing + 1 /\ UNCHANGED <<source, slots, compile_outcome>>
    BY <1>2, <1>4 DEF handle_s_quote, Emit
  <2>2. After(source, cursor) = closing + 1
    BY <1>1, <1>2, <1>4, AfterWord
  <2>3. /\ source \in Sources /\ cursor \in 1 .. Len(source) /\ emitted \in Seq(Int)
        /\ Len(source) \in Nat
    <3>1. source \in Sources /\ cursor \in 1 .. Len(source) /\ emitted \in Seq(Int)
      BY <1>1, <2>1, <2>2, Compiled DEF LayoutInv
    <3> QED
      BY <3>1, SourcesAssumption
  <2>4. PICK text \in Seq(0 .. ByteValues - 1) : text = Text(source, cursor + 1, closing)
    <3>1. cursor + 1 \in Nat \ {0}
      BY <2>3
    <3>2. closing \in cursor + 1 .. Len(source)
      BY <1>2, <1>4, <2>3, <3>1, ClosingRange
    <3>3. cursor + 1 \in 1 .. Len(source) /\ closing \in 1 .. Len(source) /\ cursor + 1 <= closing
      BY <2>3, <3>2
    <3> QED
      BY <2>3, <3>3, SourcesAssumption
  <2>5. PICK packed \in Seq(Int), m \in Nat :
          /\ packed = pack_inline_payload(text)
          /\ m = litstring_payload_cells(Len(text)) /\ m = Len(packed)
          /\ \A c \in 1 .. m : Representable(packed[c])
    BY PackedType
  <2>6. PICK length \in Nat : length = Len(text)
    OBVIOUS
  <2> DEFINE more == <<LITSTRING, length>> \o packed
  <2>7. <<LITSTRING, length>> \in Seq(Int) /\ Len(<<LITSTRING, length>>) = 2
    BY DEF LITSTRING
  <2>8. /\ more \in Seq(Int) /\ Len(more) = 2 + m /\ more[1] = LITSTRING /\ more[2] = length
        /\ \A c \in 1 .. m : more[2 + c] = packed[c]
    BY <2>5, <2>7
  <2>9. emitted' = emitted \o more
    BY <2>1, <2>4, <2>5, <2>6 DEF StringCells
  <2>10. Cells(source, cursor) = 2 + m
    <3>1. source[cursor].kind \notin {"LIT", "IF"}
      <4>1. "S\"" # "LIT" /\ "S\"" # "IF"
        OBVIOUS
      <4> QED
        BY <1>1, <4>1, Zenon
    <3> QED
      BY <1>1, <1>2, <2>4, <2>5, <3>1, Zenon DEF Cells
  <2> HIDE DEF more
  <2>11. PICK k \in Nat : k = Len(emitted)
    BY <2>3
  <2>12. /\ Len(emitted') = k + 2 + m
         /\ \A j \in 1 .. 2 + m : emitted'[k + j] = more[j]
    <3>1. Len(emitted') = k + Len(more)
      BY <2>3, <2>8, <2>9, <2>11, GrownLength
    <3>2. \A j \in 1 .. Len(more) : emitted'[k + j] = more[j]
      BY <2>3, <2>8, <2>9, <2>11, GrownCells
    <3> QED
      BY <2>8, <3>1, <3>2
  <2>13. emitted'[k + 1] = LITSTRING /\ emitted'[k + 2] = length
    BY <2>8, <2>12
  <2>14. ASSUME NEW j \in k + 3 .. k + 2 + m
         PROVE  Representable(emitted'[j])
    <3>1. PICK c \in 1 .. m : j = k + (2 + c)
      <4>1. j - k - 2 \in 1 .. m /\ j = k + (2 + (j - k - 2))
        BY <2>14
      <4> QED
        BY <4>1
    <3>2. 2 + c \in 1 .. 2 + m
      OBVIOUS
    <3>3. emitted'[j] = packed[c]
      BY <2>8, <2>12, <3>1, <3>2
    <3> QED
      BY <2>5, <3>3
  <2>15. WordCells(emitted', OpenSlots(slots'), {}, k, k + 2 + m)
    BY <2>5, <2>6, <2>13, <2>14, Zenon DEF WordCells
  <2>16. WordCells(emitted', OpenSlots(slots'), {}, Len(emitted), Len(emitted'))
    BY <2>11, <2>12, <2>15
  <2>17. Len(more) = Cells(source, cursor) /\ Len(more) > 0
    BY <2>8, <2>10
  <2>18. /\ UNCHANGED <<source, compile_outcome>> /\ cursor' = After(source, cursor)
         /\ OpenSlots(slots) \subseteq OpenSlots(slots')
         /\ OpenSlots(slots') \subseteq OpenSlots(slots) \cup {Len(emitted) + 1}
    BY <2>1, <2>2
  <2> QED
    BY <1>1, <2>8, <2>9, <2>16, <2>17, <2>18, EmitWord
<1> QED
  BY <1>3, <1>4

\* IF takes two, and its operand is open.
LEMMA IfLayout ==
  ASSUME LayoutInv, AcceptInv', handle_if
  PROVE  LayoutInv'
<1>1. /\ compile_outcome = "compiling" /\ cursor <= Len(source) /\ source[cursor].kind = "IF"
      /\ emitted' = emitted \o <<ZBRANCH, 0>> /\ slots' = Append(slots, Len(emitted) + 1)
      /\ cursor' = cursor + 1 /\ UNCHANGED <<source, compile_outcome>>
  BY DEF handle_if, Token, Emit
<1>2. After(source, cursor) = cursor + 1 /\ Cells(source, cursor) = 2
  <2>1. source[cursor].kind # "LIT" /\ source[cursor].kind # "S\""
    BY <1>1
  <2> QED
    BY <1>1, <2>1, AfterWord DEF Cells
<1>3. emitted \in Seq(Int) /\ slots \in Seq(Nat)
  BY DEF LayoutInv, AcceptInv, CompilerInv, CompilerTypeOK
<1>4. <<ZBRANCH, 0>> \in Seq(Int) /\ Len(<<ZBRANCH, 0>>) = 2 /\ <<ZBRANCH, 0>>[1] = ZBRANCH
  BY DEF ZBRANCH
<1>5. emitted'[Len(emitted) + 1] = ZBRANCH /\ Len(emitted') = Len(emitted) + 2
  BY <1>1, <1>3, <1>4, GrownCells, GrownLength
<1>6. OpenSlots(slots') = OpenSlots(slots) \cup {Len(emitted) + 1}
  <2>1. PICK x \in Nat : x = Len(emitted) + 1
    BY <1>3
  <2>2. PICK n \in Nat : n = Len(slots)
    BY <1>3
  <2>3. /\ Len(slots') = n + 1 /\ slots'[n + 1] = x
        /\ \A i \in 1 .. n : slots'[i] = slots[i]
    BY <1>1, <1>3, <2>1, <2>2
  <2>4. \A i : i \in 1 .. n + 1 <=> i \in 1 .. n \/ i = n + 1
    OBVIOUS
  <2>5. OpenSlots(slots) = {slots[i] : i \in 1 .. n}
          /\ OpenSlots(slots') = {slots'[i] : i \in 1 .. n + 1}
    BY <2>2, <2>3 DEF OpenSlots
  <2> QED
    BY <2>1, <2>3, <2>4, <2>5, Zenon
<1>7. WordCells(emitted', OpenSlots(slots'), {}, Len(emitted), Len(emitted'))
  BY <1>5, <1>6 DEF WordCells
<1>8. /\ OpenSlots(slots) \subseteq OpenSlots(slots')
      /\ OpenSlots(slots') \subseteq OpenSlots(slots) \cup {Len(emitted) + 1}
  BY <1>6
<1>9. PICK more \in Seq(Int) : more = <<ZBRANCH, 0>> /\ Len(more) = 2
  BY <1>4
<1>10. Len(more) = Cells(source, cursor) /\ Len(more) > 0 /\ emitted' = emitted \o more
  BY <1>1, <1>2, <1>9
<1>11. UNCHANGED <<source, compile_outcome>> /\ cursor' = After(source, cursor)
  BY <1>1, <1>2
<1> QED
  BY <1>1, <1>7, <1>8, <1>10, <1>11, EmitWord

\* Closing the last slot leaves the others open.
LEMMA SlotClosed ==
  ASSUME NEW s \in Seq(Nat), NEW n \in Nat, Len(s) = n + 1,
         \A i, j \in 1 .. Len(s) : i < j => s[i] + 1 < s[j]
  PROVE  OpenSlots(SubSeq(s, 1, n)) = OpenSlots(s) \ {s[n + 1]} /\ s[n + 1] \in OpenSlots(s)
<1>1. PICK f : f = SubSeq(s, 1, n)
  OBVIOUS
<1>2. Len(f) = n /\ \A i \in 1 .. n : f[i] = s[i]
  BY <1>1
<1>3. \A i \in 1 .. n : s[i] \in Nat /\ s[n + 1] \in Nat /\ s[i] + 1 < s[n + 1]
  OBVIOUS
<1>4. \A i \in 1 .. n : s[i] # s[n + 1]
  BY <1>3
<1>5. \A i : i \in 1 .. n + 1 <=> i \in 1 .. n \/ i = n + 1
  OBVIOUS
<1>6. OpenSlots(f) = {f[i] : i \in 1 .. n} /\ OpenSlots(s) = {s[i] : i \in 1 .. n + 1}
  BY <1>2 DEF OpenSlots
<1>8. \A x : x \in OpenSlots(f) <=> \E i \in 1 .. n : s[i] = x
  BY <1>2, <1>6
<1>9. \A x : x \in OpenSlots(s) <=> x = s[n + 1] \/ \E i \in 1 .. n : s[i] = x
  BY <1>5, <1>6, Zenon
<1>7. OpenSlots(f) = OpenSlots(s) \ {s[n + 1]} /\ s[n + 1] \in OpenSlots(s)
  BY <1>4, <1>8, <1>9, Zenon
<1> QED
  BY <1>1, <1>7

\* One cell of a thread is overwritten, the others stay.
LEMMA PatchedCells ==
  ASSUME NEW cells \in Seq(Int), NEW at \in 1 .. Len(cells), NEW v
  PROVE  /\ Len([cells EXCEPT ![at] = v]) = Len(cells)
         /\ \A j \in 1 .. Len(cells) : j # at => [cells EXCEPT ![at] = v][j] = cells[j]
         /\ [cells EXCEPT ![at] = v][at] = v
  OBVIOUS

\* THEN takes no cell, and points the last open IF at the end.
LEMMA ThenLayout ==
  ASSUME LayoutInv, AcceptInv', handle_then
  PROVE  LayoutInv'
<1>1. compile_outcome = "compiling" /\ cursor <= Len(source) /\ source[cursor].kind = "THEN"
  BY DEF handle_then, Token
<1>2. CASE slots = <<>>
  BY <1>1, <1>2, EndLayout DEF handle_then
<1>3. CASE slots # <<>>
  <2>1. emitted \in Seq(Int) /\ slots \in Seq(Nat) /\ SlotsReserved
    BY DEF LayoutInv, AcceptInv, CompilerInv, CompilerTypeOK
  <2>2. PICK n \in Nat : Len(slots) = n + 1
    <3>1. Len(slots) - 1 \in Nat /\ Len(slots) = Len(slots) - 1 + 1
      BY <1>3, <2>1
    <3> QED
      BY <3>1
  <2>3. n + 1 \in 1 .. Len(slots)
    BY <2>2
  <2>4. PICK operand \in 1 .. Len(emitted) - 1 :
          operand = slots[n + 1] /\ emitted[operand] = ZBRANCH
    <3>1. slots[n + 1] \in 1 .. Len(emitted) - 1 /\ emitted[slots[n + 1]] = ZBRANCH
      BY <2>1, <2>3 DEF SlotsReserved
    <3> QED
      BY <3>1
  <2>5. /\ emitted' = [emitted EXCEPT ![operand + 1] = Len(emitted) - operand - 1]
        /\ slots' = SubSeq(slots, 1, n)
        /\ cursor' = cursor + 1 /\ UNCHANGED <<source, compile_outcome>>
    <3>1. Last(slots) = operand /\ Front(slots) = SubSeq(slots, 1, n)
      <4>1. Len(slots) - 1 = n
        BY <2>2
      <4> QED
        BY <2>2, <2>4, <4>1 DEF Last, Front
    <3> QED
      BY <1>3, <3>1 DEF handle_then, Patch
  <2>6. OpenSlots(slots') = OpenSlots(slots) \ {operand} /\ operand \in OpenSlots(slots)
    <3>1. \A i, j \in 1 .. Len(slots) : i < j => slots[i] + 1 < slots[j]
      BY <2>1 DEF SlotsReserved
    <3> QED
      BY <2>1, <2>2, <2>4, <2>5, <3>1, SlotClosed
  <2>7. /\ Len(emitted') = Len(emitted)
        /\ \A j \in 1 .. Len(emitted) : j # operand + 1 => emitted'[j] = emitted[j]
        /\ emitted'[operand + 1] = Len(emitted) - operand - 1
    <3>1. operand + 1 \in 1 .. Len(emitted)
      <4>1. Len(emitted) \in Nat
        BY <2>1
      <4> QED
        BY <4>1, SlotCells, Zenon
    <3> QED
      BY <2>1, <2>5, <3>1, PatchedCells
  <2>8. PICK B : B = Boundaries(source, cursor)
    OBVIOUS
  <2>9. /\ IsFiniteSet(CellsUpTo(source, cursor)) /\ Len(emitted) = CellsBefore(source, cursor)
        /\ Layout(emitted, OpenSlots(slots), B)
    BY <1>1, <2>8 DEF LayoutInv
  <2>10. Layout(emitted', OpenSlots(slots'), B)
    <3>1. PICK open, patched : open = OpenSlots(slots) /\ patched = emitted'
      OBVIOUS
    <3>2. /\ Len(patched) = Len(emitted)
          /\ \A j \in 1 .. Len(emitted) : j # operand + 1 => patched[j] = emitted[j]
          /\ patched[operand + 1] = Len(emitted) - operand - 1
      BY <2>7, <3>1
    <3>3. Layout(emitted, open, B) /\ operand \in open
      BY <2>6, <2>9, <3>1
    <3>4. Layout(patched, open \ {operand}, B)
      BY <2>1, <2>4, <3>2, <3>3, PatchLayout
    <3> QED
      BY <2>6, <3>1, <3>4
  <2>11. After(source, cursor) = cursor + 1 /\ Cells(source, cursor) = 0
    <3>1. source[cursor].kind \notin {"LIT", "IF", "S\""}
      BY <1>1
    <3> QED
      BY <1>1, <3>1, AfterWord DEF Cells
  <2>12. /\ source \in Sources
         /\ CursorAt(source, cursor, Len(slots)) /\ CursorAt(source, cursor', Len(slots'))
         /\ GoodWord(source, cursor) /\ cursor' <= Len(source) + 1
    BY <1>1, <2>5, <2>11, Compiled DEF LayoutInv
  <2>13. cursor' = After(source, cursor)
    BY <2>5, <2>11
  <2>14. /\ IsFiniteSet(CellsUpTo(source, cursor'))
         /\ CellsBefore(source, cursor') = Len(emitted)
    BY <1>1, <2>9, <2>11, <2>12, <2>13, CellsAdvance
  <2>15. Boundaries(source, cursor') = B \cup {Len(emitted)}
    BY <1>1, <2>8, <2>12, <2>13, <2>14, BoundariesAdvance
  <2>16. Boundaries(source, cursor') = B
    BY <2>9, <2>15 DEF Layout
  <2>17. source' = source /\ compile_outcome' = "compiling"
    BY <1>1, <2>5
  <2> QED
    BY <2>7, <2>10, <2>14, <2>16, <2>17 DEF LayoutInv
<1> QED
  BY <1>2, <1>3

\* Every word of the source, and its end, keeps the layout.
THEOREM NextLayoutInv == LayoutInv /\ [compile_source_to_thread]_compiler_vars => LayoutInv'
<1> SUFFICES ASSUME LayoutInv, [compile_source_to_thread]_compiler_vars PROVE LayoutInv'
  OBVIOUS
<1>1. AcceptInv'
  BY NextAcceptInv DEF LayoutInv
<1>2. CASE UNCHANGED compiler_vars
  BY <1>1, <1>2 DEF compiler_vars, LayoutInv
<1>3. CASE unknown_token
  BY <1>1, <1>3, EndLayout DEF unknown_token
<1>4. CASE finish
  <2>1. CASE slots = <<>>
    BY <1>1, <1>4, <2>1, EndLayout DEF finish
  <2>2. CASE slots # <<>>
    BY <1>1, <1>4, <2>2, EndLayout DEF finish
  <2> QED
    BY <2>1, <2>2
<1> QED
  BY <1>1, <1>2, <1>3, <1>4, PlainLayout, LitLayout, QuoteLayout, IfLayout, ThenLayout
     DEF compile_source_to_thread

(***************************************************************************)
(* The inductive invariant of the run: the thread is what was emitted, no  *)
(* IF waits for its THEN, and ip is where a word's cells start, or at the  *)
(* end.                                                                    *)
(***************************************************************************)
RunOutcomes == {"running", "halted", "missing-exit", "stack-underflow", "stack-overflow", "TypeError"}

RunInv ==
  /\ LayoutInv
  /\ words = build_word_registry(<<>>)
  /\ ~Started => ip = 0
  /\ Started =>
       /\ compile_outcome = "compiled"
       /\ thread = emitted
       /\ ip \in Boundaries(source, cursor)
       /\ outcome \in RunOutcomes

\* Nothing runs before it is compiled.
THEOREM InitRunInv == Init => RunInv
  BY InitLayoutInv DEF Init, RunInv, Started

\* Nothing is compiled once it runs.
LEMMA CompileKeepsRun ==
  ASSUME RunInv, Compile
  PROVE  RunInv'
<1>1. LayoutInv' /\ UNCHANGED loop_vars
  BY NextLayoutInv DEF RunInv, Compile
<1>2. compile_outcome = "compiling"
  BY DEF Compile, compile_source_to_thread, compile_lit, compile_plus, compile_exit,
         handle_s_quote, handle_if, handle_then, Token, unknown_token, finish
<1>3. ~Started /\ ~Started'
  BY <1>1, <1>2 DEF RunInv, Started, loop_vars
<1> QED
  BY <1>1, <1>3 DEF RunInv, loop_vars

\* A run starts at the first word.
LEMMA StartKeepsRun ==
  ASSUME RunInv, Start
  PROVE  RunInv'
<1>1. /\ compile_outcome = "compiled" /\ ~Started /\ UNCHANGED <<compiler_vars, words, ip>>
      /\ thread' = emitted /\ outcome' = "running"
  BY DEF Start, Started
<1>2. ip = 0
  BY <1>1 DEF RunInv
<1>3. 0 \in Boundaries(source, cursor)
  BY <1>1 DEF RunInv, LayoutInv, Layout
<1>4. LayoutInv'
  BY <1>1, NextLayoutInv DEF RunInv
<1> QED
  BY <1>1, <1>2, <1>3, <1>4 DEF RunInv, Started, compiler_vars, RunOutcomes

CompiledWords == {LIT, ADD, EXIT, LITSTRING, ZBRANCH}

\* The words that are compiled are given what their handlers take.
LEMMA CompiledCalls ==
  ASSUME NEW h \in CompiledWords
  PROVE  Injected(h) = Parameters(h)
<1> DEFINE names == {"data_stack", "thread_cursor", "thread_jump", "current_word_thread",
                     "control", "err"}
           given(r) == [data_stack |-> r.data_in > 0 \/ r.data_out > 0,
                        thread_cursor |-> "thread_cursor" \in r.needs,
                        thread_jump |-> "thread_jump" \in r.needs,
                        current_word_thread |-> "current_xt" \in r.needs,
                        control |-> r.needs \cap {"execution_control", "return_stack"} # {},
                        err |-> "error_exit" \in r.needs]
<1>1. ASSUME NEW r
      PROVE  {name \in DOMAIN given(r) : given(r)[name]}
               = {name \in names :
                    \/ name = "data_stack" /\ (r.data_in > 0 \/ r.data_out > 0)
                    \/ name = "thread_cursor" /\ "thread_cursor" \in r.needs
                    \/ name = "thread_jump" /\ "thread_jump" \in r.needs
                    \/ name = "current_word_thread" /\ "current_xt" \in r.needs
                    \/ name = "control" /\ r.needs \cap {"execution_control", "return_stack"} # {}
                    \/ name = "err" /\ "error_exit" \in r.needs}
  <2>1. DOMAIN given(r) = names
    OBVIOUS
  <2>2. /\ given(r)["data_stack"] <=> (r.data_in > 0 \/ r.data_out > 0)
        /\ given(r)["thread_cursor"] <=> "thread_cursor" \in r.needs
        /\ given(r)["thread_jump"] <=> "thread_jump" \in r.needs
        /\ given(r)["current_word_thread"] <=> "current_xt" \in r.needs
        /\ given(r)["control"] <=> r.needs \cap {"execution_control", "return_stack"} # {}
        /\ given(r)["err"] <=> "error_exit" \in r.needs
    OBVIOUS
  <2> HIDE DEF given
  <2>3. \A name \in names :
          given(r)[name] <=>
            \/ name = "data_stack" /\ (r.data_in > 0 \/ r.data_out > 0)
            \/ name = "thread_cursor" /\ "thread_cursor" \in r.needs
            \/ name = "thread_jump" /\ "thread_jump" \in r.needs
            \/ name = "current_word_thread" /\ "current_xt" \in r.needs
            \/ name = "control" /\ r.needs \cap {"execution_control", "return_stack"} # {}
            \/ name = "err" /\ "error_exit" \in r.needs
    BY <2>2
  <2> HIDE DEF names
  <2> QED
    BY <2>1, <2>3
<1>2. Injected(h) = {name \in DOMAIN given(Requirements(h)) : given(Requirements(h))[name]}
  BY Zenon DEF Injected
<1> HIDE DEF given
<1>3. Injected(h) = {name \in names :
                       \/ name = "data_stack" /\ (Requirements(h).data_in > 0 \/ Requirements(h).data_out > 0)
                       \/ name = "thread_cursor" /\ "thread_cursor" \in Requirements(h).needs
                       \/ name = "thread_jump" /\ "thread_jump" \in Requirements(h).needs
                       \/ name = "current_word_thread" /\ "current_xt" \in Requirements(h).needs
                       \/ name = "control"
                            /\ Requirements(h).needs \cap {"execution_control", "return_stack"} # {}
                       \/ name = "err" /\ "error_exit" \in Requirements(h).needs}
  BY <1>1, <1>2, Zenon
<1>4. CASE h = LIT
  BY <1>3, <1>4 DEF Parameters, Requirements, Req, ADD, EXIT, LIT, BRANCH, ZBRANCH, LITSTRING, DOCOL
<1>5. CASE h = LITSTRING
  BY <1>3, <1>5 DEF Parameters, Requirements, Req, ADD, EXIT, LIT, BRANCH, ZBRANCH, LITSTRING, DOCOL
<1>6. CASE h = ADD
  BY <1>3, <1>6 DEF Parameters, Requirements, Req, ADD, EXIT, LIT, BRANCH, ZBRANCH, LITSTRING, DOCOL
<1>7. CASE h = EXIT
  BY <1>3, <1>7 DEF Parameters, Requirements, Req, ADD, EXIT, LIT, BRANCH, ZBRANCH, LITSTRING, DOCOL
<1>8. CASE h = ZBRANCH
  BY <1>3, <1>8 DEF Parameters, Requirements, Req, ADD, EXIT, LIT, BRANCH, ZBRANCH, LITSTRING, DOCOL
<1> QED
  BY <1>4, <1>5, <1>6, <1>7, <1>8 DEF CompiledWords

\* Where a run stands: on the cells of a word, all patched, or at the end.
LEMMA AtWord ==
  ASSUME RunInv, Started
  PROVE  /\ thread \in Seq(Int) /\ Len(thread) \in Nat /\ ip \in 0 .. Len(thread)
         /\ Index(thread, ip) = ip + 1
         /\ Boundaries(source, cursor) \subseteq 0 .. Len(thread)
         /\ ip < Len(thread) =>
              \E n \in Boundaries(source, cursor) :
                 ip < n /\ WordCells(thread, {}, Boundaries(source, cursor), ip, n)
<1>1. /\ LayoutInv /\ compile_outcome = "compiled" /\ slots = <<>> /\ thread = emitted
      /\ ip \in Boundaries(source, cursor)
  BY DEF RunInv, LayoutInv
<1>2. thread \in Seq(Int)
  BY <1>1 DEF LayoutInv, AcceptInv, CompilerInv, CompilerTypeOK
<1>3. OpenSlots(slots) = {}
  BY <1>1 DEF OpenSlots
<1>4. Layout(thread, {}, Boundaries(source, cursor))
  BY <1>1, <1>3 DEF LayoutInv
<1>5. Len(thread) \in Nat /\ ip \in 0 .. Len(thread)
        /\ Boundaries(source, cursor) \subseteq 0 .. Len(thread)
  BY <1>1, <1>2, <1>4 DEF Layout
<1>6. Index(thread, ip) = ip + 1
  BY <1>5 DEF Index
<1> QED
  BY <1>1, <1>2, <1>4, <1>5, <1>6 DEF Layout

\* The word at ip is a known one, and its handler is found.
LEMMA HandlerHere ==
  ASSUME RunInv, Started, ip < Len(thread)
  PROVE  /\ thread[ip + 1] \in CompiledWords
         /\ thread[ip + 1] \in DOMAIN words
         /\ Handler = thread[ip + 1]
         /\ Handler \in Described /\ Handler \in HANDLERS
<1>1. PICK n : WordCells(thread, {}, Boundaries(source, cursor), ip, n)
  BY AtWord
<1>2. PICK xt : xt = thread[ip + 1]
  OBVIOUS
<1>3. xt \in CompiledWords
  BY <1>1, <1>2 DEF WordCells, CompiledWords
<1>4. words = [x \in Described |-> x]
  <2>1. DOMAIN <<>> = {}
    OBVIOUS
  <2> QED
    BY <2>1 DEF RunInv, build_word_registry
<1>5. xt \in Described /\ xt \in HANDLERS
  BY <1>3 DEF CompiledWords, Described, HANDLERS, ADD, EXIT, LIT, BRANCH, ZBRANCH, LITSTRING, DOCOL
<1>6. words[xt] = xt /\ xt \in DOMAIN words
  BY <1>4, <1>5
<1>7. Handler = xt
  BY <1>2, <1>6, AtWord DEF Handler
<1> QED
  BY <1>2, <1>3, <1>5, <1>6, <1>7

\* A run is refused for the stack, or at the end of the thread, only.
LEMMA RunPreflight ==
  ASSUME RunInv, Started
  PROVE  Preflight \in {"ok", "missing-exit", "stack-underflow", "stack-overflow"}
<1>1. CASE ip >= Len(thread)
  BY <1>1 DEF Preflight
<1>2. CASE ~(ip >= Len(thread))
  <2>1. ip < Len(thread) /\ ~(ip < -Len(thread))
    BY <1>2, AtWord
  <2>2. /\ thread[Index(thread, ip)] \in DOMAIN words
        /\ Handler \in Described /\ Handler \in HANDLERS /\ Injected(Handler) = Parameters(Handler)
    <3>1. Index(thread, ip) = ip + 1
      BY AtWord
    <3>2. Injected(Handler) = Parameters(Handler)
      BY <2>1, HandlerHere, CompiledCalls
    <3> QED
      BY <2>1, <3>1, <3>2, HandlerHere
  <2>3. enforce_requirements(Handler) \in {"ok", "stack-underflow", "stack-overflow"}
    BY DEF enforce_requirements
  <2> QED
    BY <1>2, <2>1, <2>2, <2>3, Zenon DEF Preflight
<1> QED
  BY <1>1, <1>2

\* A step of a run to a boundary, or to a stop where it is.
LEMMA MoveKeepsRun ==
  ASSUME RunInv, Started, UNCHANGED <<thread, words>>, UNCHANGED compiler_vars,
         ip' \in Boundaries(source, cursor), outcome' \in RunOutcomes
  PROVE  RunInv'
<1>1. LayoutInv' /\ UNCHANGED <<source, cursor, emitted, compile_outcome>>
  BY NextLayoutInv DEF RunInv, compiler_vars
<1>2. Started'
  BY DEF Started, RunOutcomes
<1>3. /\ words = build_word_registry(<<>>) /\ compile_outcome = "compiled" /\ thread = emitted
  BY DEF RunInv
<1> QED
  BY <1>1, <1>2, <1>3 DEF RunInv

\* The word that is called, and where its cells end.
LEMMA AtCall ==
  ASSUME RunInv, NEW h, Ready(h)
  PROVE  /\ Started /\ outcome = "running" /\ ip \in Nat /\ ip < Len(thread)
         /\ thread[ip + 1] = h /\ ip \in Boundaries(source, cursor)
         /\ \E n \in Boundaries(source, cursor) :
              ip < n /\ WordCells(thread, {}, Boundaries(source, cursor), ip, n)
<1>1. outcome = "running" /\ Started /\ Preflight = "ok" /\ Handler = h
  BY DEF Ready, Started
<1>2. ip < Len(thread)
  <2>1. ~(ip >= Len(thread))
    BY <1>1 DEF Preflight
  <2> QED
    BY <1>1, <2>1, AtWord
<1>3. ip \in Nat /\ ip \in Boundaries(source, cursor)
  BY <1>1, AtWord DEF RunInv
<1> QED
  BY <1>1, <1>2, <1>3, AtWord, HandlerHere

\* The operand beside a word is there when its cells are two or more.
LEMMA OperandHere ==
  ASSUME RunInv, NEW h, Ready(h), NEW n \in Boundaries(source, cursor), n >= ip + 2
  PROVE  ~OperandMissing /\ Operand = thread[ip + 2]
<1>1. ip \in Nat /\ Started
  BY AtCall
<1>2. n \in 0 .. Len(thread) /\ Len(thread) \in Nat
  BY <1>1, AtWord
<1>3. ~(ip + 1 >= Len(thread)) /\ ip + 1 >= 0 /\ ip + 1 + 1 = ip + 2
  BY <1>1, <1>2
<1> QED
  BY <1>3 DEF OperandMissing, Operand, Index

\* LIT goes on behind its number.
LEMMA LitRuns ==
  ASSUME RunInv, handle_lit, UNCHANGED compiler_vars
  PROVE  RunInv'
<1>1. Ready(LIT)
  BY DEF handle_lit
<1>2. /\ Started /\ outcome = "running" /\ ip \in Nat /\ thread[ip + 1] = LIT
  BY <1>1, AtCall
<1>3. PICK n \in Boundaries(source, cursor) : WordCells(thread, {}, Boundaries(source, cursor), ip, n)
  BY <1>1, AtCall
<1>4. n = ip + 2
  BY <1>2, <1>3 DEF WordCells, LIT, ADD, EXIT, LITSTRING, ZBRANCH
<1>5. ~OperandMissing
  BY <1>1, <1>2, <1>4, OperandHere
<1>6. ip' = n /\ UNCHANGED <<thread, words, outcome>>
  BY <1>4, <1>5 DEF handle_lit, Continue
<1> QED
  BY <1>2, <1>6, MoveKeepsRun DEF RunOutcomes

\* 0BRANCH goes on behind its operand, or where its THEN was.
LEMMA ZeroBranchRuns ==
  ASSUME RunInv, handle_zero_branch, UNCHANGED compiler_vars
  PROVE  RunInv'
<1>1. Ready(ZBRANCH)
  BY DEF handle_zero_branch
<1>2. /\ Started /\ outcome = "running" /\ ip \in Nat /\ thread[ip + 1] = ZBRANCH
  BY <1>1, AtCall
<1>3. PICK n \in Boundaries(source, cursor) : WordCells(thread, {}, Boundaries(source, cursor), ip, n)
  BY <1>1, AtCall
<1>4. /\ n = ip + 2
      /\ thread[ip + 2] \in Nat /\ n + thread[ip + 2] \in Boundaries(source, cursor)
  BY <1>2, <1>3 DEF WordCells, LIT, ADD, EXIT, LITSTRING, ZBRANCH
<1>5. ~OperandMissing /\ Operand = thread[ip + 2]
  BY <1>1, <1>2, <1>4, OperandHere
<1>6. /\ ip' = ip + 2 + (IF Top = IntValue(0) THEN Operand ELSE 0)
      /\ UNCHANGED <<thread, words, outcome>>
  BY <1>5 DEF handle_zero_branch, Continue
<1>7. ip' = n + thread[ip + 2] \/ ip' = n
  BY <1>2, <1>4, <1>5, <1>6
<1>8. ip' \in Boundaries(source, cursor)
  BY <1>4, <1>7
<1> QED
  BY <1>2, <1>6, <1>8, MoveKeepsRun DEF RunOutcomes

\* + goes on to the next cell, or stops on what is no number.
LEMMA AddRuns ==
  ASSUME RunInv, handle_add, UNCHANGED compiler_vars
  PROVE  RunInv'
<1>1. Ready(ADD)
  BY DEF handle_add
<1>2. /\ Started /\ outcome = "running" /\ ip \in Nat /\ thread[ip + 1] = ADD
      /\ ip \in Boundaries(source, cursor)
  BY <1>1, AtCall
<1>3. PICK n \in Boundaries(source, cursor) : WordCells(thread, {}, Boundaries(source, cursor), ip, n)
  BY <1>1, AtCall
<1>4. n = ip + 1
  BY <1>2, <1>3 DEF WordCells, LIT, ADD, EXIT, LITSTRING, ZBRANCH
<1>5. \/ ip' = ip + 1 /\ UNCHANGED <<thread, words, outcome>>
      \/ outcome' = "TypeError" /\ UNCHANGED <<thread, words, ip>>
  BY DEF handle_add, Continue
<1> QED
  BY <1>2, <1>4, <1>5, MoveKeepsRun DEF RunOutcomes

\* A slice whose bounds are in the sequence is that part of it.
LEMMA SliceInside ==
  ASSUME NEW s, Len(s) \in Nat, NEW from \in 0 .. Len(s), NEW to \in 0 .. Len(s)
  PROVE  Slice(s, from, to) = SubSeq(s, from + 1, to)
<1> DEFINE clip(i) == IF i < 0 THEN Max({0, i + Len(s)}) ELSE Min({i, Len(s)})
<1>1. ASSUME NEW i \in 0 .. Len(s) PROVE clip(i) = i
  <2>1. Min({i, Len(s)}) = i
    BY MinOfTwo
  <2> QED
    BY <2>1
<1>2. Slice(s, from, to) = SubSeq(s, clip(from) + 1, clip(to))
  BY DEF Slice
<1> HIDE DEF clip
<1> QED
  BY <1>1, <1>2

\* A part of a sequence, from behind its first k.
LEMMA MiddlePart ==
  ASSUME NEW s \in Seq(Int), NEW k \in Nat, NEW m \in Nat, k + m <= Len(s)
  PROVE  /\ SubSeq(s, k + 1, k + m) \in Seq(Int) /\ Len(SubSeq(s, k + 1, k + m)) = m
         /\ \A i \in 1 .. m : SubSeq(s, k + 1, k + m)[i] = s[k + i]
<1>1. PICK from \in Int, to \in Int : from = k + 1 /\ to = k + m /\ to - from + 1 = m
  <2>1. k + 1 \in Int /\ k + m \in Int /\ (k + m) - (k + 1) + 1 = m
    OBVIOUS
  <2> QED
    BY <2>1
<1>2. \A i \in from .. to : s[i] \in Int
  BY <1>1
<1>3. PICK part : part = SubSeq(s, from, to)
  OBVIOUS
<1>4. /\ part \in Seq(Int) /\ Len(part) = IF from <= to THEN to - from + 1 ELSE 0
      /\ \A i \in 1 .. to - from + 1 : part[i] = s[from + i - 1]
  BY <1>2, <1>3, SubSeqProperties
<1>5. Len(part) = m
  BY <1>1, <1>4
<1>6. \A i \in 1 .. m : part[i] = s[k + i]
  <2>1. \A i \in 1 .. m : from + i - 1 = k + i
    BY <1>1
  <2> QED
    BY <1>1, <1>4, <2>1
<1> QED
  BY <1>1, <1>3, <1>4, <1>5, <1>6, Zenon

\* LITSTRING goes on behind the payload it counts, which is all there.
LEMMA StringRuns ==
  ASSUME RunInv, handle_litstring, UNCHANGED compiler_vars
  PROVE  RunInv'
<1>1. Ready(LITSTRING)
  BY DEF handle_litstring
<1>2. /\ Started /\ outcome = "running" /\ ip \in Nat /\ thread[ip + 1] = LITSTRING
  BY <1>1, AtCall
<1>3. PICK n \in Boundaries(source, cursor) : WordCells(thread, {}, Boundaries(source, cursor), ip, n)
  BY <1>1, AtCall
<1>4. /\ thread[ip + 2] \in Nat
      /\ n = ip + 2 + litstring_payload_cells(thread[ip + 2])
      /\ \A j \in ip + 3 .. n : Representable(thread[j])
  BY <1>2, <1>3 DEF WordCells, LIT, ADD, EXIT, LITSTRING, ZBRANCH
<1>5. PICK m \in Nat : m = litstring_payload_cells(thread[ip + 2])
  BY <1>4, PayloadCellsType
<1>6. n = ip + 2 + m /\ n >= ip + 2
  BY <1>2, <1>4, <1>5
<1>7. ~OperandMissing /\ Operand = thread[ip + 2]
  BY <1>1, <1>2, <1>6, OperandHere
<1>8. PayloadEnd = n
  BY <1>5, <1>6, <1>7 DEF PayloadEnd
<1>9. thread \in Seq(Int) /\ Len(thread) \in Nat /\ n \in 0 .. Len(thread)
  BY <1>2, AtWord
<1>10. PayloadCells = SubSeq(thread, ip + 3, n)
  <2>1. ip + 2 \in 0 .. Len(thread) /\ ip + 2 + 1 = ip + 3
    BY <1>2, <1>6, <1>9
  <2>2. Slice(thread, ip + 2, n) = SubSeq(thread, ip + 2 + 1, n)
    BY <1>9, <2>1, SliceInside
  <2> QED
    BY <1>8, <2>1, <2>2 DEF PayloadCells
<1>11. \A i \in 1 .. Len(PayloadCells) : Representable(PayloadCells[i])
  <2>1. PICK k \in Nat : k = ip + 2 /\ k + 1 = ip + 3 /\ k + m = n /\ k + m <= Len(thread)
    <3>1. ip + 2 \in Nat /\ ip + 2 + 1 = ip + 3 /\ ip + 2 + m <= Len(thread)
      BY <1>2, <1>6, <1>9
    <3> QED
      BY <3>1, <1>6
  <2>2. PayloadCells = SubSeq(thread, k + 1, k + m)
    BY <1>10, <2>1
  <2>3. thread \in Seq(Int) /\ k + m <= Len(thread)
    BY <1>9, <2>1, Zenon
  <2>4. /\ Len(SubSeq(thread, k + 1, k + m)) = m
        /\ \A i \in 1 .. m : SubSeq(thread, k + 1, k + m)[i] = thread[k + i]
    BY <2>3, MiddlePart, Zenon
  <2>5. \A i \in 1 .. m : k + i \in ip + 3 .. n
    BY <2>1
  <2>6. \A i \in 1 .. m : Representable(thread[k + i])
    BY <1>4, <2>5, Zenon
  <2> QED
    BY <2>2, <2>4, <2>6, Zenon
<1>12. ip' = n /\ UNCHANGED <<thread, words, outcome>>
  <2>1. ~(PayloadEnd > Len(thread))
    BY <1>8, <1>9
  <2>2. LET octets == unpack_inline_payload(PayloadCells, Operand)
        IN  Continue(PayloadEnd,
                     data_stack \o <<InlineStringRef(octets), IntValue(Len(octets))>>)
    BY <1>7, <1>11, <2>1, Zenon DEF handle_litstring
  <2> QED
    BY <1>8, <2>2 DEF Continue
<1> QED
  BY <1>2, <1>12, MoveKeepsRun DEF RunOutcomes

\* EXIT stops where it is, and so does a word that is refused.
LEMMA StopRuns ==
  ASSUME RunInv, handle_exit \/ Refuse, UNCHANGED compiler_vars
  PROVE  RunInv'
<1>1. outcome = "running" /\ Started
  BY DEF handle_exit, Refuse, Ready, Started
<1>2. ip \in Boundaries(source, cursor)
  BY <1>1 DEF RunInv
<1>3. PICK code \in RunOutcomes : Raise(code)
  <2>1. CASE handle_exit
    BY <2>1 DEF handle_exit, RunOutcomes
  <2>2. CASE Refuse
    BY <1>1, <2>2, RunPreflight DEF Refuse, RunOutcomes
  <2> QED
    BY <2>1, <2>2
<1> QED
  BY <1>1, <1>2, <1>3, MoveKeepsRun DEF Raise

\* BRANCH is never compiled.
LEMMA NoBranch ==
  ASSUME RunInv
  PROVE  ~handle_branch
<1> SUFFICES ASSUME handle_branch PROVE FALSE
  OBVIOUS
<1>1. Ready(BRANCH)
  BY DEF handle_branch
<1>2. BRANCH \in CompiledWords
  BY <1>1, AtCall, HandlerHere
<1> QED
  BY <1>2 DEF CompiledWords, LIT, ADD, EXIT, LITSTRING, ZBRANCH, BRANCH

\* Every step of the compiler and of the loop keeps the invariant.
THEOREM NextRunInv == RunInv /\ [Next]_vars => RunInv'
<1> SUFFICES ASSUME RunInv, [Next]_vars PROVE RunInv'
  OBVIOUS
<1>1. CASE Step
  BY <1>1, LitRuns, ZeroBranchRuns, AddRuns, StringRuns, StopRuns, NoBranch DEF Step, step_once
<1>2. CASE UNCHANGED vars
  <2>1. UNCHANGED <<compiler_vars, loop_vars>>
    BY <1>2 DEF vars
  <2>2. LayoutInv'
    BY <2>1, NextLayoutInv DEF RunInv
  <2> QED
    BY <2>1, <2>2 DEF RunInv, Started, compiler_vars, loop_vars
<1> QED
  BY <1>1, <1>2, CompileKeepsRun, StartKeepsRun DEF Next

\* Where a word's cells start, or the last one's end, is a place of the source.
LEMMA BoundariesArePlaces ==
  ASSUME NEW s, NEW c, NEW cell \in Boundaries(s, c)
  PROVE  Places(s, cell) # {}
  BY Zenon DEF Boundaries, Places

\* Compiled code only ever runs from where an instruction starts: for sources
\* of any length and nesting, the offsets THEN patches, the cells S" emits and
\* the cells LITSTRING skips agree.
THEOREM OnInstructionCorrect == Spec => []OnInstruction
<1>1. RunInv => OnInstruction
  BY BoundariesArePlaces DEF RunInv, OnInstruction, RunOutcomes
<1> QED
  BY <1>1, InitRunInv, NextRunInv, PTL DEF Spec

-----------------------------------------------------------------------------
(***************************************************************************)
(* SourceMachine reads a source with its own copies of SourceText's        *)
(* definitions: they are the ones the compiler was shown to meet.          *)
(***************************************************************************)
\* Where words end and begin.
LEMMA SameWords ==
  ASSUME NEW s
  PROVE  /\ \A p : Source!Closing(s, p) = Closing(s, p)
         /\ \A p, q : Source!Text(s, p, q) = Text(s, p, q)
         /\ Source!WordPositions(s) = WordPositions(s)
<1>1. ASSUME NEW p PROVE Source!Closing(s, p) = Closing(s, p)
  BY SMT DEF Source!Closing, Closing, Source!HasQuote, HasQuote, Source!Min, Min
<1>2. ASSUME NEW p, NEW q PROVE Source!Text(s, p, q) = Text(s, p, q)
  BY Zenon DEF Source!Text, Text, Source!FlattenSeq, FlattenSeq
<1>3. Source!WordPositions(s) = WordPositions(s)
  BY SMT DEF Source!Closing, Closing, Source!HasQuote, HasQuote, Source!After, After,
             Source!WordPositions, WordPositions
<1> QED
  BY <1>1, <1>2, <1>3

\* The IFs that are open.
LEMMA SameOpen ==
  ASSUME NEW s
  PROVE  \A p, q : Source!Open(s, p, q) = Open(s, p, q)
<1>1. ASSUME NEW S, NEW kind PROVE Source!Count(s, S, kind) = Count(s, S, kind)
  BY Zenon DEF Source!Count, Count, Source!Cardinality, Cardinality, Source!IsFiniteSet, IsFiniteSet
<1>2. ASSUME NEW p, NEW q PROVE Source!Open(s, p, q) = Open(s, p, q)
  <2>1. Source!WordPositions(s) \cap (p .. q) = WordPositions(s) \cap (p .. q)
    BY SameWords, Zenon
  <2> QED
    BY <1>1, <2>1, Zenon DEF Source!Open, Open
<1> QED
  BY <1>2, Zenon

\* What is well formed, and where a branch and a word lead.
LEMMA SameReading ==
  ASSUME NEW s
  PROVE  /\ Source!WellFormed(s) <=> WellFormed(s)
         /\ \A p : Source!Match(s, p) = Match(s, p)
         /\ \A p : Source!Resume(s, p) = Resume(s, p)
<1>1. Source!WellFormed(s) <=> WellFormed(s)
  <2>1. Source!Keywords = Keywords
    BY DEF Source!Keywords, Keywords
  <2>2. Source!WordPositions(s) = WordPositions(s)
    BY SameWords
  <2>3. \A p : Source!Closing(s, p) = Closing(s, p) /\ Source!Open(s, 1, p) = Open(s, 1, p)
    BY SameWords, SameOpen
  <2> QED
    BY <2>1, <2>2, <2>3, Zenon DEF Source!WellFormed, WellFormed
<1>2. ASSUME NEW p PROVE Source!Match(s, p) = Match(s, p)
  <2>1. {q \in Source!WordPositions(s) : q > p /\ Source!Open(s, p, q) = 0}
          = {q \in WordPositions(s) : q > p /\ Open(s, p, q) = 0}
    BY SameWords, SameOpen
  <2> QED
    BY <2>1, Zenon DEF Source!Match, Match, Source!Min, Min
<1>3. ASSUME NEW p PROVE Source!Resume(s, p) = Resume(s, p)
  <2>1. Source!WordPositions(s) = WordPositions(s)
    BY SameWords
  <2>2. Source!Resume(s, p) = Source!Min({q \in WordPositions(s) : q >= p /\ s[q].kind # "THEN"}
                                           \cup {Len(s) + 1})
    BY <2>1, Zenon DEF Source!Resume
  <2> QED
    BY <2>2, Zenon DEF Resume, Source!Min, Min
<1> QED
  BY <1>1, <1>2, <1>3

\* Words do not overlap: one ends before the next starts.
LEMMA WordsOrdered ==
  ASSUME NEW s \in Sources, NEW p \in WordPositions(s), NEW q \in WordPositions(s), p < q
  PROVE  After(s, p) <= q
<1>n. Len(s) \in Nat
  BY SourcesAssumption
<1>1. PICK P \in SUBSET (1 .. Len(s)) : P = WordPositions(s)
  BY <1>n, WordFacts
<1>2. \A x \in P : x \in Nat /\ After(s, x) \in Int
  BY <1>1, AfterRange
<1> DEFINE Inside == {x \in P : \E y \in P : y < x /\ x < After(s, y)}
<1>3. SUFFICES ASSUME Inside # {} PROVE FALSE
  <2>1. q \notin Inside
    BY <1>3
  <2> QED
    BY <1>1, <1>2, <2>1
<1>4. PICK x \in Inside : \A z \in Inside : x <= z
  <2>1. Inside \subseteq Nat
    BY <1>2
  <2> HIDE DEF Inside
  <2> QED
    BY <1>3, <2>1, MinOfNaturals
<1>5. PICK y \in P : y < x /\ x < After(s, y)
  BY <1>4
<1>6. x \in P /\ x # 1 /\ y \in Nat /\ x \in Nat
  <2>1. x \in P
    BY <1>4
  <2>2. y \in 1 .. Len(s)
    BY <1>1
  <2> QED
    BY <1>2, <1>5, <2>1, <2>2
<1>7. PICK r \in P : r < x /\ After(s, r) = x
  BY <1>n, <1>1, <1>6, WordFacts
<1>8. r \in Nat
  BY <1>2
<1>9. CASE r < y
  <2>1. y \in Inside
    BY <1>5, <1>7, <1>9
  <2> QED
    BY <1>4, <1>5, <1>6, <2>1
<1>10. CASE r = y
  BY <1>5, <1>6, <1>7, <1>10
<1>11. CASE r > y
  <2>1. r < After(s, y)
    BY <1>2, <1>5, <1>6, <1>7, <1>8
  <2>2. r \in Inside
    BY <1>11, <2>1
  <2> QED
    BY <1>4, <1>6, <1>7, <1>8, <2>2
<1> QED
  BY <1>6, <1>8, <1>9, <1>10, <1>11

\* A good word ends where the next starts, or at the end of the source.
LEMMA GoodWordEnds ==
  ASSUME NEW s \in Sources, NEW p \in WordPositions(s), GoodWord(s, p)
  PROVE  /\ p \in 1 .. Len(s) /\ After(s, p) \in p + 1 .. Len(s) + 1
         /\ After(s, p) \in WordPositions(s) \cup {Len(s) + 1}
<1>n. Len(s) \in Nat
  BY SourcesAssumption
<1>1. p \in 1 .. Len(s)
  BY <1>n, WordFacts
<1>2. PICK d \in Int : d = After(s, p) /\ d > p
  BY <1>1, AfterRange
<1>3. d <= Len(s) + 1
  <2>1. CASE s[p].kind = "LIT"
    <3>1. d = p + 2 /\ p < Len(s)
      BY <1>2, <2>1, AfterWord DEF GoodWord
    <3> QED
      BY <1>n, <1>1, <3>1
  <2>2. CASE s[p].kind = "S\"" /\ Closing(s, p + 1) # 0
    <3>1. p + 1 \in Nat \ {0}
      BY <1>1
    <3>2. PICK closing : closing = Closing(s, p + 1)
      OBVIOUS
    <3>3. closing \in p + 1 .. Len(s)
      BY <2>2, <3>1, <3>2, ClosingRange
    <3>4. d = closing + 1
      BY <1>2, <2>2, <3>2, AfterWord
    <3> QED
      BY <1>n, <1>1, <3>3, <3>4
  <2>3. CASE s[p].kind # "LIT" /\ ~(s[p].kind = "S\"" /\ Closing(s, p + 1) # 0)
    <3>1. d = p + 1
      BY <1>2, <2>3, AfterWord, Zenon
    <3> QED
      BY <1>n, <1>1, <3>1
  <2> QED
    BY <2>1, <2>2, <2>3
<1>4. d \in 1 .. Len(s) => d \in WordPositions(s)
  BY <1>n, <1>1, <1>2, WordFacts
<1> QED
  BY <1>n, <1>1, <1>2, <1>3, <1>4

\* In a well-formed source, the compiler's view holds at every word and at the end.
LEMMA EveryWord ==
  ASSUME NEW s \in Sources, WellFormed(s), NEW c \in WordPositions(s) \cup {Len(s) + 1}
  PROVE  /\ CursorAt(s, c, Open(s, 1, c - 1)) /\ c \in 1 .. Len(s) + 1
         /\ \A p \in WordPositions(s) : GoodWord(s, p)
<1>n. Len(s) \in Nat /\ WordPositions(s) \subseteq 1 .. Len(s)
  BY SourcesAssumption, WordFacts
<1>1. \A p \in WordPositions(s) : GoodWord(s, p)
  BY Zenon DEF WellFormed, GoodWord
<1>2. c \in 1 .. Len(s) + 1 /\ (c <= Len(s) => c \in WordPositions(s))
  BY <1>n
<1>3. ASSUME NEW p \in WordPositions(s), p < c
      PROVE  After(s, p) <= c
  <2>1. CASE c \in WordPositions(s)
    BY <1>3, <2>1, WordsOrdered
  <2>2. CASE c = Len(s) + 1
    BY <1>n, <1>1, <2>2, GoodWordEnds
  <2> QED
    BY <2>1, <2>2
<1> QED
  BY <1>1, <1>2, <1>3 DEF CursorAt

\* What is known at the cursor was known at every word before it.
LEMMA CursorBefore ==
  ASSUME NEW s \in Sources, NEW q, NEW open, CursorAt(s, q, open),
         NEW p \in WordPositions(s), p < q
  PROVE  /\ CursorAt(s, p, Open(s, 1, p - 1)) /\ GoodWord(s, p)
         /\ p \in 1 .. Len(s) /\ After(s, p) <= q
<1>n. Len(s) \in Nat /\ WordPositions(s) \subseteq 1 .. Len(s)
  BY SourcesAssumption, WordFacts
<1>1. \A r \in WordPositions(s) : r < q => After(s, r) <= q /\ GoodWord(s, r)
  BY DEF CursorAt
<1>2. q \in Int /\ p \in 1 .. Len(s)
  BY <1>n DEF CursorAt
<1>3. ASSUME NEW r \in WordPositions(s), r < p
      PROVE  After(s, r) <= p /\ GoodWord(s, r)
  <2>1. r < q
    BY <1>n, <1>2, <1>3
  <2> QED
    BY <1>1, <1>3, <2>1, WordsOrdered
<1> QED
  BY <1>n, <1>1, <1>2, <1>3 DEF CursorAt

\* The cells of a word before the cursor are all before it.
LEMMA CellsFit ==
  ASSUME NEW s \in Sources, NEW q, NEW open, CursorAt(s, q, open), IsFiniteSet(CellsUpTo(s, q)),
         NEW p \in WordPositions(s), p < q
  PROVE  /\ IsFiniteSet(CellsUpTo(s, p)) /\ Cells(s, p) \in Nat
         /\ CellsBefore(s, p) \in Nat /\ CellsBefore(s, q) \in Nat
         /\ CellsBefore(s, After(s, p)) = CellsBefore(s, p) + Cells(s, p)
         /\ CellsBefore(s, p) + Cells(s, p) <= CellsBefore(s, q)
<1>n. Len(s) \in Nat /\ WordPositions(s) \subseteq 1 .. Len(s)
  BY SourcesAssumption, WordFacts
<1>1. /\ CursorAt(s, p, Open(s, 1, p - 1)) /\ GoodWord(s, p) /\ p <= Len(s)
      /\ p \in 1 .. Len(s) /\ After(s, p) <= q
  BY <1>n, CursorBefore
<1>2. After(s, p) \in Int /\ After(s, p) > p /\ q \in Int
  BY <1>1, AfterRange DEF CursorAt
<1>3. ASSUME NEW m \in Int, m <= q
      PROVE  /\ CellsUpTo(s, m) \subseteq CellsUpTo(s, q)
             /\ IsFiniteSet(CellsUpTo(s, m)) /\ CellsBefore(s, m) \in Nat
             /\ CellsBefore(s, m) <= CellsBefore(s, q)
  <2>1. {w \in WordPositions(s) : w < m} \subseteq {w \in WordPositions(s) : w < q}
    BY <1>n, <1>2, <1>3
  <2>2. CellsUpTo(s, m) \subseteq CellsUpTo(s, q)
    BY <2>1, Zenon DEF CellsUpTo
  <2>3. /\ IsFiniteSet(CellsUpTo(s, m))
        /\ Cardinality(CellsUpTo(s, m)) <= Cardinality(CellsUpTo(s, q))
    BY <2>2, FS_Subset
  <2>4. Cardinality(CellsUpTo(s, m)) \in Nat
    BY <2>3, FS_CardinalityType
  <2> QED
    BY <2>2, <2>3, <2>4 DEF CellsBefore
<1>4. /\ IsFiniteSet(CellsUpTo(s, p)) /\ CellsBefore(s, p) \in Nat
      /\ CellsBefore(s, After(s, p)) <= CellsBefore(s, q) /\ CellsBefore(s, q) \in Nat
  BY <1>1, <1>2, <1>3
<1>5. Cells(s, p) \in Nat /\ CellsBefore(s, After(s, p)) = CellsBefore(s, p) + Cells(s, p)
  BY <1>1, <1>4, CellsAdvance
<1> QED
  BY <1>4, <1>5

\* Every word but THEN has a cell.
LEMMA CellsPositive ==
  ASSUME NEW s \in Sources, NEW p \in 1 .. Len(s), GoodWord(s, p), s[p].kind # "THEN"
  PROVE  Cells(s, p) > 0
<1>1. CASE s[p].kind \in {"LIT", "IF"}
  <2>1. Cells(s, p) = 2
    BY <1>1 DEF Cells
  <2> QED
    BY <2>1
<1>2. CASE s[p].kind = "S\""
  <2>1. Cells(s, p) \in Nat
    BY CellsType
  <2>2. PICK m : m = litstring_payload_cells(Len(Text(s, p + 1, Closing(s, p + 1))))
    OBVIOUS
  <2>3. s[p].kind \notin {"LIT", "IF"}
    <3>1. "S\"" # "LIT" /\ "S\"" # "IF"
      OBVIOUS
    <3> QED
      BY <1>2, <3>1, Zenon
  <2>4. Cells(s, p) = 2 + m
    BY <1>2, <2>2, <2>3, Zenon DEF Cells
  <2>5. m \in Nat
    <3>1. PICK closing : closing = Closing(s, p + 1)
      OBVIOUS
    <3>2. closing # 0 /\ p + 1 \in Nat \ {0} /\ Len(s) \in Nat
      <4>1. closing # 0
        BY <1>2, <3>1 DEF GoodWord
      <4> QED
        BY <4>1, SourcesAssumption
    <3>3. closing \in p + 1 .. Len(s)
      BY <3>1, <3>2, ClosingRange
    <3>4. p + 1 \in 1 .. Len(s) /\ closing \in 1 .. Len(s) /\ p + 1 <= closing
      BY <3>2, <3>3
    <3>5. Len(Text(s, p + 1, closing)) \in Nat
      BY <3>4, SourcesAssumption
    <3> QED
      BY <2>2, <3>1, <3>5, PayloadCellsType
  <2> QED
    BY <2>4, <2>5
<1>3. CASE s[p].kind \notin {"LIT", "IF", "S\""}
  <2>1. Cells(s, p) = 1
    BY <1>3 DEF Cells
  <2> QED
    BY <2>1
<1> QED
  BY <1>1, <1>2, <1>3, Zenon

\* The library's Max is the greatest, where there is one.
LEMMA GreatestIsMax ==
  ASSUME NEW T, T \subseteq Int, NEW x \in T, \A y \in T : y <= x
  PROVE  Max(T) = x
<1>1. \A z \in T : (\A y \in T : z >= y) <=> z = x
  OBVIOUS
<1>2. Max(T) = CHOOSE z \in T : z = x
  BY <1>1, Zenon DEF Max
<1> QED
  BY <1>2

\* The last place of a cell is where SourceMachine resumes: past any THEN.
LEMMA LastPlace ==
  ASSUME NEW s \in Sources, WellFormed(s), IsFiniteSet(CellsUpTo(s, Len(s) + 1)),
         NEW to \in WordPositions(s) \cup {Len(s) + 1},
         NEW r, r = Resume(s, to)
  PROVE  /\ r \in WordPositions(s) \cup {Len(s) + 1}
         /\ r \in WordPositions(s) => s[r].kind # "THEN"
         /\ CellsBefore(s, r) = CellsBefore(s, to)
         /\ Max(Places(s, CellsBefore(s, to))) = r
<1>n. /\ Len(s) \in Nat /\ WordPositions(s) \subseteq 1 .. Len(s)
      /\ Len(s) + 1 \in WordPositions(s) \cup {Len(s) + 1}
  BY SourcesAssumption, WordFacts
<1> DEFINE Doing == {q \in WordPositions(s) : q >= to /\ s[q].kind # "THEN"}
<1>1. r \in Doing \cup {Len(s) + 1} /\ \A y \in Doing \cup {Len(s) + 1} : r <= y
  <2>1. r = Min(Doing \cup {Len(s) + 1})
    BY Zenon DEF Resume
  <2>2. Doing \cup {Len(s) + 1} \subseteq Nat /\ Doing \cup {Len(s) + 1} # {}
    BY <1>n
  <2> HIDE DEF Doing
  <2> QED
    BY <2>1, <2>2, MinOfNaturals
<1>2. r \in WordPositions(s) \cup {Len(s) + 1} /\ (r \in WordPositions(s) => s[r].kind # "THEN")
  <2>1. Len(s) + 1 \notin WordPositions(s)
    BY <1>n
  <2> QED
    BY <1>1, <2>1
<1>3. to \in Int /\ r \in Int /\ to <= r /\ r <= Len(s) + 1
  BY <1>n, <1>1
<1>4. CellsUpTo(s, r) = CellsUpTo(s, to)
  <2>1. \A p \in WordPositions(s) : p < to => p < r
    BY <1>n, <1>3
  <2>2. ASSUME NEW p \in WordPositions(s), p < r, ~(p < to)
        PROVE  Cells(s, p) = 0
    <3>1. p \in Int /\ p >= to
      BY <1>n, <1>3, <2>2
    <3>2. p \notin Doing
      BY <1>1, <1>3, <2>2, <3>1
    <3>3. s[p].kind = "THEN"
      BY <3>1, <3>2
    <3> QED
      BY <3>3 DEF Cells
  <2>3. ASSUME NEW x \in CellsUpTo(s, r)
        PROVE  x \in CellsUpTo(s, to)
    <3>1. PICK p \in WordPositions(s) : p < r /\ x \in {p} \X (1 .. Cells(s, p))
      BY <2>3, Zenon DEF CellsUpTo
    <3>2. p < to
      <4>1. SUFFICES ASSUME ~(p < to) PROVE FALSE
        OBVIOUS
      <4>2. Cells(s, p) = 0
        BY <2>2, <3>1, <4>1
      <4> QED
        BY <3>1, <4>2
    <3>3. p \in {w \in WordPositions(s) : w < to}
      BY <3>2
    <3> QED
      BY <3>1, <3>3, Zenon DEF CellsUpTo
  <2>4. ASSUME NEW x \in CellsUpTo(s, to)
        PROVE  x \in CellsUpTo(s, r)
    <3>1. PICK p \in WordPositions(s) : p < to /\ x \in {p} \X (1 .. Cells(s, p))
      BY <2>4, Zenon DEF CellsUpTo
    <3>2. p \in {w \in WordPositions(s) : w < r}
      BY <2>1, <3>1
    <3> QED
      BY <3>1, <3>2, Zenon DEF CellsUpTo
  <2> QED
    BY <2>3, <2>4
<1>5. CellsBefore(s, r) = CellsBefore(s, to)
  BY <1>4 DEF CellsBefore
<1>6. PICK cell : cell = CellsBefore(s, to)
  OBVIOUS
<1>7. Places(s, cell) \subseteq Int /\ r \in Places(s, cell)
  BY <1>n, <1>2, <1>5, <1>6 DEF Places
<1>8. ASSUME NEW q \in Places(s, cell)
      PROVE  q <= r
  <2>1. q \in WordPositions(s) \cup {Len(s) + 1} /\ CellsBefore(s, q) = cell /\ q \in Int
    BY <1>7 DEF Places
  <2>2. SUFFICES ASSUME r < q PROVE FALSE
    BY <1>3, <2>1
  <2>3. r \in WordPositions(s) /\ r \in 1 .. Len(s) /\ s[r].kind # "THEN"
    BY <1>n, <1>2, <2>1, <2>2
  <2>4. CursorAt(s, q, Open(s, 1, q - 1)) /\ GoodWord(s, r)
    BY <2>1, <2>3, EveryWord
  <2>5. IsFiniteSet(CellsUpTo(s, q))
    <3>1. q = Len(s) + 1 \/ (q \in WordPositions(s) /\ q < Len(s) + 1)
      BY <1>n, <2>1
    <3>2. PICK end : end = Len(s) + 1 /\ end \in WordPositions(s) \cup {Len(s) + 1}
      BY <1>n
    <3>3. CursorAt(s, end, Open(s, 1, end - 1))
      BY <3>2, EveryWord
    <3> QED
      BY <3>1, <3>2, <3>3, CellsFit
  <2>6. /\ CellsBefore(s, r) \in Nat /\ Cells(s, r) \in Nat
        /\ CellsBefore(s, r) + Cells(s, r) <= CellsBefore(s, q)
    BY <2>2, <2>3, <2>4, <2>5, CellsFit
  <2>7. Cells(s, r) > 0
    BY <2>3, <2>4, CellsPositive
  <2> QED
    BY <1>5, <1>6, <2>1, <2>6, <2>7
<1>9. Max(Places(s, cell)) = r
  BY <1>7, <1>8, GreatestIsMax
<1> QED
  BY <1>2, <1>5, <1>6, <1>9

\* A number written as r and M times x has these quotient and remainder.
LEMMA QuotientOf ==
  ASSUME NEW M \in Nat \ {0}, NEW r \in 0 .. M - 1, NEW x \in Nat
  PROVE  (r + M * x) \div M = x /\ (r + M * x) % M = r
<1>1. PICK a \in Nat : a = r + M * x
  <2>1. M * x \in Nat
    OBVIOUS
  <2> QED
    BY <2>1
<1>2. PICK q \in Nat, t \in 0 .. M - 1 : q = a \div M /\ t = a % M /\ a = M * q + t
  OBVIOUS
<1>3. CASE x > q
  <2>1. PICK y \in Nat : x = q + 1 + y
    <3>1. x - q - 1 \in Nat /\ x = q + 1 + (x - q - 1)
      BY <1>3
    <3> QED
      BY <3>1
  <2>2. M * x = M * q + M + M * y /\ M * y \in Nat /\ M * q \in Nat
    BY <2>1
  <2> QED
    BY <1>1, <1>2, <2>2
<1>4. CASE q > x
  <2>1. PICK y \in Nat : q = x + 1 + y
    <3>1. q - x - 1 \in Nat /\ q = x + 1 + (q - x - 1)
      BY <1>4
    <3> QED
      BY <3>1
  <2>2. M * q = M * x + M + M * y /\ M * y \in Nat /\ M * x \in Nat
    BY <2>1
  <2> QED
    BY <1>1, <1>2, <2>2
<1>5. CASE q = x
  <2>1. M * x \in Nat
    OBVIOUS
  <2> QED
    BY <1>1, <1>2, <1>5, <2>1
<1> QED
  BY <1>3, <1>4, <1>5

\* The octets of a cell are those it was packed from.
LEMMA BytesOfCell ==
  ASSUME NEW a \in 0 .. ByteValues - 1, NEW b \in 0 .. ByteValues - 1,
         NEW d \in 0 .. ByteValues - 1, NEW e \in 0 .. ByteValues - 1,
         NEW cell, cell = a + ByteValues * (b + ByteValues * (d + ByteValues * e))
  PROVE  Byte(cell, 0) = a /\ Byte(cell, 1) = b /\ Byte(cell, 2) = d /\ Byte(cell, 3) = e
<1>b. PICK B \in Nat \ {0} : B = ByteValues /\ B # 1
  BY ByteAssumption
<1>1. PICK two \in Nat \ {0} : two = B * B
  OBVIOUS
<1>2. PICK three \in Nat \ {0} : three = B * B * B /\ three = B * two
  BY <1>1
<1>3. PICK x \in Nat : x = d + B * e
  BY <1>b
<1>4. PICK y \in Nat : y = b + B * x
  BY <1>b
<1>5. cell = a + B * y
  BY <1>b, <1>3, <1>4
<1>6. PICK ab \in 0 .. two - 1 : ab = a + B * b
  BY <1>b, <1>1, OneMoreOctet
<1>7. PICK bd \in 0 .. two - 1 : bd = b + B * d
  BY <1>b, <1>1, OneMoreOctet
<1>8. PICK abd \in 0 .. three - 1 : abd = a + B * bd
  BY <1>b, <1>2, OneMoreOctet
<1>9. cell = ab + two * x
  <2>1. B * y = B * b + B * (B * x)
    BY <1>4
  <2>2. B * (B * x) = two * x
    BY <1>1
  <2> QED
    BY <1>b, <1>1, <1>5, <1>6, <2>1, <2>2
<1>10. cell = abd + three * e
  <2>1. B * x = B * d + B * (B * e)
    BY <1>b, <1>3
  <2>2. y = bd + two * e
    <3>1. B * (B * e) = two * e
      BY <1>b, <1>1
    <3> QED
      BY <1>b, <1>1, <1>4, <1>7, <2>1, <3>1
  <2>3. B * y = B * bd + B * (two * e)
    BY <1>b, <1>1, <1>7, <2>2
  <2>4. B * (two * e) = three * e
    BY <1>b, <1>1, <1>2
  <2> QED
    BY <1>b, <1>1, <1>2, <1>5, <1>8, <2>3, <2>4
<1>11. cell \div B = y /\ cell % B = a
  <2>1. (a + B * y) \div B = y /\ (a + B * y) % B = a
    BY <1>b, QuotientOf
  <2> QED
    BY <1>5, <2>1
<1>12. y % B = b
  BY <1>b, <1>3, <1>4, QuotientOf
<1>13. cell \div two = x /\ x % B = d
  BY <1>b, <1>3, <1>9, QuotientOf
<1>14. cell \div three = e /\ e % B = e
  <2>1. cell \div three = e
    BY <1>b, <1>10, QuotientOf
  <2> QED
    BY <1>b, <2>1
<1>15. \A k : Byte(cell, k) = (cell \div <<1, B, two, three>>[k + 1]) % B
  BY <1>b, <1>1, <1>2 DEF Byte
<1>16. cell \div 1 = cell
  BY <1>b, <1>5
<1> QED
  BY <1>b, <1>11, <1>12, <1>13, <1>14, <1>15, <1>16

\* Unpacking what was packed gives the text back, without the padding.
LEMMA UnpackPacked ==
  ASSUME NEW text \in Seq(0 .. ByteValues - 1),
         NEW cells, cells = pack_inline_payload(text)
  PROVE  unpack_inline_payload(cells, Len(text)) = text
<1> DEFINE octet(i) == IF i <= Len(text) THEN text[i] ELSE 0
           raw == [i \in 1 .. 4 * Len(cells) |-> Byte(cells[(i - 1) \div 4 + 1], (i - 1) % 4)]
<1>1. PICK n \in Nat, m \in Nat :
        /\ n = Len(text) /\ m = litstring_payload_cells(n) /\ Len(cells) = m
        /\ n <= 4 * m
  <2>1. Len(text) \in Nat
    OBVIOUS
  <2>2. Len(cells) = litstring_payload_cells(Len(text))
    BY PackedType
  <2>3. litstring_payload_cells(Len(text)) \in Nat
          /\ Len(text) <= 4 * litstring_payload_cells(Len(text))
    BY <2>1 DEF litstring_payload_cells
  <2> QED
    BY <2>1, <2>2, <2>3
<1>2. \A i \in Nat \ {0} : octet(i) \in 0 .. ByteValues - 1
  BY ByteAssumption
<1>3. ASSUME NEW c \in Nat, c < m
      PROVE  \A k \in 0 .. 3 : Byte(cells[c + 1], k) = octet(4 * c + k + 1)
  <2>1. c + 1 \in 1 .. m
    BY <1>3
  <2>2. cells[c + 1] = octet(4 * (c + 1) - 3) + ByteValues * (octet(4 * (c + 1) - 2)
                         + ByteValues * (octet(4 * (c + 1) - 1) + ByteValues * octet(4 * (c + 1))))
    BY <1>1, <2>1 DEF pack_inline_payload
  <2>3. /\ 4 * (c + 1) - 3 = 4 * c + 1 /\ 4 * (c + 1) - 2 = 4 * c + 2
        /\ 4 * (c + 1) - 1 = 4 * c + 3 /\ 4 * (c + 1) = 4 * c + 4
    OBVIOUS
  <2>4. PICK a \in 0 .. ByteValues - 1, b \in 0 .. ByteValues - 1,
             d \in 0 .. ByteValues - 1, e \in 0 .. ByteValues - 1 :
          /\ a = octet(4 * c + 1) /\ b = octet(4 * c + 2)
          /\ d = octet(4 * c + 3) /\ e = octet(4 * c + 4)
    <3>1. /\ 4 * c + 1 \in Nat \ {0} /\ 4 * c + 2 \in Nat \ {0}
          /\ 4 * c + 3 \in Nat \ {0} /\ 4 * c + 4 \in Nat \ {0}
      OBVIOUS
    <3> HIDE DEF octet
    <3> QED
      BY <1>2, <3>1
  <2> HIDE DEF octet
  <2>5. cells[c + 1] = a + ByteValues * (b + ByteValues * (d + ByteValues * e))
    BY <2>2, <2>3, <2>4
  <2>6. /\ Byte(cells[c + 1], 0) = a /\ Byte(cells[c + 1], 1) = b
        /\ Byte(cells[c + 1], 2) = d /\ Byte(cells[c + 1], 3) = e
    BY <2>5, BytesOfCell
  <2>7. /\ 4 * c + 0 + 1 = 4 * c + 1 /\ 4 * c + 1 + 1 = 4 * c + 2
        /\ 4 * c + 2 + 1 = 4 * c + 3 /\ 4 * c + 3 + 1 = 4 * c + 4
    OBVIOUS
  <2>8. \A k \in 0 .. 3 : k = 0 \/ k = 1 \/ k = 2 \/ k = 3
    OBVIOUS
  <2> QED
    BY <2>4, <2>6, <2>7, <2>8
<1>4. ASSUME NEW i \in 1 .. 4 * m
      PROVE  Byte(cells[(i - 1) \div 4 + 1], (i - 1) % 4) = octet(i)
  <2>1. PICK c \in Nat, k \in 0 .. 3 :
          c = (i - 1) \div 4 /\ k = (i - 1) % 4 /\ i = 4 * c + k + 1 /\ c < m
    OBVIOUS
  <2> HIDE DEF octet
  <2>2. Byte(cells[c + 1], k) = octet(4 * c + k + 1)
    BY <1>3, <2>1
  <2> QED
    BY <2>1, <2>2
<1>5. raw = [i \in 1 .. 4 * m |-> octet(i)]
  <2>1. raw = [i \in 1 .. 4 * m |-> Byte(cells[(i - 1) \div 4 + 1], (i - 1) % 4)]
    BY <1>1
  <2> HIDE DEF octet, raw
  <2> QED
    BY <1>4, <2>1
<1>6. raw \in Seq(0 .. ByteValues - 1) /\ Len(raw) = 4 * m
  <2>1. \A i \in 1 .. 4 * m : octet(i) \in 0 .. ByteValues - 1
    BY <1>2
  <2> HIDE DEF octet, raw
  <2>2. 4 * m \in Nat
    BY <1>1
  <2> QED
    BY <1>5, <2>1, <2>2
<1>10. PICK padded \in Seq(0 .. ByteValues - 1) : padded = raw /\ Len(padded) = 4 * m
  <2> HIDE DEF raw
  <2> QED
    BY <1>6
<1>7. Slice(padded, 0, n) = SubSeq(padded, 1, n)
  <2>1. 0 \in 0 .. Len(padded) /\ n \in 0 .. Len(padded) /\ Len(padded) \in Nat /\ 0 + 1 = 1
    BY <1>1, <1>10
  <2>2. Slice(padded, 0, n) = SubSeq(padded, 0 + 1, n)
    BY <2>1, SliceInside
  <2> QED
    BY <2>1, <2>2
<1>8. SubSeq(padded, 1, n) = text
  <2>1. \A i \in 1 .. n : padded[i] = text[i]
    <3>1. \A i \in 1 .. n : octet(i) = text[i] /\ i \in 1 .. 4 * m
      BY <1>1
    <3> HIDE DEF raw, octet
    <3> QED
      BY <1>5, <1>10, <3>1
  <2>2. PICK part : part = SubSeq(padded, 1, n)
    OBVIOUS
  <2>3. part \in Seq(0 .. ByteValues - 1) /\ Len(part) = n /\ \A i \in 1 .. n : part[i] = padded[i]
    <3>1. n \in 0 .. Len(padded)
      BY <1>1, <1>10
    <3> QED
      BY <2>2, <3>1, FirstPart, Zenon
  <2>4. part = text
    <3> HIDE DEF raw
    <3> QED
      BY <1>1, <2>1, <2>3
  <2> QED
    BY <2>2, <2>4
<1>9. unpack_inline_payload(cells, n) = Slice(padded, 0, n)
  BY <1>10, Zenon DEF unpack_inline_payload
<1> QED
  BY <1>1, <1>7, <1>8, <1>9

TextAt(s, p) == Text(s, p + 1, Closing(s, p + 1))

(***************************************************************************)
(* What the cells of a word are: k is where they start, and an IF whose    *)
(* operand is open has not got its branch yet.                             *)
(***************************************************************************)
Spelled(s, p, cells, open, k) ==
  \/ s[p].kind = "LIT" /\ cells[k + 1] = LIT /\ cells[k + 2] = s[p + 1].value
  \/ s[p].kind = "+" /\ cells[k + 1] = ADD
  \/ s[p].kind = "EXIT" /\ cells[k + 1] = EXIT
  \/ s[p].kind = "THEN"
  \/ /\ s[p].kind = "S\""
     /\ cells[k + 1] = LITSTRING
     /\ cells[k + 2] = Len(TextAt(s, p))
     /\ \A j \in 1 .. litstring_payload_cells(Len(TextAt(s, p))) :
          cells[k + 2 + j] = pack_inline_payload(TextAt(s, p))[j]
  \/ /\ s[p].kind = "IF"
     /\ cells[k + 1] = ZBRANCH
     /\ \/ k + 1 \in open
        \/ /\ Match(s, p) \in WordPositions(s)
           /\ k + 2 + cells[k + 2] = CellsBefore(s, Match(s, p))

\* Every open slot is the operand of an IF that is open, inner ones last.
SlotMeans(s, c, open) ==
  \A i \in 1 .. Len(open) :
    \E p \in WordPositions(s) :
      /\ p < c /\ s[p].kind = "IF" /\ open[i] = CellsBefore(s, p) + 1
      /\ Open(s, p, c - 1) = Len(open) - i + 1
      /\ \A q \in WordPositions(s) : p <= q /\ q < c => Open(s, p, q) > 0

(***************************************************************************)
(* The inductive invariant of what the cells say.                          *)
(***************************************************************************)
MeaningInv ==
  /\ LayoutInv
  /\ compile_outcome \in {"compiling", "compiled"} =>
       /\ \A p \in WordPositions(source) :
            p < cursor => Spelled(source, p, emitted, OpenSlots(slots), CellsBefore(source, p))
       /\ SlotMeans(source, cursor, slots)

\* What is read up to a quote is a text.
LEMMA TextType ==
  ASSUME NEW s \in Sources, NEW p \in 1 .. Len(s), Closing(s, p + 1) # 0
  PROVE  /\ TextAt(s, p) \in Seq(0 .. ByteValues - 1) /\ Len(TextAt(s, p)) \in Nat
         /\ litstring_payload_cells(Len(TextAt(s, p))) \in Nat
         /\ Closing(s, p + 1) \in p + 1 .. Len(s)
<1>1. PICK closing : closing = Closing(s, p + 1)
  OBVIOUS
<1>2. closing # 0 /\ p + 1 \in Nat \ {0} /\ Len(s) \in Nat
  BY <1>1, SourcesAssumption
<1>3. closing \in p + 1 .. Len(s)
  BY <1>1, <1>2, ClosingRange
<1>4. p + 1 \in 1 .. Len(s) /\ closing \in 1 .. Len(s) /\ p + 1 <= closing
  BY <1>2, <1>3
<1>5. PICK text \in Seq(0 .. ByteValues - 1) : text = TextAt(s, p)
  BY <1>1, <1>4, SourcesAssumption DEF TextAt
<1>6. Len(text) \in Nat /\ litstring_payload_cells(Len(text)) \in Nat
  <2>1. Len(text) \in Nat
    OBVIOUS
  <2> QED
    BY <2>1, PayloadCellsType
<1> QED
  BY <1>1, <1>3, <1>5, <1>6

\* The cells of a string.
LEMMA StringCellsOf ==
  ASSUME NEW s, NEW p, s[p].kind = "S\""
  PROVE  Cells(s, p) = 2 + litstring_payload_cells(Len(TextAt(s, p)))
<1>1. s[p].kind \notin {"LIT", "IF"}
  <2>1. "S\"" # "LIT" /\ "S\"" # "IF"
    OBVIOUS
  <2> QED
    BY <2>1, Zenon
<1> QED
  BY <1>1, Zenon DEF Cells, TextAt

\* The cells of the other words.
LEMMA CellsOf ==
  ASSUME NEW s, NEW p
  PROVE  /\ s[p].kind \in {"LIT", "IF"} => Cells(s, p) = 2
         /\ s[p].kind \in {"+", "EXIT"} => Cells(s, p) = 1
         /\ s[p].kind = "THEN" => Cells(s, p) = 0
  BY DEF Cells

\* A word whose cells are left alone says what it said.
LEMMA SpelledKept ==
  ASSUME NEW s \in Sources, NEW p \in 1 .. Len(s), GoodWord(s, p), NEW k \in Nat,
         NEW cells, NEW open, Spelled(s, p, cells, open, k),
         NEW others, \A j \in 1 .. Cells(s, p) : others[k + j] = cells[k + j],
         NEW opened, k + 1 \in open => k + 1 \in opened
  PROVE  Spelled(s, p, others, opened, k)
<1>1. CASE s[p].kind = "LIT" /\ cells[k + 1] = LIT /\ cells[k + 2] = s[p + 1].value
  <2>1. Cells(s, p) = 2
    BY <1>1, CellsOf
  <2>2. others[k + 1] = cells[k + 1] /\ others[k + 2] = cells[k + 2]
    BY <2>1
  <2> QED
    BY <1>1, <2>2 DEF Spelled
<1>2. CASE s[p].kind = "+" /\ cells[k + 1] = ADD
  <2>1. Cells(s, p) = 1
    BY <1>2, CellsOf
  <2>2. others[k + 1] = cells[k + 1]
    BY <2>1
  <2> QED
    BY <1>2, <2>2 DEF Spelled
<1>3. CASE s[p].kind = "EXIT" /\ cells[k + 1] = EXIT
  <2>1. Cells(s, p) = 1
    BY <1>3, CellsOf
  <2>2. others[k + 1] = cells[k + 1]
    BY <2>1
  <2> QED
    BY <1>3, <2>2 DEF Spelled
<1>4. CASE s[p].kind = "THEN"
  BY <1>4 DEF Spelled
<1>5. CASE /\ s[p].kind = "S\""
           /\ cells[k + 1] = LITSTRING
           /\ cells[k + 2] = Len(TextAt(s, p))
           /\ \A j \in 1 .. litstring_payload_cells(Len(TextAt(s, p))) :
                cells[k + 2 + j] = pack_inline_payload(TextAt(s, p))[j]
  <2>1. PICK m \in Nat : m = litstring_payload_cells(Len(TextAt(s, p))) /\ Cells(s, p) = 2 + m
    <3>1. Closing(s, p + 1) # 0
      BY <1>5, Zenon DEF GoodWord
    <3>2. PICK m \in Nat : m = litstring_payload_cells(Len(TextAt(s, p)))
      BY <3>1, TextType
    <3>3. Cells(s, p) = 2 + litstring_payload_cells(Len(TextAt(s, p)))
      BY <1>5, StringCellsOf, Zenon
    <3> QED
      BY <3>2, <3>3
  <2>2. others[k + 1] = cells[k + 1] /\ others[k + 2] = cells[k + 2]
    BY <2>1
  <2>3. ASSUME NEW j \in 1 .. m
        PROVE  others[k + 2 + j] = cells[k + 2 + j]
    <3>1. 2 + j \in 1 .. Cells(s, p) /\ k + 2 + j = k + (2 + j)
      BY <2>1
    <3> QED
      BY <3>1
  <2>4. \A j \in 1 .. m : others[k + 2 + j] = pack_inline_payload(TextAt(s, p))[j]
    BY <1>5, <2>1, <2>3, Zenon
  <2> QED
    BY <1>5, <2>1, <2>2, <2>4, Zenon DEF Spelled
<1>6. CASE /\ s[p].kind = "IF"
           /\ cells[k + 1] = ZBRANCH
           /\ \/ k + 1 \in open
              \/ /\ Match(s, p) \in WordPositions(s)
                 /\ k + 2 + cells[k + 2] = CellsBefore(s, Match(s, p))
  <2>1. Cells(s, p) = 2
    BY <1>6, CellsOf
  <2>2. others[k + 1] = cells[k + 1] /\ others[k + 2] = cells[k + 2]
    BY <2>1
  <2> QED
    BY <1>6, <2>2, Zenon DEF Spelled
<1> QED
  BY <1>1, <1>2, <1>3, <1>4, <1>5, <1>6, Zenon DEF Spelled

\* The word at c opens, or closes, one more since any word before it.
LEMMA OpenOneMore ==
  ASSUME NEW s, Len(s) \in Nat, NEW c \in WordPositions(s), NEW p \in Nat, p <= c
  PROVE  /\ Open(s, p, c - 1) \in Int
         /\ Open(s, p, c) = Open(s, p, c - 1) + Opens(s, c)
<1>1. PICK P \in SUBSET (1 .. Len(s)) : P = WordPositions(s)
  BY WordFacts
<1>2. PICK S : S = P \cap (p .. c - 1)
  OBVIOUS
<1>3. P \cap (p .. c) = S \cup {c} /\ c \notin S
  BY <1>1, <1>2
<1>4. IsFiniteSet(S)
  <2>1. IsFiniteSet(1 .. Len(s))
    BY FS_Interval
  <2>2. S \subseteq 1 .. Len(s)
    BY <1>1, <1>2
  <2> QED
    BY <2>1, <2>2, FS_Subset
<1>5. PICK i \in Nat, t \in Nat : i = Count(s, S, "IF") /\ t = Count(s, S, "THEN")
  BY <1>3, <1>4, CountOneMore
<1>6. Open(s, p, c - 1) = i - t
  BY <1>1, <1>2, <1>5 DEF Open
<1>7. Open(s, p, c) = Count(s, S \cup {c}, "IF") - Count(s, S \cup {c}, "THEN")
  BY <1>1, <1>3 DEF Open
<1>8. /\ Count(s, S \cup {c}, "IF") = i + (IF s[c].kind = "IF" THEN 1 ELSE 0)
      /\ Count(s, S \cup {c}, "THEN") = t + (IF s[c].kind = "THEN" THEN 1 ELSE 0)
  BY <1>3, <1>4, <1>5, CountOneMore
<1> QED
  BY <1>6, <1>7, <1>8 DEF Opens

\* Nothing is open between a word and itself.
LEMMA OpenNone ==
  ASSUME NEW s, NEW c \in Nat
  PROVE  Open(s, c, c - 1) = 0
<1>1. WordPositions(s) \cap (c .. c - 1) = {}
  OBVIOUS
<1>2. \A kind : {p \in {} : s[p].kind = kind} = {}
  OBVIOUS
<1>3. \A kind : Count(s, {}, kind) = 0
  BY <1>2, FS_EmptySet DEF Count
<1> QED
  BY <1>1, <1>3 DEF Open

\* Between a word and the next nothing opens or closes.
LEMMA OpenToNext ==
  ASSUME NEW s \in Sources, NEW c, NEW open, CursorAt(s, c, open), c <= Len(s), NEW p \in Nat
  PROVE  Open(s, p, After(s, c) - 1) = Open(s, p, c)
<1>1. PICK P \in SUBSET (1 .. Len(s)) : P = WordPositions(s)
  BY SourcesAssumption, WordFacts
<1>2. PICK d \in Int : d = After(s, c)
  BY WordsBefore
<1>3. c \in Int /\ \A x \in P : x < d <=> x < c \/ x = c
  BY <1>1, <1>2, WordsBefore
<1>4. P \cap (p .. d - 1) = P \cap (p .. c)
  BY <1>1, <1>2, <1>3
<1> QED
  BY <1>1, <1>2, <1>4 DEF Open

\* What a word does to the number of open IFs is a number.
LEMMA OpensType ==
  ASSUME NEW s, NEW c
  PROVE  /\ Opens(s, c) \in Int
         /\ s[c].kind = "IF" => Opens(s, c) = 1
         /\ s[c].kind = "THEN" => Opens(s, c) = -1
<1>1. CASE s[c].kind = "IF"
  BY <1>1 DEF Opens
<1>2. CASE s[c].kind = "THEN"
  BY <1>2 DEF Opens
<1>3. CASE s[c].kind # "IF" /\ s[c].kind # "THEN"
  BY <1>3 DEF Opens
<1> QED
  BY <1>1, <1>2, <1>3

\* The IF at p waits in cell x, n deep, when the words before c are compiled.
Waits(s, c, p, x, n) ==
  /\ p < c /\ s[p].kind = "IF" /\ x = CellsBefore(s, p) + 1
  /\ Open(s, p, c - 1) = n
  /\ \A q \in WordPositions(s) : p <= q /\ q < c => Open(s, p, q) > 0

\* An IF goes on waiting until its own THEN.
LEMMA WaitsOn ==
  ASSUME NEW s \in Sources, NEW c, NEW open, CursorAt(s, c, open), c <= Len(s),
         NEW p \in WordPositions(s), NEW x, NEW n \in Int, Waits(s, c, p, x, n),
         n + Opens(s, c) > 0
  PROVE  Waits(s, After(s, c), p, x, n + Opens(s, c))
<1>n. Len(s) \in Nat /\ WordPositions(s) \subseteq 1 .. Len(s)
  BY SourcesAssumption, WordFacts
<1>1. PICK P \in SUBSET (1 .. Len(s)) : P = WordPositions(s)
  BY <1>n
<1>2. PICK d \in Int : d = After(s, c)
  BY WordsBefore
<1>3. c \in P /\ c \in 1 .. Len(s) /\ d > c /\ \A y \in P : y < d <=> y < c \/ y = c
  BY <1>1, <1>2, WordsBefore
<1>4. p \in Nat /\ p < c /\ p < d
  BY <1>1, <1>3 DEF Waits
<1>5. PICK m \in Int : m = Opens(s, c)
  BY OpensType
<1>6. Open(s, p, c - 1) = n
  BY DEF Waits
<1>7. Open(s, p, c) = n + m
  BY <1>n, <1>1, <1>3, <1>4, <1>5, <1>6, OpenOneMore
<1>8. Open(s, p, d - 1) = n + m
  BY <1>2, <1>4, <1>7, OpenToNext
<1>9. ASSUME NEW q \in WordPositions(s), p <= q, q < d
      PROVE  Open(s, p, q) > 0
  <2>1. CASE q < c
    BY <1>9, <2>1 DEF Waits
  <2>2. CASE q = c
    BY <1>5, <1>7, <2>2
  <2> QED
    BY <1>1, <1>3, <1>9, <2>1, <2>2
<1>10. s[p].kind = "IF" /\ x = CellsBefore(s, p) + 1
  BY DEF Waits
<1> QED
  BY <1>2, <1>4, <1>5, <1>8, <1>9, <1>10 DEF Waits

\* The slots mean what they meant after a word that opens and closes nothing.
LEMMA SlotsGoOn ==
  ASSUME NEW s \in Sources, NEW c, NEW open, CursorAt(s, c, open), c <= Len(s),
         Opens(s, c) = 0, NEW sl \in Seq(Nat), SlotMeans(s, c, sl)
  PROVE  SlotMeans(s, After(s, c), sl)
<1>1. PICK d : d = After(s, c)
  OBVIOUS
<1>2. ASSUME NEW i \in 1 .. Len(sl)
      PROVE  \E p \in WordPositions(s) : Waits(s, d, p, sl[i], Len(sl) - i + 1)
  <2>1. PICK p \in WordPositions(s) : Waits(s, c, p, sl[i], Len(sl) - i + 1)
    BY DEF SlotMeans, Waits
  <2>2. PICK n \in Int : n = Len(sl) - i + 1 /\ n > 0 /\ n + 0 = n
    <3>1. PICK length \in Nat : length = Len(sl) /\ i \in 1 .. length
      OBVIOUS
    <3>2. length - i + 1 \in Int /\ length - i + 1 > 0 /\ length - i + 1 + 0 = length - i + 1
      BY <3>1
    <3> QED
      BY <3>1, <3>2
  <2>3. Waits(s, d, p, sl[i], n + 0)
    BY <1>1, <2>1, <2>2, WaitsOn
  <2> QED
    BY <2>2, <2>3
<1> QED
  BY <1>1, <1>2 DEF SlotMeans, Waits

\* A sequence with one more at its end.
LEMMA OneMoreLast ==
  ASSUME NEW sl \in Seq(Nat), NEW x \in Nat
  PROVE  \E n \in Nat, more \in Seq(Nat) :
           /\ n = Len(sl) /\ more = Append(sl, x) /\ Len(more) = n + 1
           /\ more[n + 1] = x /\ \A i \in 1 .. n : more[i] = sl[i]
<1>1. /\ Len(sl) \in Nat /\ Append(sl, x) \in Seq(Nat) /\ Len(Append(sl, x)) = Len(sl) + 1
      /\ Append(sl, x)[Len(sl) + 1] = x
      /\ \A i \in 1 .. Len(sl) : Append(sl, x)[i] = sl[i]
  OBVIOUS
<1> QED
  BY <1>1

\* After an IF there is one slot more: its own, one deep.
LEMMA SlotsOpened ==
  ASSUME NEW s \in Sources, NEW c, NEW open, CursorAt(s, c, open), c <= Len(s),
         s[c].kind = "IF", NEW sl \in Seq(Nat), SlotMeans(s, c, sl),
         NEW x \in Nat, x = CellsBefore(s, c) + 1
  PROVE  SlotMeans(s, After(s, c), Append(sl, x))
<1>1. PICK d : d = After(s, c)
  OBVIOUS
<1>2. PICK n \in Nat, more \in Seq(Nat) :
        /\ n = Len(sl) /\ more = Append(sl, x) /\ Len(more) = n + 1
        /\ more[n + 1] = x /\ \A i \in 1 .. n : more[i] = sl[i]
  BY OneMoreLast
<1>3. Opens(s, c) = 1
  BY OpensType
<1>4. ASSUME NEW i \in 1 .. n + 1
      PROVE  \E p \in WordPositions(s) : Waits(s, d, p, more[i], n + 1 - i + 1)
  <2>1. CASE i \in 1 .. n
    <3>1. PICK p \in WordPositions(s) : Waits(s, c, p, sl[i], n - i + 1)
      BY <1>2, <2>1 DEF SlotMeans, Waits
    <3>2. PICK m \in Int : m = n - i + 1 /\ m + 1 > 0 /\ m + 1 = n + 1 - i + 1
      BY <2>1
    <3>3. Waits(s, d, p, sl[i], m + 1)
      BY <1>1, <1>3, <3>1, <3>2, WaitsOn
    <3> QED
      BY <1>2, <2>1, <3>2, <3>3
  <2>2. CASE i = n + 1
    <3>1. /\ Len(s) \in Nat /\ c \in WordPositions(s) /\ c \in Nat
          /\ After(s, c) > c /\ \A y \in WordPositions(s) : y < After(s, c) <=> y < c \/ y = c
      BY WordsBefore, SourcesAssumption
    <3>2. Open(s, c, c - 1) = 0
      BY <3>1, OpenNone
    <3>3. Open(s, c, c) = 1
      BY <1>3, <3>1, <3>2, OpenOneMore
    <3>4. Open(s, c, d - 1) = 1
      BY <1>1, <3>1, <3>3, OpenToNext
    <3>5. ASSUME NEW q \in WordPositions(s), c <= q, q < d
          PROVE  Open(s, c, q) > 0
      <4>1. q \in Int
        BY <3>1, WordFacts
      <4>2. q = c
        BY <1>1, <3>1, <3>5, <4>1
      <4> QED
        BY <3>3, <4>2
    <3>6. Waits(s, d, c, x, 1)
      BY <1>1, <3>1, <3>4, <3>5 DEF Waits
    <3>7. n + 1 - i + 1 = 1 /\ more[i] = x
      BY <1>2, <2>2
    <3> QED
      BY <3>1, <3>6, <3>7
  <2> QED
    BY <2>1, <2>2
<1> QED
  BY <1>1, <1>2, <1>4 DEF SlotMeans, Waits

\* After a THEN the last slot is gone, and the others are one less deep.
LEMMA SlotsClosed ==
  ASSUME NEW s \in Sources, NEW c, NEW open, CursorAt(s, c, open), c <= Len(s),
         s[c].kind = "THEN", NEW sl \in Seq(Nat), SlotMeans(s, c, sl),
         NEW n \in Nat, Len(sl) = n + 1
  PROVE  SlotMeans(s, After(s, c), SubSeq(sl, 1, n))
<1>1. PICK d : d = After(s, c)
  OBVIOUS
<1>2. PICK less \in Seq(Nat) :
        less = SubSeq(sl, 1, n) /\ Len(less) = n /\ \A i \in 1 .. n : less[i] = sl[i]
  <2>1. PICK length \in Nat : length = Len(sl) /\ length = n + 1
    OBVIOUS
  <2>2. n \in 0 .. length
    BY <2>1
  <2>3. n \in 0 .. Len(sl)
    BY <2>1, <2>2
  <2>4. /\ SubSeq(sl, 1, n) \in Seq(Nat) /\ Len(SubSeq(sl, 1, n)) = n
        /\ \A i \in 1 .. n : SubSeq(sl, 1, n)[i] = sl[i]
    BY <2>3, FirstPart
  <2> QED
    BY <2>4
<1>3. Opens(s, c) = -1
  BY OpensType
<1>4. ASSUME NEW i \in 1 .. n
      PROVE  \E p \in WordPositions(s) : Waits(s, d, p, less[i], n - i + 1)
  <2>3. i \in 1 .. Len(sl)
    <3>1. i \in 1 .. n + 1
      OBVIOUS
    <3> QED
      BY <3>1
  <2>1. PICK p \in WordPositions(s) : Waits(s, c, p, sl[i], n + 1 - i + 1)
    <3>1. \E p \in WordPositions(s) : Waits(s, c, p, sl[i], Len(sl) - i + 1)
      BY <2>3, Zenon DEF SlotMeans, Waits
    <3> QED
      BY <3>1
  <2>2. PICK m \in Int : m = n + 1 - i + 1 /\ m + -1 > 0 /\ m + -1 = n - i + 1
    OBVIOUS
  <2>4. Waits(s, d, p, sl[i], m + -1)
    BY <1>1, <1>3, <2>1, <2>2, WaitsOn
  <2> QED
    BY <1>2, <2>2, <2>4
<1> QED
  BY <1>1, <1>2, <1>4 DEF SlotMeans, Waits

\* The THEN at c is the one of the IF that waits one deep.
LEMMA MatchFound ==
  ASSUME NEW s \in Sources, NEW c, NEW open, CursorAt(s, c, open), c <= Len(s),
         s[c].kind = "THEN", NEW p \in WordPositions(s), NEW x, Waits(s, c, p, x, 1)
  PROVE  Match(s, p) = c /\ c \in WordPositions(s)
<1>n. Len(s) \in Nat /\ WordPositions(s) \subseteq 1 .. Len(s)
  BY SourcesAssumption, WordFacts
<1>1. PICK P \in SUBSET (1 .. Len(s)) : P = WordPositions(s)
  BY <1>n
<1>2. c \in P /\ c \in Nat /\ p \in Nat /\ p < c
  BY <1>1, WordsBefore DEF Waits
<1>3. Opens(s, c) = -1
  BY OpensType
<1>4. Open(s, p, c) = 0
  <2>1. Open(s, p, c - 1) = 1
    BY DEF Waits
  <2> QED
    BY <1>n, <1>1, <1>2, <1>3, <2>1, OpenOneMore
<1> DEFINE T == {q \in WordPositions(s) : q > p /\ Open(s, p, q) = 0}
<1>5. c \in T
  BY <1>1, <1>2, <1>4
<1>6. ASSUME NEW q \in T
      PROVE  c <= q
  <2>1. q \in P /\ q > p /\ Open(s, p, q) = 0 /\ q \in Nat
    BY <1>1
  <2>2. SUFFICES ASSUME q < c PROVE FALSE
    BY <1>2, <2>1
  <2>3. p <= q
    BY <1>2, <2>1
  <2>4. Open(s, p, q) > 0
    BY <1>1, <2>1, <2>2, <2>3 DEF Waits
  <2> QED
    BY <2>1, <2>4
<1>7. T \subseteq Nat
  BY <1>1
<1>8. Match(s, p) = Min(T)
  BY Zenon DEF Match
<1> HIDE DEF T
<1>9. Min(T) \in T /\ \A y \in T : Min(T) <= y
  BY <1>5, <1>7, MinOfNaturals
<1>10. Min(T) = c
  <2>1. c \in Nat /\ Min(T) \in Nat /\ c <= Min(T) /\ Min(T) <= c
    BY <1>2, <1>5, <1>6, <1>7, <1>9
  <2> QED
    BY <2>1
<1> QED
  BY <1>1, <1>2, <1>8, <1>10

\* Nothing is said before the first word.
THEOREM InitMeaningInv == InitCompiler => MeaningInv
<1> SUFFICES ASSUME InitCompiler PROVE MeaningInv
  OBVIOUS
<1>1. LayoutInv
  BY InitLayoutInv
<1>2. source \in Sources /\ cursor = 1 /\ slots = <<>>
  BY DEF InitCompiler
<1>3. WordPositions(source) \subseteq 1 .. Len(source) /\ Len(source) \in Nat
  BY <1>2, SourcesAssumption, WordFacts
<1>4. \A p \in WordPositions(source) : ~(p < cursor)
  BY <1>2, <1>3
<1>5. SlotMeans(source, cursor, slots)
  <2>1. Len(slots) = 0
    BY <1>2
  <2> QED
    BY <2>1 DEF SlotMeans
<1> QED
  BY <1>1, <1>4, <1>5 DEF MeaningInv

\* What is known where a word is compiled.
LEMMA MeaningHere ==
  ASSUME MeaningInv, LayoutInv', compile_outcome = "compiling",
         UNCHANGED <<source, compile_outcome>>,
         cursor <= Len(source), cursor' = After(source, cursor)
  PROVE  /\ source \in Sources /\ CursorAt(source, cursor, Len(slots))
         /\ cursor \in 1 .. Len(source) /\ cursor \in WordPositions(source)
         /\ GoodWord(source, cursor) /\ emitted \in Seq(Int) /\ slots \in Seq(Nat)
         /\ IsFiniteSet(CellsUpTo(source, cursor))
         /\ Len(emitted) = CellsBefore(source, cursor) /\ Len(emitted) \in Nat
         /\ SlotMeans(source, cursor, slots)
<1>1. /\ source \in Sources /\ CursorAt(source, cursor, Len(slots))
      /\ cursor \in 1 .. Len(source) /\ GoodWord(source, cursor)
      /\ emitted \in Seq(Int) /\ slots \in Seq(Nat)
  <2>1. AcceptInv /\ AcceptInv' /\ compile_outcome' = "compiling" /\ source' = source
    BY DEF MeaningInv, LayoutInv
  <2> QED
    BY <2>1, Compiled
<1>2. cursor \in WordPositions(source)
  BY <1>1, WordsBefore
<1>3. /\ IsFiniteSet(CellsUpTo(source, cursor)) /\ Len(emitted) = CellsBefore(source, cursor)
      /\ SlotMeans(source, cursor, slots)
  BY DEF MeaningInv, LayoutInv
<1>4. Len(emitted) \in Nat
  BY <1>1
<1> QED
  BY <1>1, <1>2, <1>3, <1>4

\* Appending cells leaves the cells before them as they were.
LEMMA KeptByMore ==
  ASSUME NEW s \in Seq(Int), NEW more \in Seq(Int), NEW k \in Nat, NEW m \in Nat, k + m <= Len(s)
  PROVE  \A j \in 1 .. m : (s \o more)[k + j] = s[k + j]
<1>1. Len(s) \in Nat /\ Len(more) \in Nat
  OBVIOUS
<1>2. \A i \in 1 .. Len(s) + Len(more) :
        (s \o more)[i] = IF i <= Len(s) THEN s[i] ELSE more[i - Len(s)]
  BY ConcatProperties, Zenon
<1> QED
  BY <1>1, <1>2

\* A word that emits cells which say it.
LEMMA EmitMeaning ==
  ASSUME MeaningInv, LayoutInv', compile_outcome = "compiling",
         UNCHANGED <<source, compile_outcome>>,
         cursor <= Len(source), cursor' = After(source, cursor),
         NEW more \in Seq(Int), emitted' = emitted \o more,
         OpenSlots(slots) \subseteq OpenSlots(slots'),
         Spelled(source, cursor, emitted', OpenSlots(slots'), Len(emitted)),
         SlotMeans(source, cursor', slots')
  PROVE  MeaningInv'
<1>1. /\ source \in Sources /\ CursorAt(source, cursor, Len(slots)) /\ emitted \in Seq(Int)
      /\ IsFiniteSet(CellsUpTo(source, cursor))
      /\ Len(emitted) = CellsBefore(source, cursor) /\ Len(emitted) \in Nat
  BY MeaningHere
<1>2. \A p \in WordPositions(source) : p < cursor' => p < cursor \/ p = cursor
  BY <1>1, WordsBefore
<1>3. ASSUME NEW p \in WordPositions(source), p < cursor
      PROVE  Spelled(source, p, emitted', OpenSlots(slots'), CellsBefore(source, p))
  <2>1. /\ Cells(source, p) \in Nat /\ CellsBefore(source, p) \in Nat
        /\ CellsBefore(source, p) + Cells(source, p) <= Len(emitted)
    BY <1>1, <1>3, CellsFit
  <2>2. PICK k \in Nat, m \in Nat :
          k = CellsBefore(source, p) /\ m = Cells(source, p) /\ k + m <= Len(emitted)
    BY <2>1
  <2>3. \A j \in 1 .. m : emitted'[k + j] = emitted[k + j]
    <3>1. \A j \in 1 .. m : (emitted \o more)[k + j] = emitted[k + j]
      <4>1. emitted \in Seq(Int) /\ k + m <= Len(emitted)
        BY <1>1, <2>2, Zenon
      <4> QED
        BY <4>1, KeptByMore, Zenon
    <3> QED
      BY <3>1, Zenon
  <2>4. Spelled(source, p, emitted, OpenSlots(slots), k)
    BY <1>3, <2>2 DEF MeaningInv
  <2>5. GoodWord(source, p) /\ p \in 1 .. Len(source)
    BY <1>1, <1>3, CursorBefore
  <2>6. Spelled(source, p, emitted', OpenSlots(slots'), k)
    <3>1. k + 1 \in OpenSlots(slots) => k + 1 \in OpenSlots(slots')
      OBVIOUS
    <3> QED
      BY <1>1, <2>2, <2>3, <2>4, <2>5, <3>1, SpelledKept
  <2> QED
    BY <2>2, <2>6
<1>4. \A p \in WordPositions(source) :
        p < cursor' => Spelled(source, p, emitted', OpenSlots(slots'), CellsBefore(source, p))
  BY <1>1, <1>2, <1>3
<1>5. source' = source
  OBVIOUS
<1> QED
  BY <1>4, <1>5 DEF MeaningInv

\* The end of a compilation says nothing new.
LEMMA EndMeaning ==
  ASSUME MeaningInv, LayoutInv', NEW why, EndWith(why), compile_outcome = "compiling"
  PROVE  MeaningInv'
<1>1. UNCHANGED <<source, cursor, emitted, slots>>
  BY DEF EndWith
<1>2. /\ \A p \in WordPositions(source) :
           p < cursor => Spelled(source, p, emitted, OpenSlots(slots), CellsBefore(source, p))
      /\ SlotMeans(source, cursor, slots)
  BY DEF MeaningInv
<1>3. PICK s, c, cells, sl : s = source /\ c = cursor /\ cells = emitted /\ sl = slots
  OBVIOUS
<1>4. s = source' /\ c = cursor' /\ cells = emitted' /\ sl = slots'
  BY <1>1, <1>3
<1> QED
  BY <1>2, <1>3, <1>4 DEF MeaningInv

\* A single cell.
LEMMA OneCell ==
  ASSUME NEW a \in Int
  PROVE  \E more \in Seq(Int) : more = <<a>> /\ Len(more) = 1 /\ more[1] = a
<1>1. <<a>> \in Seq(Int) /\ Len(<<a>>) = 1 /\ <<a>>[1] = a
  OBVIOUS
<1> QED
  BY <1>1

\* An instruction and its operand.
LEMMA TwoCells ==
  ASSUME NEW a \in Int, NEW b \in Int
  PROVE  \E more \in Seq(Int) : more = <<a, b>> /\ Len(more) = 2 /\ more[1] = a /\ more[2] = b
<1>1. <<a, b>> \in Seq(Int) /\ Len(<<a, b>>) = 2 /\ <<a, b>>[1] = a /\ <<a, b>>[2] = b
  OBVIOUS
<1> QED
  BY <1>1

\* + and EXIT.
LEMMA PlainMeaning ==
  ASSUME MeaningInv, LayoutInv', compile_plus \/ compile_exit
  PROVE  MeaningInv'
<1>1. PICK word \in {ADD, EXIT} :
        /\ emitted' = emitted \o <<word>>
        /\ \/ source[cursor].kind = "+" /\ word = ADD
           \/ source[cursor].kind = "EXIT" /\ word = EXIT
  BY DEF compile_plus, compile_exit, Emit, Token
<1>2. /\ compile_outcome = "compiling" /\ cursor <= Len(source)
      /\ source[cursor].kind \in {"+", "EXIT"}
      /\ cursor' = cursor + 1 /\ UNCHANGED <<source, slots, compile_outcome>>
  BY DEF compile_plus, compile_exit, Token, Emit
<1>3. cursor' = After(source, cursor)
  <2>1. source[cursor].kind \notin {"LIT", "S\""}
    BY <1>2
  <2> QED
    BY <1>2, <2>1, AfterWord
<1>4. /\ source \in Sources /\ CursorAt(source, cursor, Len(slots)) /\ emitted \in Seq(Int)
      /\ slots \in Seq(Nat) /\ SlotMeans(source, cursor, slots)
  BY <1>2, <1>3, MeaningHere
<1>5. PICK more \in Seq(Int) : more = <<word>> /\ Len(more) = 1 /\ more[1] = word
  <2>1. word \in Int
    BY DEF ADD, EXIT
  <2> QED
    BY <2>1, OneCell
<1>6. emitted' = emitted \o more /\ emitted'[Len(emitted) + 1] = word
  BY <1>1, <1>4, <1>5, GrownCells
<1>7. Spelled(source, cursor, emitted', OpenSlots(slots'), Len(emitted))
  BY <1>1, <1>6 DEF Spelled
<1>8. SlotMeans(source, cursor', slots')
  <2>1. Opens(source, cursor) = 0
    BY <1>2 DEF Opens
  <2>2. SlotMeans(source, After(source, cursor), slots)
    BY <1>2, <1>4, <2>1, SlotsGoOn
  <2> QED
    BY <1>2, <1>3, <2>2
<1> QED
  BY <1>2, <1>3, <1>6, <1>7, <1>8, EmitMeaning

\* LIT.
LEMMA LitMeaning ==
  ASSUME MeaningInv, LayoutInv', compile_lit
  PROVE  MeaningInv'
<1>1. compile_outcome = "compiling" /\ cursor <= Len(source) /\ source[cursor].kind = "LIT"
  BY DEF compile_lit, Token
<1>2. CASE cursor = Len(source) \/ source[cursor + 1].kind # "number"
  BY <1>1, <1>2, EndMeaning DEF compile_lit
<1>3. CASE ~(cursor = Len(source) \/ source[cursor + 1].kind # "number")
  <2>1. /\ emitted' = emitted \o <<LIT, source[cursor + 1].value>>
        /\ cursor' = cursor + 2 /\ UNCHANGED <<source, slots, compile_outcome>>
    BY <1>3 DEF compile_lit, Emit
  <2>2. cursor' = After(source, cursor)
    BY <1>1, <2>1, AfterWord
  <2>3. /\ source \in Sources /\ CursorAt(source, cursor, Len(slots)) /\ emitted \in Seq(Int)
        /\ slots \in Seq(Nat) /\ SlotMeans(source, cursor, slots)
        /\ GoodWord(source, cursor) /\ cursor \in 1 .. Len(source)
    BY <1>1, <2>1, <2>2, MeaningHere
  <2>4. PICK v \in Int : v = source[cursor + 1].value
    <3>1. source \in Seq([kind : STRING, value : Int, octets : Seq(0 .. ByteValues - 1)])
      BY <2>3, SourcesAssumption
    <3>2. cursor + 1 \in 1 .. Len(source)
      BY <1>1, <2>3, <3>1 DEF GoodWord
    <3>3. source[cursor + 1] \in [kind : STRING, value : Int, octets : Seq(0 .. ByteValues - 1)]
      BY <3>1, <3>2, ElementOfSeq, Zenon
    <3> QED
      BY <3>3
  <2>5. PICK more \in Seq(Int) :
          more = <<LIT, v>> /\ Len(more) = 2 /\ more[1] = LIT /\ more[2] = v
    <3>1. LIT \in Int
      BY DEF LIT
    <3> QED
      BY <3>1, TwoCells
  <2>6. emitted' = emitted \o more
    BY <2>1, <2>4, <2>5
  <2>7. emitted'[Len(emitted) + 1] = LIT /\ emitted'[Len(emitted) + 2] = v
    BY <2>3, <2>5, <2>6, GrownCells
  <2>8. Spelled(source, cursor, emitted', OpenSlots(slots'), Len(emitted))
    BY <1>1, <2>4, <2>7 DEF Spelled
  <2>9. SlotMeans(source, cursor', slots')
    <3>1. Opens(source, cursor) = 0
      BY <1>1 DEF Opens
    <3>2. SlotMeans(source, After(source, cursor), slots)
      BY <1>1, <2>3, <3>1, SlotsGoOn
    <3> QED
      BY <2>1, <2>2, <3>2
  <2>10. OpenSlots(slots) \subseteq OpenSlots(slots')
    BY <2>1
  <2> QED
    BY <1>1, <2>1, <2>2, <2>6, <2>8, <2>9, <2>10, EmitMeaning
<1> QED
  BY <1>2, <1>3

\* IF.
LEMMA IfMeaning ==
  ASSUME MeaningInv, LayoutInv', handle_if
  PROVE  MeaningInv'
<1>1. /\ compile_outcome = "compiling" /\ cursor <= Len(source) /\ source[cursor].kind = "IF"
      /\ emitted' = emitted \o <<ZBRANCH, 0>> /\ slots' = Append(slots, Len(emitted) + 1)
      /\ cursor' = cursor + 1 /\ UNCHANGED <<source, compile_outcome>>
  BY DEF handle_if, Token, Emit
<1>2. cursor' = After(source, cursor)
  <2>1. source[cursor].kind # "LIT" /\ source[cursor].kind # "S\""
    BY <1>1
  <2> QED
    BY <1>1, <2>1, AfterWord
<1>3. /\ source \in Sources /\ CursorAt(source, cursor, Len(slots)) /\ emitted \in Seq(Int)
      /\ slots \in Seq(Nat) /\ SlotMeans(source, cursor, slots)
      /\ Len(emitted) = CellsBefore(source, cursor) /\ Len(emitted) \in Nat
  BY <1>1, <1>2, MeaningHere
<1>4. PICK more \in Seq(Int) : more = <<ZBRANCH, 0>> /\ Len(more) = 2 /\ more[1] = ZBRANCH
  <2>1. ZBRANCH \in Int /\ 0 \in Int
    BY DEF ZBRANCH
  <2> QED
    BY <2>1, TwoCells
<1>5. emitted' = emitted \o more /\ emitted'[Len(emitted) + 1] = ZBRANCH
  <2>1. emitted' = emitted \o more
    BY <1>1, <1>4
  <2>2. 1 \in 1 .. Len(more)
    BY <1>4
  <2>3. (emitted \o more)[Len(emitted) + 1] = more[1]
    BY <1>3, <2>2, GrownCells
  <2> QED
    BY <1>4, <2>1, <2>3
<1>6. PICK x \in Nat : x = Len(emitted) + 1
  BY <1>3
<1>7. slots' = Append(slots, x)
  BY <1>1, <1>6
<1>8. OpenSlots(slots) \subseteq OpenSlots(slots') /\ x \in OpenSlots(slots')
  <2>1. PICK n \in Nat, sl \in Seq(Nat) :
          /\ n = Len(slots) /\ sl = Append(slots, x) /\ Len(sl) = n + 1
          /\ sl[n + 1] = x /\ \A i \in 1 .. n : sl[i] = slots[i]
    BY <1>3, OneMoreLast
  <2>2. slots' = sl /\ n + 1 \in 1 .. n + 1 /\ \A i \in 1 .. n : i \in 1 .. n + 1
    BY <1>7, <2>1
  <2>3. \A i \in 1 .. n : slots[i] \in OpenSlots(sl)
    BY <2>1, <2>2 DEF OpenSlots
  <2>4. OpenSlots(slots) \subseteq OpenSlots(sl)
    BY <2>1, <2>3 DEF OpenSlots
  <2>5. x \in OpenSlots(sl)
    BY <2>1, <2>2 DEF OpenSlots
  <2> QED
    BY <2>2, <2>4, <2>5
<1>9. Spelled(source, cursor, emitted', OpenSlots(slots'), Len(emitted))
  BY <1>1, <1>5, <1>6, <1>8 DEF Spelled
<1>10. SlotMeans(source, cursor', slots')
  <2>1. x = CellsBefore(source, cursor) + 1
    BY <1>3, <1>6
  <2>2. SlotMeans(source, After(source, cursor), Append(slots, x))
    BY <1>1, <1>3, <2>1, SlotsOpened
  <2> QED
    BY <1>2, <1>7, <2>2
<1> QED
  BY <1>1, <1>2, <1>5, <1>8, <1>9, <1>10, EmitMeaning

\* S".
LEMMA QuoteMeaning ==
  ASSUME MeaningInv, LayoutInv', handle_s_quote
  PROVE  MeaningInv'
<1>1. compile_outcome = "compiling" /\ cursor <= Len(source) /\ source[cursor].kind = "S\""
  BY DEF handle_s_quote, Token
<1>2. PICK closing : closing = Closing(source, cursor + 1)
  OBVIOUS
<1>3. CASE closing = 0
  BY <1>1, <1>2, <1>3, EndMeaning DEF handle_s_quote
<1>4. CASE closing # 0
  <2>1. /\ emitted' = emitted \o StringCells(TextAt(source, cursor))
        /\ cursor' = closing + 1 /\ UNCHANGED <<source, slots, compile_outcome>>
    BY <1>2, <1>4 DEF handle_s_quote, Emit, TextAt
  <2>2. cursor' = After(source, cursor)
    BY <1>1, <1>2, <1>4, <2>1, AfterWord
  <2>3. /\ source \in Sources /\ CursorAt(source, cursor, Len(slots)) /\ emitted \in Seq(Int)
        /\ slots \in Seq(Nat) /\ SlotMeans(source, cursor, slots)
        /\ cursor \in 1 .. Len(source) /\ Len(emitted) \in Nat
    BY <1>1, <2>1, <2>2, MeaningHere
  <2>4. PICK text \in Seq(0 .. ByteValues - 1) : text = TextAt(source, cursor)
    BY <1>2, <1>4, <2>3, TextType
  <2>5. PICK packed \in Seq(Int), m \in Nat :
          /\ packed = pack_inline_payload(text)
          /\ m = litstring_payload_cells(Len(text)) /\ m = Len(packed)
    BY PackedType
  <2>6. PICK length \in Nat : length = Len(text)
    OBVIOUS
  <2>7. PICK more \in Seq(Int) :
          /\ more = <<LITSTRING, length>> \o packed /\ Len(more) = 2 + m
          /\ more[1] = LITSTRING /\ more[2] = length
          /\ \A j \in 1 .. m : more[2 + j] = packed[j]
    <3>1. LITSTRING \in Int
      BY DEF LITSTRING
    <3>2. PICK two \in Seq(Int) :
            two = <<LITSTRING, length>> /\ Len(two) = 2 /\ two[1] = LITSTRING /\ two[2] = length
      <4>1. length \in Int
        OBVIOUS
      <4>2. /\ <<LITSTRING, length>> \in Seq(Int) /\ Len(<<LITSTRING, length>>) = 2
            /\ <<LITSTRING, length>>[1] = LITSTRING /\ <<LITSTRING, length>>[2] = length
        BY <3>1, <4>1, TwoCells
      <4> QED
        BY <4>2
    <3>3. /\ two \o packed \in Seq(Int) /\ Len(two \o packed) = 2 + m
          /\ (two \o packed)[1] = LITSTRING /\ (two \o packed)[2] = length
          /\ \A j \in 1 .. m : (two \o packed)[2 + j] = packed[j]
      BY <2>5, <3>2
    <3> QED
      BY <3>2, <3>3
  <2>8. emitted' = emitted \o more
    BY <2>1, <2>4, <2>5, <2>6, <2>7 DEF StringCells
  <2>9. PICK k \in Nat : k = Len(emitted)
    BY <2>3
  <2>10. \A j \in 1 .. 2 + m : emitted'[k + j] = more[j]
    <3>1. \A j \in 1 .. Len(more) : emitted'[k + j] = more[j]
      BY <2>3, <2>8, <2>9, GrownCells
    <3> QED
      BY <2>7, <3>1
  <2>11. emitted'[k + 1] = LITSTRING /\ emitted'[k + 2] = length
    BY <2>7, <2>10
  <2>12. ASSUME NEW j \in 1 .. m
         PROVE  emitted'[k + 2 + j] = packed[j]
    <3>1. 2 + j \in 1 .. 2 + m /\ k + 2 + j = k + (2 + j)
      OBVIOUS
    <3> QED
      BY <2>7, <2>10, <3>1
  <2>13. Spelled(source, cursor, emitted', OpenSlots(slots'), k)
    BY <1>1, <2>4, <2>5, <2>6, <2>11, <2>12, Zenon DEF Spelled
  <2>14. Spelled(source, cursor, emitted', OpenSlots(slots'), Len(emitted))
    BY <2>9, <2>13, Zenon
  <2>15. SlotMeans(source, cursor', slots')
    <3>1. Opens(source, cursor) = 0
      <4>1. "S\"" # "IF" /\ "S\"" # "THEN"
        OBVIOUS
      <4>2. source[cursor].kind # "IF" /\ source[cursor].kind # "THEN"
        BY <1>1, <4>1, Zenon
      <4> QED
        BY <4>2 DEF Opens
    <3>2. SlotMeans(source, After(source, cursor), slots)
      <4>1. cursor <= Len(source)
        BY <1>1, Zenon
      <4> QED
        BY <2>3, <3>1, <4>1, SlotsGoOn
    <3> QED
      BY <2>1, <2>2, <3>2
  <2>16. OpenSlots(slots) \subseteq OpenSlots(slots')
    BY <2>1
  <2>17. compile_outcome = "compiling" /\ cursor <= Len(source)
    BY <1>1, Zenon
  <2> QED
    BY <2>1, <2>2, <2>8, <2>14, <2>15, <2>16, <2>17, EmitMeaning
<1> QED
  BY <1>3, <1>4

\* A word apart from the cells at k0 is not at the operand there.
LEMMA ApartCells ==
  ASSUME NEW k \in Nat, NEW m \in Nat, NEW n \in Nat, NEW k0 \in Nat, k + m <= n,
         k + m <= k0 \/ k0 + 2 <= k, NEW j \in 1 .. m
  PROVE  k + j \in 1 .. n /\ k + j # k0 + 2
  OBVIOUS

\* THEN gives the last open IF its branch, and changes nothing else.
LEMMA ThenMeaning ==
  ASSUME MeaningInv, LayoutInv', handle_then
  PROVE  MeaningInv'
<1>1. compile_outcome = "compiling" /\ cursor <= Len(source) /\ source[cursor].kind = "THEN"
  BY DEF handle_then, Token
<1>2. CASE slots = <<>>
  BY <1>1, <1>2, EndMeaning DEF handle_then
<1>3. CASE slots # <<>>
  <2>1. slots \in Seq(Nat) /\ emitted \in Seq(Int) /\ SlotsReserved
    BY DEF MeaningInv, LayoutInv, AcceptInv, CompilerInv, CompilerTypeOK
  <2>2. PICK n \in Nat : Len(slots) = n + 1
    <3>1. Len(slots) - 1 \in Nat /\ Len(slots) = Len(slots) - 1 + 1
      BY <1>3, <2>1
    <3> QED
      BY <3>1
  <2>3. n + 1 \in 1 .. Len(slots)
    BY <2>2
  <2>4. PICK operand \in 1 .. Len(emitted) - 1 :
          operand = slots[n + 1] /\ emitted[operand] = ZBRANCH
    <3>1. slots[n + 1] \in 1 .. Len(emitted) - 1 /\ emitted[slots[n + 1]] = ZBRANCH
      BY <2>1, <2>3 DEF SlotsReserved
    <3> QED
      BY <3>1
  <2>5. /\ emitted' = [emitted EXCEPT ![operand + 1] = Len(emitted) - operand - 1]
        /\ slots' = SubSeq(slots, 1, n)
        /\ cursor' = cursor + 1 /\ UNCHANGED <<source, compile_outcome>>
    <3>1. Last(slots) = operand /\ Front(slots) = SubSeq(slots, 1, n)
      <4>1. Len(slots) - 1 = n
        BY <2>2
      <4> QED
        BY <2>2, <2>4, <4>1 DEF Last, Front
    <3> QED
      BY <1>3, <3>1 DEF handle_then, Patch
  <2>6. cursor' = After(source, cursor)
    <3>1. source[cursor].kind # "LIT" /\ source[cursor].kind # "S\""
      BY <1>1
    <3> QED
      BY <2>5, <3>1, AfterWord
  <2>7. /\ source \in Sources /\ CursorAt(source, cursor, Len(slots))
        /\ cursor \in WordPositions(source)
        /\ IsFiniteSet(CellsUpTo(source, cursor))
        /\ Len(emitted) = CellsBefore(source, cursor) /\ Len(emitted) \in Nat
        /\ SlotMeans(source, cursor, slots)
    BY <1>1, <2>5, <2>6, MeaningHere
  <2>8. OpenSlots(slots') = OpenSlots(slots) \ {operand}
    <3>1. \A i, j \in 1 .. Len(slots) : i < j => slots[i] + 1 < slots[j]
      BY <2>1 DEF SlotsReserved
    <3> QED
      BY <2>1, <2>2, <2>4, <2>5, <3>1, SlotClosed
  <2>9. /\ \A j \in 1 .. Len(emitted) : j # operand + 1 => emitted'[j] = emitted[j]
        /\ emitted'[operand + 1] = Len(emitted) - operand - 1
    <3>1. operand + 1 \in 1 .. Len(emitted)
      <4>1. Len(emitted) \in Nat
        BY <2>1
      <4> QED
        BY <4>1, SlotCells, Zenon
    <3> QED
      BY <2>1, <2>5, <3>1, PatchedCells
  <2>10. PICK if \in WordPositions(source) : Waits(source, cursor, if, operand, 1)
    <3>1. \E p \in WordPositions(source) :
            Waits(source, cursor, p, slots[n + 1], Len(slots) - (n + 1) + 1)
      BY <2>3, <2>7, Zenon DEF SlotMeans, Waits
    <3>2. Len(slots) - (n + 1) + 1 = 1
      BY <2>2
    <3> QED
      BY <2>4, <3>1, <3>2
  <2>11. Match(source, if) = cursor
    BY <1>1, <2>7, <2>10, MatchFound
  <2>12. if < cursor /\ source[if].kind = "IF" /\ operand = CellsBefore(source, if) + 1
    BY <2>10 DEF Waits
  <2>13. PICK k0 \in Nat : k0 = CellsBefore(source, if) /\ k0 + 2 <= Len(emitted)
    <3>1. Cells(source, if) = 2
      BY <2>12, CellsOf
    <3> QED
      BY <2>7, <2>12, <3>1, CellsFit
  <2>14. operand = k0 + 1 /\ operand + 1 = k0 + 2
    BY <2>12, <2>13
  <2>15. Spelled(source, if, emitted', OpenSlots(slots'), k0)
    <3>1. emitted'[k0 + 1] = ZBRANCH
      <4>1. k0 + 1 \in 1 .. Len(emitted) /\ k0 + 1 # operand + 1
        BY <2>7, <2>13, <2>14
      <4>2. emitted'[k0 + 1] = emitted[k0 + 1]
        BY <2>9, <4>1
      <4> QED
        BY <2>4, <2>14, <4>2
    <3>2. k0 + 2 + emitted'[k0 + 2] = CellsBefore(source, cursor)
      <4>1. PICK length \in Nat : length = Len(emitted) /\ length = CellsBefore(source, cursor)
        BY <2>7
      <4>2. emitted'[k0 + 2] = length - (k0 + 1) - 1
        BY <2>9, <2>14, <4>1
      <4> QED
        BY <4>1, <4>2
    <3> QED
      BY <2>7, <2>11, <2>12, <3>1, <3>2, Zenon DEF Spelled
  <2>16. ASSUME NEW p \in WordPositions(source), p < cursor, p # if
         PROVE  Spelled(source, p, emitted', OpenSlots(slots'), CellsBefore(source, p))
    <3>1. PICK k \in Nat, m \in Nat :
            k = CellsBefore(source, p) /\ m = Cells(source, p) /\ k + m <= Len(emitted)
      BY <2>7, <2>16, CellsFit
    <3>2. GoodWord(source, p) /\ p \in 1 .. Len(source)
      BY <2>7, <2>16, CursorBefore
    <3>3. Spelled(source, p, emitted, OpenSlots(slots), k)
      BY <1>1, <2>16, <3>1 DEF MeaningInv
    <3>4. k + m <= k0 \/ k0 + 2 <= k
      <4>1. if \in Int /\ p \in Int
        <5>1. if \in 1 .. Len(source)
          BY <2>7, <2>12, CursorBefore
        <5> QED
          BY <3>2, <5>1
      <4>2. CASE p < if
        <5>1. /\ CursorAt(source, if, Open(source, 1, if - 1))
              /\ IsFiniteSet(CellsUpTo(source, if))
          BY <2>7, <2>12, CursorBefore, CellsFit
        <5> QED
          BY <2>7, <2>13, <3>1, <4>2, <5>1, CellsFit
      <4>3. CASE if < p
        <5>1. /\ CursorAt(source, p, Open(source, 1, p - 1))
              /\ IsFiniteSet(CellsUpTo(source, p))
          BY <2>7, <2>16, CursorBefore, CellsFit
        <5>2. Cells(source, if) = 2
          BY <2>12, CellsOf
        <5>3. CellsBefore(source, if) + Cells(source, if) <= CellsBefore(source, p)
          BY <2>7, <4>3, <5>1, CellsFit
        <5> QED
          BY <2>13, <3>1, <5>2, <5>3
      <4> QED
        BY <2>16, <4>1, <4>2, <4>3
    <3>5. ASSUME NEW j \in 1 .. m
          PROVE  emitted'[k + j] = emitted[k + j]
      <4>1. k + j \in 1 .. Len(emitted) /\ k + j # k0 + 2
        <5>1. Len(emitted) \in Nat /\ k + m <= Len(emitted)
          BY <2>7, <3>1, Zenon
        <5> QED
          BY <3>4, <5>1, ApartCells, Zenon
      <4> QED
        BY <2>9, <2>14, <4>1
    <3>6. CASE m = 0
      <4>1. source[p].kind = "THEN"
        <5>1. SUFFICES ASSUME source[p].kind # "THEN" PROVE FALSE
          OBVIOUS
        <5>2. Cells(source, p) > 0
          BY <2>7, <3>2, <5>1, CellsPositive
        <5> QED
          BY <3>1, <3>6, <5>2
      <4> QED
        BY <4>1 DEF Spelled
    <3>7. CASE m # 0
      <4>1. k + 1 # operand
        BY <2>14, <3>1, <3>4, <3>7
      <4>2. k + 1 \in OpenSlots(slots) => k + 1 \in OpenSlots(slots')
        BY <2>8, <4>1
      <4>3. Spelled(source, p, emitted', OpenSlots(slots'), k)
        BY <2>7, <3>1, <3>2, <3>3, <3>5, <4>2, SpelledKept
      <4> QED
        BY <3>1, <4>3
    <3> QED
      BY <3>6, <3>7
  <2>17. Spelled(source, cursor, emitted', OpenSlots(slots'), CellsBefore(source, cursor))
    BY <1>1 DEF Spelled
  <2>18. ASSUME NEW p \in WordPositions(source), p < cursor'
         PROVE  Spelled(source, p, emitted', OpenSlots(slots'), CellsBefore(source, p))
    <3>1. p < cursor \/ p = cursor
      BY <1>1, <2>6, <2>7, <2>18, WordsBefore
    <3> QED
      BY <2>13, <2>15, <2>16, <2>17, <3>1
  <2>19. SlotMeans(source, cursor', slots')
    <3>1. SlotMeans(source, After(source, cursor), SubSeq(slots, 1, n))
      BY <1>1, <2>1, <2>2, <2>7, SlotsClosed
    <3> QED
      BY <2>5, <2>6, <3>1
  <2>20. source' = source
    BY <2>5
  <2> QED
    BY <2>18, <2>19, <2>20 DEF MeaningInv
<1> QED
  BY <1>2, <1>3

\* Every word of the source, and its end, keeps what the cells say.
THEOREM NextMeaningInv == MeaningInv /\ [compile_source_to_thread]_compiler_vars => MeaningInv'
<1> SUFFICES ASSUME MeaningInv, [compile_source_to_thread]_compiler_vars PROVE MeaningInv'
  OBVIOUS
<1>1. LayoutInv'
  BY NextLayoutInv DEF MeaningInv
<1>2. CASE UNCHANGED compiler_vars
  BY <1>1, <1>2 DEF compiler_vars, MeaningInv
<1>3. CASE unknown_token
  BY <1>1, <1>3, EndMeaning DEF unknown_token
<1>4. CASE finish
  BY <1>1, <1>4, EndMeaning DEF finish
<1> QED
  BY <1>1, <1>2, <1>3, <1>4, PlainMeaning, LitMeaning, QuoteMeaning, IfMeaning, ThenMeaning
     DEF compile_source_to_thread

-----------------------------------------------------------------------------
(***************************************************************************)
(* The refinement.  Its invariant joins what the cells mean, where ip is   *)
(* and what the stack holds; before the start the stack is empty.          *)
(***************************************************************************)
RunMeans ==
  /\ RunInv /\ MeaningInv
  /\ Started => LoopInv
  /\ ~Started => data_stack = <<>>

\* Nothing is emitted, and nothing runs.
THEOREM InitRunMeans == Init => RunMeans
  BY InitRunInv, InitMeaningInv DEF Init, RunMeans, Started

\* Compiling, starting and running all keep it.
THEOREM NextRunMeans == RunMeans /\ [Next]_vars => RunMeans'
<1> SUFFICES ASSUME RunMeans, [Next]_vars PROVE RunMeans'
  OBVIOUS
<1>1. RunInv'
  BY NextRunInv DEF RunMeans
<1>2. MeaningInv'
  <2>1. [compile_source_to_thread]_compiler_vars
    BY DEF Next, vars, Compile, Start, Step
  <2> QED
    BY <2>1, NextMeaningInv DEF RunMeans
<1>3. CASE Compile \/ UNCHANGED vars
  <2>1. UNCHANGED loop_vars
    BY <1>3 DEF Compile, vars
  <2>2. UNCHANGED <<outcome, data_stack, thread, ip>>
    BY <2>1 DEF loop_vars
  <2> QED
    BY <1>1, <1>2, <2>2 DEF RunMeans, Started, LoopInv, LoopTypeOK, StackWithinLimit
<1>4. CASE Start
  <2>1. /\ ~Started /\ thread' = emitted /\ outcome' = "running" /\ UNCHANGED <<ip, data_stack>>
    BY <1>4 DEF Start, Started
  <2>2. data_stack = <<>> /\ ip = 0
    BY <2>1 DEF RunMeans, RunInv
  <2>3. emitted \in Seq(Int)
    BY DEF RunMeans, RunInv, LayoutInv, AcceptInv, CompilerInv, CompilerTypeOK
  <2>4. LoopTypeOK'
    BY <2>1, <2>2, <2>3 DEF LoopTypeOK
  <2>5. StackWithinLimit'
    BY <2>1, <2>2, StackLimitAssumption DEF StackWithinLimit
  <2>6. Started'
    BY <2>1 DEF Started
  <2> QED
    BY <1>1, <1>2, <2>4, <2>5, <2>6 DEF RunMeans, LoopInv
<1>5. CASE Step
  <2>1. step_once
    BY <1>5 DEF Step
  <2>2. outcome = "running"
    BY <2>1 DEF step_once, Refuse, handle_lit, handle_litstring, handle_add, handle_branch,
                handle_zero_branch, handle_exit, Ready
  <2>3. LoopInv'
    BY <2>1, <2>2, NextLoopInv DEF RunMeans, Started
  <2>4. Started'
    BY <2>3 DEF LoopInv, LoopTypeOK, Started, Faults, Exceptions
  <2> QED
    BY <1>1, <1>2, <2>3, <2>4 DEF RunMeans
<1> QED
  BY <1>3, <1>4, <1>5 DEF Next

\* A started run is one of a compiled, well-formed source: its thread is complete.
LEMMA RunsCompiled ==
  ASSUME RunMeans, Started
  PROVE  /\ source \in Sources /\ Len(source) \in Nat /\ WellFormed(source)
         /\ compile_outcome = "compiled" /\ cursor = Len(source) + 1 /\ OpenSlots(slots) = {}
         /\ IsFiniteSet(CellsUpTo(source, Len(source) + 1))
         /\ thread = emitted /\ thread \in Seq(Int) /\ Len(thread) \in Nat
         /\ Len(thread) = CellsBefore(source, Len(source) + 1)
<1>1. RunInv /\ LayoutInv /\ AcceptInv /\ CompilerInv
  BY DEF RunMeans, RunInv, LayoutInv, AcceptInv
<1>2. compile_outcome = "compiled" /\ thread = emitted
  BY <1>1 DEF RunInv
<1>3. cursor = Len(source) + 1 /\ slots = <<>>
  BY <1>1, <1>2 DEF LayoutInv
<1>4. source \in Sources /\ Len(source) \in Nat
  BY <1>1, SourcesAssumption DEF CompilerInv
<1>5. WellFormed(source)
  BY <1>1, <1>2 DEF AcceptInv, AcceptsExactlyWellFormed
<1>6. OpenSlots(slots) = {}
  BY <1>3 DEF OpenSlots
<1>7. IsFiniteSet(CellsUpTo(source, cursor)) /\ Len(emitted) = CellsBefore(source, cursor)
  BY <1>1, <1>2 DEF LayoutInv
<1>8. emitted \in Seq(Int)
  BY <1>1 DEF CompilerInv, CompilerTypeOK
<1> QED
  BY <1>2, <1>3, <1>4, <1>5, <1>6, <1>7, <1>8

\* Where ip is the start of a place's cells, that place, past any THEN, is the position.
LEMMA PositionAt ==
  ASSUME RunMeans, Started, NEW to \in WordPositions(source) \cup {Len(source) + 1},
         ip = CellsBefore(source, to)
  PROVE  /\ position = Resume(source, to)
         /\ position \in WordPositions(source) \cup {Len(source) + 1}
         /\ position \in WordPositions(source) => source[position].kind # "THEN"
         /\ CellsBefore(source, position) = ip
<1>1. PICK r : r = Resume(source, to)
  OBVIOUS
<1>2. /\ r \in WordPositions(source) \cup {Len(source) + 1}
      /\ r \in WordPositions(source) => source[r].kind # "THEN"
      /\ CellsBefore(source, r) = CellsBefore(source, to)
      /\ Max(Places(source, CellsBefore(source, to))) = r
  BY <1>1, RunsCompiled, LastPlace
<1>3. position = r
  BY <1>2, Zenon DEF position
<1> QED
  BY <1>1, <1>2, <1>3, Zenon

\* The loop always stands at a position of the source: at the cells of a word
\* that does something, or at the end of the thread.
LEMMA StandsAt ==
  ASSUME RunMeans, Started
  PROVE  /\ position \in WordPositions(source) \cup {Len(source) + 1}
         /\ position \in WordPositions(source) => source[position].kind # "THEN"
         /\ CellsBefore(source, position) = ip
<1>1. ip \in Boundaries(source, cursor)
  BY DEF RunMeans, RunInv
<1>2. PICK to \in WordPositions(source) \cup {Len(source) + 1} : ip = CellsBefore(source, to)
  BY <1>1, Zenon DEF Boundaries
<1> QED
  BY <1>2, PositionAt, Zenon

\* The word at the position: its cells are those at ip, and all of them are there.
LEMMA StandsAtWord ==
  ASSUME RunMeans, Started, position \in WordPositions(source)
  PROVE  /\ position \in 1 .. Len(source) /\ source[position].kind # "THEN"
         /\ GoodWord(source, position)
         /\ Spelled(source, position, thread, {}, ip)
         /\ ip \in Nat /\ ip < Len(thread)
         /\ Cells(source, position) \in Nat /\ ip + Cells(source, position) <= Len(thread)
         /\ CellsBefore(source, After(source, position)) = ip + Cells(source, position)
         /\ After(source, position) \in WordPositions(source) \cup {Len(source) + 1}
<1>1. /\ source \in Sources /\ Len(source) \in Nat /\ WellFormed(source)
      /\ compile_outcome = "compiled" /\ cursor = Len(source) + 1 /\ OpenSlots(slots) = {}
      /\ IsFiniteSet(CellsUpTo(source, Len(source) + 1))
      /\ thread = emitted /\ Len(thread) = CellsBefore(source, Len(source) + 1)
  BY RunsCompiled
<1>2. PICK p \in WordPositions(source) : p = position
  OBVIOUS
<1>3. source[p].kind # "THEN" /\ CellsBefore(source, p) = ip
  BY <1>2, StandsAt, Zenon
<1>4. PICK end : end = Len(source) + 1
  OBVIOUS
<1>5. end \in WordPositions(source) \cup {Len(source) + 1}
  BY <1>4
<1>6. CursorAt(source, end, Open(source, 1, end - 1)) /\ GoodWord(source, p)
  BY <1>1, <1>5, EveryWord
<1>7. /\ p \in 1 .. Len(source)
      /\ After(source, p) \in WordPositions(source) \cup {Len(source) + 1}
  BY <1>1, <1>6, GoodWordEnds
<1>8. p < end
  BY <1>1, <1>4, <1>7
<1>9. /\ CellsBefore(source, p) \in Nat /\ Cells(source, p) \in Nat
      /\ CellsBefore(source, After(source, p)) = CellsBefore(source, p) + Cells(source, p)
      /\ CellsBefore(source, p) + Cells(source, p) <= Len(thread)
  BY <1>1, <1>4, <1>6, <1>8, CellsFit
<1>10. Cells(source, p) > 0
  BY <1>1, <1>3, <1>6, <1>7, CellsPositive
<1>11. Len(thread) \in Nat
  BY RunsCompiled
<1>12. ip \in Nat /\ ip < Len(thread)
  BY <1>3, <1>9, <1>10, <1>11
<1>13. Spelled(source, p, thread, {}, ip)
  <2>1. p < cursor
    BY <1>1, <1>4, <1>8
  <2>2. Spelled(source, p, emitted, OpenSlots(slots), CellsBefore(source, p))
    BY <1>1, <2>1, Zenon DEF RunMeans, MeaningInv
  <2> QED
    BY <1>1, <1>3, <2>2, Zenon
<1> QED
  BY <1>2, <1>3, <1>6, <1>7, <1>9, <1>12, <1>13, Zenon

\* At the end of the source there is no cell left, and before it there is.
LEMMA StandsAtEnd ==
  ASSUME RunMeans, Started
  PROVE  /\ Len(source) \in Nat /\ Len(thread) \in Nat /\ ip \in Nat
         /\ position > Len(source) <=> ip >= Len(thread)
         /\ position <= Len(source) <=> position \in WordPositions(source)
<1>1. /\ Len(source) \in Nat /\ Len(thread) \in Nat
      /\ Len(thread) = CellsBefore(source, Len(source) + 1)
  BY RunsCompiled
<1>2. CASE position \in WordPositions(source)
  <2>1. position \in 1 .. Len(source) /\ ip \in Nat /\ ip < Len(thread)
    BY <1>2, StandsAtWord
  <2> QED
    BY <1>1, <1>2, <2>1
<1>3. CASE position = Len(source) + 1
  <2>1. ip = Len(thread)
    BY <1>1, <1>3, StandsAt
  <2>2. position \notin WordPositions(source)
    <3>1. WordPositions(source) \subseteq 1 .. Len(source)
      BY <1>1, WordFacts
    <3> QED
      BY <1>1, <1>3, <3>1
  <2> QED
    BY <1>1, <1>3, <2>1, <2>2
<1> QED
  BY <1>2, <1>3, StandsAt

\* A running loop is a running source, and its steps leave the compilation alone.
LEMMA RunsSource ==
  ASSUME RunMeans, outcome = "running"
  PROVE  Started /\ compile_outcome = "compiled" /\ source_outcome = "running"
         /\ Source!WellFormed(source)
<1>1. Started
  BY DEF Started
<1>2. compile_outcome = "compiled" /\ WellFormed(source)
  BY <1>1, RunsCompiled
<1>3. source_outcome = "running"
  BY <1>1, <1>2 DEF source_outcome
<1> QED
  BY <1>1, <1>2, <1>3, SameReading

\* The outcome of the source is the loop's, once it runs.
LEMMA SourceOutcomeNext ==
  ASSUME RunMeans, outcome = "running", UNCHANGED compiler_vars, outcome' # "idle"
  PROVE  source_outcome' = outcome' /\ UNCHANGED source
<1>1. compile_outcome' = "compiled" /\ UNCHANGED source
  BY RunsSource DEF compiler_vars
<1>2. Started'
  BY DEF Started
<1> QED
  BY <1>1, <1>2 DEF source_outcome

\* A step that goes on at a place of the source proceeds to it, past any THEN.
LEMMA ProceedsTo ==
  ASSUME RunMeans, RunMeans', outcome = "running", outcome' = "running",
         UNCHANGED compiler_vars,
         NEW to \in WordPositions(source) \cup {Len(source) + 1},
         ip' = CellsBefore(source, to),
         NEW new_stack, data_stack' = new_stack
  PROVE  Source!Proceed(to, new_stack)
<1>1. source_outcome = "running" /\ source_outcome' = "running" /\ UNCHANGED source
  BY RunsSource, SourceOutcomeNext
<1>2. PICK s : s = source
  OBVIOUS
<1>3. source' = s
  BY <1>1, <1>2
<1>4. s \in Sources /\ WellFormed(s) /\ IsFiniteSet(CellsUpTo(s, Len(s) + 1))
  BY <1>2, RunsSource, RunsCompiled
<1>5. PICK r : r = Resume(s, to)
  OBVIOUS
<1>6. Max(Places(s, CellsBefore(s, to))) = r
  BY <1>2, <1>4, <1>5, LastPlace
<1>7. Started'
  BY DEF Started
<1>8. position' = r
  <2>1. ip' = CellsBefore(s, to)
    BY <1>2
  <2> QED
    BY <1>3, <1>6, <1>7, <2>1, Zenon DEF position
<1>9. Source!Resume(source, to) = r
  BY <1>2, <1>5, SameReading
<1> QED
  BY <1>1, <1>8, <1>9 DEF Source!Proceed

\* A step that stops where it is stops the source.
LEMMA StopsSource ==
  ASSUME RunMeans, outcome = "running", UNCHANGED compiler_vars,
         NEW why, why # "idle", Raise(why)
  PROVE  Source!Stop(why)
<1>1. outcome' = why /\ UNCHANGED <<ip, data_stack>>
  BY DEF Raise
<1>2. source_outcome' = why /\ UNCHANGED source
  BY <1>1, SourceOutcomeNext
<1>3. Started /\ Started'
  BY <1>1, RunsSource DEF Started
<1>4. position' = position
  BY <1>1, <1>2, <1>3 DEF position
<1> QED
  BY <1>1, <1>2, <1>4 DEF Source!Stop

\* The instruction of a word that does something.
Instructs(kind, h) ==
  \/ kind = "LIT" /\ h = LIT
  \/ kind = "+" /\ h = ADD
  \/ kind = "EXIT" /\ h = EXIT
  \/ kind = "S\"" /\ h = LITSTRING
  \/ kind = "IF" /\ h = ZBRANCH

\* What a word takes and the room it asks for are its instruction's requirements.
LEMMA SameDemands ==
  ASSUME NEW kind, NEW h, Instructs(kind, h)
  PROVE  /\ Source!Takes(kind) = Requirements(h).data_in
         /\ Source!Room(kind) = Requirements(h).data_out
         /\ Source!Takes(kind) \in Nat /\ Source!Room(kind) \in Nat
<1>1. /\ Requirements(LIT).data_in = 0 /\ Requirements(LIT).data_out = 1
      /\ Requirements(ADD).data_in = 2 /\ Requirements(ADD).data_out = 1
      /\ Requirements(EXIT).data_in = 0 /\ Requirements(EXIT).data_out = 0
      /\ Requirements(LITSTRING).data_in = 0 /\ Requirements(LITSTRING).data_out = 2
      /\ Requirements(ZBRANCH).data_in = 1 /\ Requirements(ZBRANCH).data_out = 0
  BY DEF Requirements, Req, LIT, ADD, EXIT, LITSTRING, ZBRANCH, BRANCH, DOCOL
<1>2. /\ "S\"" # "+" /\ "S\"" # "IF" /\ "S\"" # "LIT" /\ "S\"" # "EXIT"
      /\ "+" # "IF" /\ "LIT" # "+" /\ "LIT" # "IF" /\ "EXIT" # "+" /\ "EXIT" # "IF"
      /\ "EXIT" # "LIT"
  OBVIOUS
<1>3. /\ Source!Takes("LIT") = 0 /\ Source!Takes("+") = 2 /\ Source!Takes("EXIT") = 0
      /\ Source!Takes("S\"") = 0 /\ Source!Takes("IF") = 1
  BY <1>2 DEF Source!Takes
<1>4. /\ Source!Room("LIT") = 1 /\ Source!Room("+") = 1 /\ Source!Room("EXIT") = 0
      /\ Source!Room("S\"") = 2 /\ Source!Room("IF") = 0
  BY <1>2 DEF Source!Room
<1>5. 0 \in Nat /\ 1 \in Nat /\ 2 \in Nat
  OBVIOUS
<1>6. CASE kind = "LIT" /\ h = LIT
  BY <1>1, <1>3, <1>4, <1>5, <1>6, Zenon
<1>7. CASE kind = "+" /\ h = ADD
  BY <1>1, <1>3, <1>4, <1>5, <1>7, Zenon
<1>8. CASE kind = "EXIT" /\ h = EXIT
  BY <1>1, <1>3, <1>4, <1>5, <1>8, Zenon
<1>9. CASE kind = "S\"" /\ h = LITSTRING
  BY <1>1, <1>3, <1>4, <1>5, <1>9, Zenon
<1>10. CASE kind = "IF" /\ h = ZBRANCH
  BY <1>1, <1>3, <1>4, <1>5, <1>10, Zenon
<1> QED
  BY <1>6, <1>7, <1>8, <1>9, <1>10, Zenon DEF Instructs

\* At a word of the source, the loop's instruction is the one of the word.
LEMMA AtInstruction ==
  ASSUME RunMeans, outcome = "running", ip < Len(thread)
  PROVE  /\ position \in WordPositions(source) /\ position \in 1 .. Len(source)
         /\ Handler = thread[ip + 1]
         /\ Instructs(source[position].kind, thread[ip + 1])
         /\ Source!At(source[position].kind)
<1>1. Started /\ source_outcome = "running" /\ Source!WellFormed(source)
  BY RunsSource
<1>2. position \in WordPositions(source) \cup {Len(source) + 1} /\ Len(source) \in Nat
  BY <1>1, StandsAt, RunsCompiled
<1>3. position \in WordPositions(source)
  <2>1. ~(position > Len(source))
    BY <1>1, StandsAtEnd
  <2> QED
    BY <1>2, <2>1
<1>4. /\ position \in 1 .. Len(source) /\ source[position].kind # "THEN"
      /\ Spelled(source, position, thread, {}, ip)
  BY <1>1, <1>3, StandsAtWord
<1>5. Instructs(source[position].kind, thread[ip + 1])
  BY <1>4, Zenon DEF Spelled, Instructs
<1>6. position <= Len(source)
  BY <1>2, <1>4
<1>7. Source!At(source[position].kind)
  BY <1>1, <1>6, Zenon DEF Source!At
<1>8. Handler = thread[ip + 1]
  BY <1>1, HandlerHere DEF RunMeans
<1> QED
  BY <1>3, <1>4, <1>5, <1>7, <1>8

\* Each instruction is of one kind of word.
LEMMA OneKind ==
  ASSUME NEW kind
  PROVE  /\ Instructs(kind, LIT) => kind = "LIT"
         /\ Instructs(kind, ADD) => kind = "+"
         /\ Instructs(kind, EXIT) => kind = "EXIT"
         /\ Instructs(kind, LITSTRING) => kind = "S\""
         /\ Instructs(kind, ZBRANCH) => kind = "IF"
<1>1. /\ LIT # ADD /\ LIT # EXIT /\ LIT # LITSTRING /\ LIT # ZBRANCH
      /\ ADD # EXIT /\ ADD # LITSTRING /\ ADD # ZBRANCH
      /\ EXIT # LITSTRING /\ EXIT # ZBRANCH /\ LITSTRING # ZBRANCH
  BY DEF LIT, ADD, EXIT, LITSTRING, ZBRANCH
<1> QED
  BY <1>1, Zenon DEF Instructs

\* Inside the thread only the declared requirements can refuse a call.
LEMMA OnlyRequirements ==
  ASSUME RunMeans, Started, ip < Len(thread)
  PROVE  Preflight = enforce_requirements(Handler)
<1>1. RunInv
  BY DEF RunMeans
<1>2. ~(ip >= Len(thread)) /\ ~(ip < -Len(thread)) /\ Index(thread, ip) = ip + 1
  BY <1>1, AtWord
<1>3. /\ thread[ip + 1] \in DOMAIN words
      /\ Handler \in Described /\ Handler \in HANDLERS /\ Injected(Handler) = Parameters(Handler)
  <2>1. thread[ip + 1] \in CompiledWords /\ Handler = thread[ip + 1]
    BY <1>1, HandlerHere
  <2>2. Injected(Handler) = Parameters(Handler)
    BY <2>1, CompiledCalls
  <2> QED
    BY <1>1, <2>2, HandlerHere
<1> QED
  BY <1>2, <1>3, Zenon DEF Preflight

\* The requirements are met when the source's word fits, and fail the same way.
LEMMA SameFaults ==
  ASSUME RunMeans, Started, NEW kind, NEW h, Instructs(kind, h)
  PROVE  /\ enforce_requirements(h) = "ok" <=> Source!Fits(kind)
         /\ enforce_requirements(h) # "ok" =>
              enforce_requirements(h) =
                IF Len(data_stack) < Source!Takes(kind) THEN "stack-underflow" ELSE "stack-overflow"
<1>1. PICK depth \in Nat : depth = Len(data_stack)
  BY DEF RunMeans, LoopInv, LoopTypeOK
<1>2. PICK takes \in Nat, room \in Nat :
        /\ takes = Source!Takes(kind) /\ room = Source!Room(kind)
        /\ takes = Requirements(h).data_in /\ room = Requirements(h).data_out
  BY SameDemands
<1>3. Source!Fits(kind) <=> depth >= takes /\ depth + room <= StackLimit
  BY <1>1, <1>2, Zenon DEF Source!Fits
<1>4. enforce_requirements(h) =
        CASE depth < takes -> "stack-underflow"
          [] depth >= takes /\ StackLimit - depth < room -> "stack-overflow"
          [] OTHER -> "ok"
  BY <1>1, <1>2, Zenon DEF enforce_requirements
<1>5. (StackLimit - depth < room) <=> ~(depth + room <= StackLimit)
  BY StackLimitAssumption
<1>6. (depth < takes) <=> ~(depth >= takes)
  OBVIOUS
<1>7. enforce_requirements(h) =
        IF depth < takes THEN "stack-underflow"
        ELSE IF depth + room <= StackLimit THEN "ok" ELSE "stack-overflow"
  BY <1>4, <1>5, <1>6
<1> QED
  BY <1>1, <1>2, <1>3, <1>6, <1>7

\* The word that is called: its kind, and room for what it does.
LEMMA Called ==
  ASSUME RunMeans, NEW h, Ready(h)
  PROVE  /\ Started /\ outcome = "running" /\ ip \in Nat /\ ip < Len(thread) /\ thread[ip + 1] = h
         /\ position \in WordPositions(source) /\ position \in 1 .. Len(source)
         /\ Instructs(source[position].kind, h)
         /\ Source!At(source[position].kind) /\ Source!Fits(source[position].kind)
<1>1. /\ Started /\ outcome = "running" /\ ip \in Nat /\ ip < Len(thread) /\ thread[ip + 1] = h
  BY AtCall DEF RunMeans
<1>2. /\ position \in WordPositions(source) /\ position \in 1 .. Len(source)
      /\ Handler = h /\ Instructs(source[position].kind, h)
      /\ Source!At(source[position].kind)
  BY <1>1, AtInstruction
<1>3. enforce_requirements(h) = "ok"
  <2>1. Preflight = "ok"
    BY DEF Ready
  <2> QED
    BY <1>1, <1>2, <2>1, OnlyRequirements
<1>4. Source!Fits(source[position].kind)
  BY <1>1, <1>2, <1>3, SameFaults
<1> QED
  BY <1>1, <1>2, <1>4

\* EXIT halts the source.
LEMMA ExitStep ==
  ASSUME RunMeans, UNCHANGED compiler_vars, handle_exit
  PROVE  Source!Exit
<1>1. Ready(EXIT) /\ Raise("halted")
  BY DEF handle_exit
<1>2. source[position].kind = "EXIT" /\ Source!At(source[position].kind) /\ outcome = "running"
  BY <1>1, Called, OneKind
<1>3. Source!Stop("halted")
  BY <1>1, <1>2, StopsSource
<1> QED
  BY <1>2, <1>3 DEF Source!Exit

\* A refused word is the source's fault, and the end of the thread its running out.
LEMMA RefuseStep ==
  ASSUME RunMeans, UNCHANGED compiler_vars, Refuse
  PROVE  Source!Fault \/ Source!RunOut
<1>1. outcome = "running" /\ Preflight # "ok" /\ Raise(Preflight)
  BY DEF Refuse
<1>2. Started /\ source_outcome = "running" /\ Source!WellFormed(source)
  BY <1>1, RunsSource
<1>3. /\ Len(source) \in Nat /\ Len(thread) \in Nat /\ ip \in Nat
      /\ position > Len(source) <=> ip >= Len(thread)
  BY <1>2, StandsAtEnd
<1>4. CASE ip >= Len(thread)
  <2>1. Preflight = "missing-exit"
    BY <1>4 DEF Preflight
  <2>2. Source!Stop("missing-exit")
    BY <1>1, <2>1, StopsSource
  <2> QED
    BY <1>2, <1>3, <1>4, <2>2 DEF Source!RunOut
<1>5. CASE ip < Len(thread)
  <2>1. PICK kind : kind = source[position].kind
    OBVIOUS
  <2>2. PICK h : h = Handler
    OBVIOUS
  <2>3. Instructs(kind, h) /\ Source!At(kind)
    BY <1>1, <1>5, <2>1, <2>2, AtInstruction
  <2>4. kind \in Source!Keywords
    BY <2>3, Zenon DEF Instructs, Source!Keywords
  <2>5. Preflight = enforce_requirements(h)
    BY <1>2, <1>5, <2>2, OnlyRequirements
  <2>6. PICK why : why = IF Len(data_stack) < Source!Takes(kind)
                           THEN "stack-underflow" ELSE "stack-overflow"
    OBVIOUS
  <2>7. ~Source!Fits(kind) /\ Preflight = why
    BY <1>1, <1>2, <2>3, <2>5, <2>6, SameFaults
  <2>8. Source!Stop(why)
    <3>1. why # "idle"
      BY <2>6
    <3> QED
      BY <1>1, <2>7, <3>1, StopsSource
  <2>9. Source!Fault
    BY <2>3, <2>4, <2>6, <2>7, <2>8, Zenon DEF Source!Fault
  <2> QED
    BY <2>9
<1> QED
  BY <1>3, <1>4, <1>5

\* The operand of a word of two cells or more is there.
LEMMA OperandOf ==
  ASSUME RunMeans, Started, position \in WordPositions(source), Cells(source, position) >= 2
  PROVE  ~OperandMissing /\ Operand = thread[ip + 2]
<1>1. PICK m \in Nat : m = Cells(source, position) /\ ip + m <= Len(thread) /\ ip \in Nat
  BY StandsAtWord
<1>2. Len(thread) \in Nat
  BY RunsCompiled
<1>3. ~(ip + 1 >= Len(thread)) /\ ip + 1 >= 0 /\ ip + 1 + 1 = ip + 2
  BY <1>1, <1>2
<1> QED
  BY <1>3 DEF OperandMissing, Operand, Index

\* LIT pushes the number beside it.
LEMMA LitStep ==
  ASSUME RunMeans, RunMeans', UNCHANGED compiler_vars, handle_lit
  PROVE  Source!Literal
<1>1. Ready(LIT)
  BY DEF handle_lit
<1>2. /\ Started /\ outcome = "running" /\ ip \in Nat /\ position \in WordPositions(source)
      /\ position \in 1 .. Len(source) /\ source[position].kind = "LIT"
      /\ Source!At("LIT") /\ Source!Fits("LIT")
  BY <1>1, Called, OneKind
<1>3. Cells(source, position) = 2
  BY <1>2, CellsOf
<1>4. ~OperandMissing /\ Operand = thread[ip + 2]
  BY <1>2, <1>3, OperandOf
<1>5. thread[ip + 2] = source[position + 1].value
  <2>1. Spelled(source, position, thread, {}, ip)
    BY <1>2, StandsAtWord
  <2>2. /\ "LIT" # "+" /\ "LIT" # "EXIT" /\ "LIT" # "THEN" /\ "LIT" # "S\"" /\ "LIT" # "IF"
    OBVIOUS
  <2> QED
    BY <1>2, <2>1, <2>2, Zenon DEF Spelled
<1>6. /\ ip' = ip + 2 /\ UNCHANGED outcome
      /\ data_stack' = Append(data_stack, IntValue(source[position + 1].value))
  BY <1>4, <1>5 DEF handle_lit, Continue
<1>7. After(source, position) = position + 2
  BY <1>2 DEF After
<1>8. /\ position + 2 \in WordPositions(source) \cup {Len(source) + 1}
      /\ CellsBefore(source, position + 2) = ip + 2
  BY <1>2, <1>3, <1>7, StandsAtWord
<1>9. Source!Proceed(position + 2, data_stack')
  BY <1>2, <1>6, <1>8, ProceedsTo
<1> QED
  BY <1>2, <1>6, <1>9, Zenon DEF Source!Literal, Source!Number, IntValue

\* + adds two numbers, and stops on what is no number.
LEMMA AddStep ==
  ASSUME RunMeans, RunMeans', UNCHANGED compiler_vars, handle_add
  PROVE  Source!Plus
<1>1. Ready(ADD)
  BY DEF handle_add
<1>2. /\ Started /\ outcome = "running" /\ ip \in Nat /\ position \in WordPositions(source)
      /\ source[position].kind = "+" /\ Source!At("+") /\ Source!Fits("+")
  BY <1>1, Called, OneKind
<1>3. PICK a, b, below :
        /\ a = data_stack[Len(data_stack) - 1] /\ b = data_stack[Len(data_stack)]
        /\ below = SubSeq(data_stack, 1, Len(data_stack) - 2)
  OBVIOUS
<1>4. below = Source!Below(2)
  BY <1>3 DEF Source!Below
<1>5. IF a.kind = "int" /\ b.kind = "int"
        THEN Continue(ip + 1, Append(below, IntValue(a.value + b.value)))
        ELSE data_stack' = below /\ outcome' = "TypeError" /\ UNCHANGED <<thread, words, ip>>
  BY <1>3, Zenon DEF handle_add, Top, Depth, Dropped
<1>6. CASE a.kind = "int" /\ b.kind = "int"
  <2>1. /\ ip' = ip + 1 /\ UNCHANGED outcome
        /\ data_stack' = Append(below, Source!Number(a.value + b.value))
    BY <1>5, <1>6 DEF Continue, IntValue, Source!Number
  <2>2. Cells(source, position) = 1
    BY <1>2, CellsOf
  <2>3. After(source, position) = position + 1
    BY <1>2 DEF After
  <2>4. /\ position + 1 \in WordPositions(source) \cup {Len(source) + 1}
        /\ CellsBefore(source, position + 1) = ip + 1
    BY <1>2, <2>2, <2>3, StandsAtWord
  <2>5. Source!Proceed(position + 1, Append(below, Source!Number(a.value + b.value)))
    BY <1>2, <2>1, <2>4, ProceedsTo
  <2> QED
    BY <1>2, <1>3, <1>4, <1>6, <2>5, Zenon DEF Source!Plus
<1>7. CASE ~(a.kind = "int" /\ b.kind = "int")
  <2>1. data_stack' = below /\ outcome' = "TypeError" /\ UNCHANGED <<thread, words, ip>>
    BY <1>5, <1>7
  <2>2. source_outcome' = "TypeError" /\ UNCHANGED source
    BY <1>2, <2>1, SourceOutcomeNext
  <2>3. UNCHANGED position
    BY <1>2, <2>1, <2>2 DEF position, Started
  <2> QED
    BY <1>2, <1>3, <1>4, <1>7, <2>1, <2>2, <2>3, Zenon DEF Source!Plus
<1> QED
  BY <1>6, <1>7

\* 0BRANCH goes on behind the IF, or where its THEN is.
LEMMA ZeroBranchStep ==
  ASSUME RunMeans, RunMeans', UNCHANGED compiler_vars, handle_zero_branch
  PROVE  Source!If
<1>1. Ready(ZBRANCH)
  BY DEF handle_zero_branch
<1>2. /\ Started /\ outcome = "running" /\ ip \in Nat /\ position \in WordPositions(source)
      /\ source[position].kind = "IF" /\ Source!At("IF") /\ Source!Fits("IF")
  BY <1>1, Called, OneKind
<1>3. Cells(source, position) = 2
  BY <1>2, CellsOf
<1>4. ~OperandMissing /\ Operand = thread[ip + 2]
  BY <1>2, <1>3, OperandOf
<1>5. PICK match : match = Match(source, position)
  OBVIOUS
<1>6. match \in WordPositions(source) /\ ip + 2 + thread[ip + 2] = CellsBefore(source, match)
  <2>1. Spelled(source, position, thread, {}, ip)
    BY <1>2, StandsAtWord
  <2>2. /\ "IF" # "+" /\ "IF" # "EXIT" /\ "IF" # "THEN" /\ "IF" # "S\"" /\ "IF" # "LIT"
    OBVIOUS
  <2>3. ip + 1 \notin {}
    OBVIOUS
  <2> QED
    BY <1>2, <1>5, <2>1, <2>2, <2>3, Zenon DEF Spelled
<1>7. After(source, position) = position + 1
  <2>1. "IF" # "LIT" /\ "IF" # "S\""
    OBVIOUS
  <2>2. source[position].kind # "LIT" /\ source[position].kind # "S\""
    BY <1>2, <2>1, Zenon
  <2> QED
    BY <2>2 DEF After
<1>8. /\ position + 1 \in WordPositions(source) \cup {Len(source) + 1}
      /\ CellsBefore(source, position + 1) = ip + 2
  BY <1>2, <1>3, <1>7, StandsAtWord
<1>9. PICK top, below : top = data_stack[Len(data_stack)]
                        /\ below = SubSeq(data_stack, 1, Len(data_stack) - 1)
  OBVIOUS
<1>10. /\ ip' = ip + 2 + (IF top = Source!Number(0) THEN thread[ip + 2] ELSE 0)
       /\ data_stack' = below /\ UNCHANGED outcome
  BY <1>4, <1>9 DEF handle_zero_branch, Continue, Top, Dropped, Depth, IntValue, Source!Number
<1>11. PICK to : to = IF top = Source!Number(0) THEN match ELSE position + 1
  OBVIOUS
<1>12. to \in WordPositions(source) \cup {Len(source) + 1} /\ ip' = CellsBefore(source, to)
  <2>1. CASE top = Source!Number(0)
    BY <1>6, <1>10, <1>11, <2>1
  <2>2. CASE top # Source!Number(0)
    <3>1. ip' = ip + 2 + 0 /\ ip + 2 + 0 = ip + 2
      BY <1>2, <1>10, <2>2
    <3> QED
      BY <1>8, <1>11, <2>2, <3>1
  <2> QED
    BY <2>1, <2>2
<1>13. Source!Proceed(to, below)
  BY <1>2, <1>10, <1>12, ProceedsTo
<1>14. Source!Match(source, position) = match /\ below = Source!Below(1)
  BY <1>5, <1>9, SameReading DEF Source!Below
<1> QED
  BY <1>2, <1>9, <1>11, <1>13, <1>14, Zenon DEF Source!If

\* What S" laid down for a text is read back as that text.
LEMMA PayloadRead ==
  ASSUME RunMeans, Started, position \in WordPositions(source),
         NEW text \in Seq(0 .. ByteValues - 1),
         NEW m \in Nat, m = litstring_payload_cells(Len(text)),
         Operand = Len(text), ip + 2 + m <= Len(thread),
         \A j \in 1 .. m : thread[ip + 2 + j] = pack_inline_payload(text)[j]
  PROVE  /\ PayloadEnd = ip + 2 + m /\ PayloadEnd <= Len(thread)
         /\ \A i \in 1 .. Len(PayloadCells) : Representable(PayloadCells[i])
         /\ unpack_inline_payload(PayloadCells, Operand) = text
<1>1. /\ ip \in Nat /\ Len(thread) \in Nat /\ thread \in Seq(Int)
  BY StandsAtWord, RunsCompiled
<1>2. PayloadEnd = ip + 2 + m
  BY DEF PayloadEnd
<1>3. PICK packed \in Seq(Int) : packed = pack_inline_payload(text) /\ Len(packed) = m
  BY PackedType
<1>4. \A c \in 1 .. m : Representable(packed[c])
  BY <1>3, PackedType
<1>5. PayloadCells = SubSeq(thread, ip + 3, ip + 2 + m)
  <2>1. /\ ip + 2 \in 0 .. Len(thread) /\ ip + 2 + m \in 0 .. Len(thread)
        /\ ip + 2 + 1 = ip + 3
    BY <1>1
  <2>2. Slice(thread, ip + 2, ip + 2 + m) = SubSeq(thread, ip + 2 + 1, ip + 2 + m)
    BY <1>1, <2>1, SliceInside
  <2> QED
    BY <1>2, <2>1, <2>2 DEF PayloadCells
<1>6. /\ SubSeq(thread, ip + 3, ip + 2 + m) \in Seq(Int)
      /\ Len(SubSeq(thread, ip + 3, ip + 2 + m)) = m
      /\ \A i \in 1 .. m : SubSeq(thread, ip + 3, ip + 2 + m)[i] = thread[ip + 2 + i]
  <2>1. PICK k \in Nat : k = ip + 2 /\ k + 1 = ip + 3 /\ k + m = ip + 2 + m /\ k + m <= Len(thread)
    <3>1. ip + 2 \in Nat /\ ip + 2 + 1 = ip + 3
      BY <1>1
    <3> QED
      BY <3>1
  <2>2. /\ SubSeq(thread, k + 1, k + m) \in Seq(Int) /\ Len(SubSeq(thread, k + 1, k + m)) = m
        /\ \A i \in 1 .. m : SubSeq(thread, k + 1, k + m)[i] = thread[k + i]
    <3>1. thread \in Seq(Int) /\ k + m <= Len(thread)
      BY <1>1, <2>1, Zenon
    <3> QED
      BY <3>1, MiddlePart, Zenon
  <2> QED
    BY <2>1, <2>2, Zenon
<1>7. PICK cells \in Seq(Int) : /\ cells = PayloadCells /\ Len(cells) = m
                                /\ \A i \in 1 .. m : cells[i] = thread[ip + 2 + i]
  BY <1>5, <1>6
<1>8. cells = packed
  <2>1. \A i \in 1 .. m : cells[i] = packed[i]
    BY <1>3, <1>7
  <2> QED
    BY <1>3, <1>7, <2>1
<1>9. unpack_inline_payload(cells, Len(text)) = text
  BY <1>3, <1>8, UnpackPacked
<1> QED
  BY <1>2, <1>3, <1>4, <1>7, <1>8, <1>9

\* LITSTRING pushes the text and its length.
LEMMA StringStep ==
  ASSUME RunMeans, RunMeans', UNCHANGED compiler_vars, handle_litstring
  PROVE  Source!Quote
<1>1. Ready(LITSTRING)
  BY DEF handle_litstring
<1>2. /\ Started /\ outcome = "running" /\ ip \in Nat /\ position \in WordPositions(source)
      /\ position \in 1 .. Len(source) /\ Instructs(source[position].kind, LITSTRING)
  BY <1>1, Called
<1>3. /\ source[position].kind = "S\"" /\ Source!At("S\"") /\ Source!Fits("S\"")
  BY <1>1, Called, OneKind, Zenon
<1>4. PICK closing : closing = Closing(source, position + 1)
  OBVIOUS
<1>5. closing # 0
  <2>1. GoodWord(source, position)
    BY <1>2, StandsAtWord
  <2> QED
    BY <1>3, <1>4, <2>1, Zenon DEF GoodWord
<1>6. PICK text \in Seq(0 .. ByteValues - 1) : text = TextAt(source, position)
  <2>1. source \in Sources
    BY <1>2, RunsCompiled
  <2> QED
    BY <1>2, <1>4, <1>5, <2>1, TextType
<1>7. PICK m \in Nat : m = litstring_payload_cells(Len(text))
  BY PackedType
<1>8. PICK cells \in Nat : cells = Cells(source, position) /\ cells = 2 + m
  <2>1. Cells(source, position) = 2 + litstring_payload_cells(Len(TextAt(source, position)))
    BY <1>3, StringCellsOf, Zenon
  <2>2. 2 + m \in Nat
    OBVIOUS
  <2> QED
    BY <1>6, <1>7, <2>1, <2>2
<1>9. /\ thread[ip + 2] = Len(text)
      /\ \A j \in 1 .. m : thread[ip + 2 + j] = pack_inline_payload(text)[j]
  <2>1. Spelled(source, position, thread, {}, ip)
    BY <1>2, StandsAtWord
  <2>2. /\ "S\"" # "+" /\ "S\"" # "EXIT" /\ "S\"" # "THEN" /\ "S\"" # "IF" /\ "S\"" # "LIT"
    OBVIOUS
  <2> QED
    BY <1>3, <1>6, <1>7, <2>1, <2>2, Zenon DEF Spelled
<1>10. ~OperandMissing /\ Operand = Len(text)
  <2>1. Cells(source, position) >= 2
    BY <1>8
  <2> QED
    BY <1>2, <1>9, <2>1, OperandOf
<1>11. /\ ip + 2 + m <= Len(thread)
       /\ CellsBefore(source, After(source, position)) = ip + 2 + m
       /\ After(source, position) \in WordPositions(source) \cup {Len(source) + 1}
  <2>1. ip + cells = ip + 2 + m
    BY <1>2, <1>8
  <2> QED
    BY <1>2, <1>8, <2>1, StandsAtWord
<1>12. /\ PayloadEnd = ip + 2 + m /\ PayloadEnd <= Len(thread)
       /\ \A i \in 1 .. Len(PayloadCells) : Representable(PayloadCells[i])
       /\ unpack_inline_payload(PayloadCells, Operand) = text
  BY <1>2, <1>7, <1>9, <1>10, <1>11, PayloadRead
<1>13. ~(PayloadEnd > Len(thread))
  <2>1. Len(thread) \in Nat
    BY <1>2, RunsCompiled
  <2> QED
    BY <1>2, <1>12, <2>1
<1>14. Continue(PayloadEnd, data_stack \o <<InlineStringRef(text), IntValue(Len(text))>>)
  BY <1>10, <1>12, <1>13, Zenon DEF handle_litstring
<1>15. PICK pushed : pushed = data_stack \o <<Source!String(text), Source!Number(Len(text))>>
  OBVIOUS
<1>16. ip' = ip + 2 + m /\ data_stack' = pushed /\ UNCHANGED outcome
  BY <1>12, <1>14, <1>15 DEF Continue, InlineStringRef, IntValue, Source!String, Source!Number
<1>17. After(source, position) = closing + 1
  <2>1. "S\"" # "LIT"
    OBVIOUS
  <2> QED
    BY <1>3, <1>4, <1>5, <2>1, Zenon DEF After
<1>18. Source!Proceed(closing + 1, pushed)
  BY <1>2, <1>11, <1>16, <1>17, ProceedsTo
<1>19. /\ Source!Closing(source, position + 1) = closing
       /\ Source!Text(source, position + 1, closing) = text
  BY <1>4, <1>6, SameWords, Zenon DEF TextAt
<1> QED
  BY <1>3, <1>15, <1>18, <1>19, Zenon DEF Source!Quote

\* Compiling is not seen, until it fails: then the source is not well formed.
LEMMA CompileStep ==
  ASSUME RunMeans, RunMeans', Compile
  PROVE  Source!Reject \/ UNCHANGED Source!vars
<1>1. compile_outcome = "compiling" /\ UNCHANGED loop_vars /\ UNCHANGED source
  BY DEF Compile, compile_source_to_thread, compile_lit, compile_plus, compile_exit,
         handle_s_quote, handle_if, handle_then, Token, unknown_token, finish, EndWith, Patch
<1>2. ~Started /\ ~Started'
  BY <1>1 DEF RunMeans, RunInv, Started, loop_vars
<1>3. UNCHANGED <<position, data_stack>>
  BY <1>1, <1>2 DEF position, loop_vars
<1>4. source_outcome = "running"
  BY <1>1, <1>2 DEF source_outcome
<1>5. AcceptInv'
  BY DEF RunMeans, RunInv, LayoutInv
<1>6. CASE compile_outcome' \in {"compile-parse-error", "ValueError"}
  <2>1. ~WellFormed(source)
    BY <1>1, <1>5, <1>6 DEF AcceptInv, AcceptsExactlyWellFormed
  <2>2. source_outcome' = "rejected"
    BY <1>2, <1>6 DEF source_outcome
  <2> QED
    BY <1>1, <1>3, <1>4, <2>1, <2>2, SameReading DEF Source!Reject, Source!Stop
<1>7. CASE compile_outcome' \notin {"compile-parse-error", "ValueError"}
  <2>1. source_outcome' = "running"
    BY <1>2, <1>7 DEF source_outcome
  <2> QED
    BY <1>1, <1>3, <1>4, <2>1 DEF Source!vars
<1> QED
  BY <1>6, <1>7

\* What is in a set of numbers and no greater than any is its minimum.
LEMMA LeastIsMin ==
  ASSUME NEW T, T \subseteq Nat, NEW x \in T, \A y \in T : x <= y
  PROVE  Min(T) = x
<1>1. PICK m \in T : m = Min(T) /\ m <= x
  BY MinOfNaturals
<1> QED
  BY <1>1

\* A sequence of some values is one of more values.
LEMMA SeqOfSubset ==
  ASSUME NEW A, NEW B, A \subseteq B
  PROVE  Seq(A) \subseteq Seq(B)
<1> SUFFICES ASSUME NEW s \in Seq(A) PROVE s \in Seq(B)
  OBVIOUS
<1>1. PICK n \in Nat : n = Len(s)
  OBVIOUS
<1>2. s \in [1 .. n -> B]
  BY <1>1
<1> QED
  BY <1>2, TupleType

\* A well-formed source does not start with a THEN: it resumes where it starts.
LEMMA ResumesFirst ==
  ASSUME NEW s \in Sources, WellFormed(s)
  PROVE  /\ 1 \in WordPositions(s) \cup {Len(s) + 1} /\ Resume(s, 1) = 1
         /\ CellsBefore(s, 1) = 0
<1>1. Len(s) \in Nat
  BY SourcesAssumption
<1>2. PICK P \in SUBSET (1 .. Len(s)) : P = WordPositions(s)
  BY <1>1, WordFacts
<1>3. 1 .. Len(s) # {} => 1 \in P
  <2>1. \A p \in 1 .. Len(s) : p \in P <=> p = 1 \/ \E q \in P : q < p /\ After(s, q) = p
    BY <1>1, <1>2, WordFacts, Zenon
  <2> QED
    BY <1>1, <2>1
<1>4. 1 \in P \cup {Len(s) + 1}
  <2>1. CASE Len(s) = 0
    BY <2>1
  <2>2. CASE Len(s) # 0
    <3>1. 1 \in 1 .. Len(s)
      BY <1>1, <2>2
    <3> QED
      BY <1>3, <3>1
  <2> QED
    BY <2>1, <2>2
<1>5. ASSUME 1 \in P PROVE s[1].kind # "THEN"
  <2>1. GoodWord(s, 1)
    <3>1. Len(s) + 1 \in WordPositions(s) \cup {Len(s) + 1}
      OBVIOUS
    <3> QED
      BY <1>2, <1>5, <3>1, EveryWord
  <2>2. Open(s, 1, 1) = Open(s, 1, 1 - 1) + Opens(s, 1) /\ Open(s, 1, 1 - 1) = 0
    BY <1>1, <1>2, <1>5, OpenAfterWord, OpenNone
  <2>3. Open(s, 1, 1) >= 0
    BY <2>1, Zenon DEF GoodWord
  <2>4. s[1].kind = "THEN" => Opens(s, 1) = -1
    BY OpensType
  <2> QED
    BY <2>2, <2>3, <2>4
<1>6. Resume(s, 1) = 1
  <2>1. PICK T : T = {q \in P : q >= 1 /\ s[q].kind # "THEN"} \cup {Len(s) + 1}
    OBVIOUS
  <2>2. T \subseteq P \cup {Len(s) + 1}
    BY <2>1
  <2>3. T \subseteq Nat /\ \A y \in T : 1 <= y
    BY <1>1, <2>2
  <2>4. 1 \in T
    <3>1. CASE 1 \in P
      <4>1. 1 >= 1
        OBVIOUS
      <4> QED
        BY <1>5, <2>1, <3>1, <4>1, Zenon
    <3>2. CASE 1 = Len(s) + 1
      BY <2>1, <3>2, Zenon
    <3> QED
      BY <1>4, <3>1, <3>2
  <2>5. Min(T) = 1
    BY <2>3, <2>4, LeastIsMin
  <2>6. Resume(s, 1) = Min(T)
    BY <1>2, <2>1, Zenon DEF Resume
  <2> QED
    BY <2>5, <2>6
<1>7. CellsBefore(s, 1) = 0
  <2>1. {w \in P : w < 1} = {}
    <3>1. \A w \in P : ~(w < 1)
      BY <1>1
    <3> QED
      BY <3>1, Zenon
  <2>2. CellsUpTo(s, 1) = {}
    <3>1. {w \in WordPositions(s) : w < 1} = {}
      BY <1>2, <2>1
    <3> QED
      BY <3>1, Zenon DEF CellsUpTo
  <2> QED
    BY <2>2, FS_EmptySet DEF CellsBefore
<1> QED
  BY <1>2, <1>4, <1>6, <1>7

\* The start of the loop is not seen.
LEMMA StartStep ==
  ASSUME RunMeans, RunMeans', Start
  PROVE  UNCHANGED Source!vars
<1>1. /\ compile_outcome = "compiled" /\ ~Started /\ outcome' = "running"
      /\ UNCHANGED <<source, compile_outcome, ip, data_stack>>
  BY DEF Start, Started, compiler_vars
<1>2. Started'
  BY <1>1 DEF Started
<1>3. source_outcome = "running" /\ source_outcome' = "running"
  BY <1>1, <1>2 DEF source_outcome
<1>4. PICK s : s = source
  OBVIOUS
<1>5. source' = s /\ ip' = 0
  BY <1>1, <1>4 DEF RunMeans, RunInv
<1>6. s \in Sources /\ WellFormed(s) /\ IsFiniteSet(CellsUpTo(s, Len(s) + 1))
  <2>1. AcceptInv /\ LayoutInv /\ CompilerInv
    BY DEF RunMeans, RunInv, LayoutInv, AcceptInv
  <2>2. s \in Sources /\ WellFormed(s)
    BY <1>1, <1>4, <2>1 DEF CompilerInv, AcceptInv, AcceptsExactlyWellFormed
  <2>3. cursor = Len(source) + 1 /\ IsFiniteSet(CellsUpTo(source, cursor))
    BY <1>1, <2>1 DEF LayoutInv
  <2> QED
    BY <1>4, <2>2, <2>3
<1>7. PICK to : to = 1
  OBVIOUS
<1>8. /\ to \in WordPositions(s) \cup {Len(s) + 1} /\ Resume(s, to) = to
      /\ CellsBefore(s, to) = 0
  BY <1>6, <1>7, ResumesFirst
<1>9. Max(Places(s, CellsBefore(s, to))) = to
  BY <1>6, <1>8, LastPlace
<1>10. position' = to
  BY <1>2, <1>5, <1>8, <1>9, Zenon DEF position
<1>11. position = to
  BY <1>1, <1>7 DEF position
<1> QED
  BY <1>1, <1>3, <1>10, <1>11 DEF Source!vars

\* Every step of the composition is a step of the source, or is not seen.
THEOREM NextImplements == RunMeans /\ RunMeans' /\ [Next]_vars => [Source!Next]_(Source!vars)
<1> SUFFICES ASSUME RunMeans, RunMeans', [Next]_vars PROVE [Source!Next]_(Source!vars)
  OBVIOUS
<1>1. CASE Compile
  BY <1>1, CompileStep DEF Source!Next
<1>2. CASE Start
  BY <1>2, StartStep
<1>3. CASE Step
  <2>1. UNCHANGED compiler_vars /\ step_once
    BY <1>3 DEF Step
  <2>2. ~handle_branch
    BY NoBranch DEF RunMeans
  <2> QED
    BY <2>1, <2>2, LitStep, AddStep, ZeroBranchStep, StringStep, ExitStep, RefuseStep
       DEF step_once, Source!Next
<1>4. CASE UNCHANGED vars
  <2>1. UNCHANGED <<source, compile_outcome, ip, data_stack, outcome>>
    BY <1>4 DEF vars, compiler_vars, loop_vars
  <2>2. UNCHANGED <<position, source_outcome>>
    BY <2>1 DEF position, source_outcome, Started
  <2> QED
    BY <2>1, <2>2 DEF Source!vars
<1> QED
  BY <1>1, <1>2, <1>3, <1>4 DEF Next

\* A source is at its first word, with an empty stack.
THEOREM InitImplements == Init => Source!Init
<1> SUFFICES ASSUME Init PROVE Source!Init
  OBVIOUS
<1>1. /\ source \in Sources /\ compile_outcome = "compiling" /\ outcome = "idle"
      /\ data_stack = <<>>
  BY DEF Init, InitCompiler
<1>2. position = 1 /\ source_outcome = "running"
  BY <1>1 DEF position, source_outcome, Started
<1>3. source \in Seq([kind : STRING, value : Int, octets : Seq(0 .. ByteValues - 1)])
  BY <1>1, SourcesAssumption
<1>4. source \in Seq([kind : STRING, value : Int, octets : Seq(Nat)])
  <2>1. 0 .. ByteValues - 1 \subseteq Nat
    BY ByteAssumption
  <2>2. Seq(0 .. ByteValues - 1) \subseteq Seq(Nat)
    BY <2>1, SeqOfSubset
  <2>3. [kind : STRING, value : Int, octets : Seq(0 .. ByteValues - 1)]
          \subseteq [kind : STRING, value : Int, octets : Seq(Nat)]
    BY <2>2
  <2>4. PICK few, more : /\ few = [kind : STRING, value : Int, octets : Seq(0 .. ByteValues - 1)]
                         /\ more = [kind : STRING, value : Int, octets : Seq(Nat)]
    OBVIOUS
  <2>5. few \subseteq more /\ source \in Seq(few)
    BY <1>3, <2>3, <2>4, Zenon
  <2>6. source \in Seq(more)
    BY <2>5, SeqOfSubset, Zenon
  <2> QED
    BY <2>4, <2>6, Zenon
<1> QED
  BY <1>1, <1>2, <1>4 DEF Source!Init

\* Compiling and running a source, of any length and nesting, does what
\* SourceMachine says of the source itself: the same stacks, the same halt,
\* the same faults, and nothing is run that is not well formed.
THEOREM SourceImplemented == Spec => ImplementsSource
<1>1. Spec => []RunMeans
  BY InitRunMeans, NextRunMeans, PTL DEF Spec
<1> QED
  BY <1>1, InitImplements, NextImplements, NextRunMeans, PTL DEF Spec, ImplementsSource, Source!Spec

=============================================================================
