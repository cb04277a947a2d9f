----------------------- MODULE InnerInterpreter_proofs -----------------------
(***************************************************************************)
(* Programs of any number of words and threads of any length, stacks of    *)
(* any capacity, stepped or run.                                           *)
(*                                                                         *)
(* The first part asks of a thread only that its cells are words: lengths  *)
(* stay with their threads because a pointer is never copied without one,  *)
(* and the arrays are safe because a handler that would reach outside of   *)
(* them does not act.                                                      *)
(*                                                                         *)
(* The second part is about threads that someone wrote: control is always  *)
(* between two of their instructions, and so the interpreter over cells    *)
(* implements the machine over instructions.                               *)
(***************************************************************************)
EXTENDS InnerInterpreter, SetInduction, FiniteSetTheorems, SequenceTheorems, TLAPS

USE HalfAssumption, InterpreterAssumption

Frame == [cells : Nat, length : Nat, return_ip : Nat]

\* ThreadAt, ExtentAt and CellOf as functions of what they read.
ThreadIn(x, pointer) ==
  IF pointer = ENTRY THEN 0
  ELSE LET k == WordOfXt(x, pointer - 1) IN IF k = 0 THEN -1 ELSE k
ExtentIn(x, th, pointer) ==
  LET t == ThreadIn(x, pointer) IN IF t = -1 THEN 0 ELSE Cardinality(DOMAIN th[t])
CellIn(x, th, pointer, i) ==
  IF i \in 0 .. ExtentIn(x, th, pointer) - 1 THEN th[ThreadIn(x, pointer)][i] ELSE 0

\* The program is one a scenario was prepared into.
ProgramOK ==
  /\ scenario.direct \in 0 .. Len(scenario.words)
  /\ xts \in [1 .. Len(scenario.words) -> LiteralValues \ {0}]
  /\ DOMAIN threads = 0 .. Len(scenario.words)
  /\ \A t \in DOMAIN threads :
       /\ IsFiniteSet(DOMAIN threads[t])
       /\ threads[t] \in [0 .. Cardinality(DOMAIN threads[t]) - 1 -> Word]

\* Whenever control is between two calls and goes on, the next xt is there already.
FetchedAhead ==
  at \in {"fetch", "after"} /\ entrypoint # "none" /\ ~halt_requested /\ ip < thread_length
    => current_xt = Cell(ip)

\* The behaviour has an outcome only at its end, and does not go on after HALT.
Going ==
  /\ at # "stopped" => outcome = "none"
  /\ at = "fetch" => ~halt_requested

\* A stepped word that EXECUTE did not install has passed the preflight.
Checked ==
  mode = "step" /\ at = "dispatch" /\ ~executed
    => Meets(resolved_handler_id, depth, Len(frames))

\* A word is dispatched from a cell of its thread, or from just before the first one.
Positioned ==
  /\ at = "dispatch" => ip >= -1 /\ entrypoint # "none"
  /\ entrypoint = "none" => ip >= -1

IInv ==
  ProgramOK /\ TypeOK /\ LengthsBelongToThreads /\ FetchedAhead /\ Going /\ Checked /\ Positioned

(***************************************************************************)
(* Threads and their cells                                                 *)
(***************************************************************************)
\* The readings above are the module's own.
LEMMA Readings ==
  ASSUME NEW pointer, NEW i
  PROVE  /\ ThreadAt(pointer) = ThreadIn(xts, pointer)
         /\ ExtentAt(pointer) = ExtentIn(xts, threads, pointer)
         /\ CellOf(pointer, i) = CellIn(xts, threads, pointer, i)
BY DEF ThreadAt, ThreadIn, ExtentAt, ExtentIn, CellOf, CellIn, Readable

\* A result of an addition is a word.
LEMMA WrapIsWord == ASSUME NEW x \in Int PROVE Wrap(x) \in Word
<1>1. (x + Half) % (2 * Half) \in 0 .. 2 * Half - 1
  OBVIOUS
<1> QED BY <1>1 DEF Wrap, Word

\* A pointer leads to a thread of the program or to none.
LEMMA ThreadType ==
  ASSUME ProgramOK, NEW pointer
  PROVE  ThreadIn(xts, pointer) \in DOMAIN threads \cup {-1}
<1>1. Len(scenario.words) \in Nat
  BY DEF ProgramOK
<1>2. DOMAIN xts = 1 .. Len(scenario.words)
  BY DEF ProgramOK
<1>3. WordOfXt(xts, pointer - 1) \in DOMAIN xts \cup {0}
  BY DEF WordOfXt
<1> QED BY <1>1, <1>2, <1>3 DEF ProgramOK, ThreadIn

\* An extent is a number, and what is read at any place is a word.
LEMMA CellType ==
  ASSUME ProgramOK, NEW pointer, NEW i
  PROVE  /\ ExtentIn(xts, threads, pointer) \in Nat
         /\ CellIn(xts, threads, pointer, i) \in Word
<1> DEFINE t == ThreadIn(xts, pointer)
<1>1. t \in DOMAIN threads \cup {-1}
  BY ThreadType
<1>2. 0 \in Word
  BY DEF Word
<1>3. CASE t = -1
  <2>1. ExtentIn(xts, threads, pointer) = 0
    BY <1>3 DEF ExtentIn
  <2> QED BY <1>2, <2>1 DEF CellIn
<1>4. CASE t # -1
  <2>1. t \in DOMAIN threads
    BY <1>1, <1>4
  <2>2. ExtentIn(xts, threads, pointer) = Cardinality(DOMAIN threads[t])
    BY <1>4 DEF ExtentIn
  <2>3. /\ IsFiniteSet(DOMAIN threads[t])
        /\ threads[t] \in [0 .. Cardinality(DOMAIN threads[t]) - 1 -> Word]
    BY <2>1 DEF ProgramOK
  <2>4. Cardinality(DOMAIN threads[t]) \in Nat
    BY <2>3, FS_CardinalityType
  <2> QED BY <1>2, <2>2, <2>3, <2>4 DEF CellIn
<1> QED BY <1>3, <1>4

\* DOCOL is reached through a code field or as a primitive: its thread pointer is a cell index.
LEMMA DocolPointer ==
  ASSUME ProgramOK, current_xt \in Int, resolved_handler_id = DOCOL
  PROVE  current_xt + 1 \in Nat
<1>1. CASE WordOfXt(xts, current_xt) = 0
  BY <1>1 DEF resolved_handler_id, HandlerOfXt, DOCOL
<1>2. CASE WordOfXt(xts, current_xt) # 0
  <2>1. PICK k \in DOMAIN xts : xts[k] = current_xt
    BY <1>2 DEF WordOfXt
  <2>2. xts[k] \in LiteralValues
    BY <2>1 DEF ProgramOK
  <2> QED BY <2>1, <2>2 DEF LiteralValues
<1> QED BY <1>1, <1>2

(***************************************************************************)
(* Initial states                                                          *)
(***************************************************************************)
\* Every scenario is prepared into a program, and starts in its entry thread.
LEMMA InitInvariant == Init => IInv
<1> SUFFICES ASSUME Init PROVE IInv
  OBVIOUS
<1>1. ProgramOK
  <2>1. /\ scenario \in Scenarios /\ xts = Xts(scenario) /\ threads = Threads(scenario)
    BY DEF Init
  <2>2. /\ scenario.direct \in 0 .. Len(scenario.words)
        /\ \A k \in 1 .. Len(scenario.words) : xts[k] \in LiteralValues \ {0}
        /\ \A t \in 0 .. Len(scenario.words) :
             /\ IsFiniteSet(DOMAIN threads[t])
             /\ threads[t] \in [0 .. Cardinality(DOMAIN threads[t]) - 1 -> Word]
    BY <2>1, ThreadsAssumption
  <2>3. \E f : xts = [k \in 1 .. Len(scenario.words) |-> f[k]]
    <3> DEFINE f == [k \in 1 .. Len(scenario.words) |-> Xts(scenario)[k]]
    <3>1. xts = f
      BY <2>1 DEF Xts
    <3> QED BY <3>1
  <2>4. \E f : threads = [t \in 0 .. Len(scenario.words) |-> f[t]]
    <3> DEFINE g == [t \in 0 .. Len(scenario.words) |-> Threads(scenario)[t]]
    <3>1. threads = g
      BY <2>1 DEF Threads
    <3> QED BY <3>1
  <2> QED BY <2>2, <2>3, <2>4 DEF ProgramOK
<1>2. ExtentAt(ENTRY) \in Nat
  BY <1>1, CellType, Readings
<1>3. TypeOK
  <2>1. stack \in Seq(Word) /\ depth = 0 /\ frames \in Seq(Frame) /\ Len(frames) = 0
    BY DEF Init, depth
  <2>2. thread_cells \in Nat /\ thread_length \in Nat /\ ip \in Int /\ current_xt \in Int
    BY <1>2 DEF Init, ENTRY
  <2>3. /\ mode \in Modes /\ entrypoint = "none" /\ halt_requested \in BOOLEAN
        /\ executed \in BOOLEAN /\ at = "fetch" /\ outcome = "none"
    BY DEF Init
  <2> QED BY <2>1, <2>2, <2>3 DEF TypeOK, Frame
<1>4. LengthsBelongToThreads
  BY DEF Init, LengthsBelongToThreads
<1>5. FetchedAhead /\ Going /\ Checked /\ Positioned
  BY DEF Init, FetchedAhead, Going, Checked, Positioned
<1> QED BY <1>1, <1>3, <1>4, <1>5 DEF IInv

(***************************************************************************)
(* The kinds of step                                                       *)
(***************************************************************************)
\* The program is the same for ever.
LEMMA ProgramKept == ASSUME ProgramOK, UNCHANGED program PROVE ProgramOK'
BY DEF ProgramOK, program

\* Lengths are kept by a step that moves no pointer.
LEMMA LengthsKept ==
  ASSUME LengthsBelongToThreads, UNCHANGED <<program, thread_cells, thread_length, frames>>
  PROVE  LengthsBelongToThreads'
BY DEF LengthsBelongToThreads, ExtentAt, ThreadAt, program

\* A compiled function is called with the next xt, in a step only after the preflight.
LEMMA CallInvariant ==
  ASSUME IInv, NEW function \in {"lowered_step", "lowered_step_xt", "lowered_run"}, NEW xt \in Int,
         at = "fetch", ip >= -1, mode = "step" => Preflight(xt), Call(function, xt)
  PROVE  IInv'
<1>1. /\ entrypoint' = function /\ current_xt' = xt /\ at' = "dispatch" /\ executed' = FALSE
      /\ UNCHANGED <<scenario, xts, threads, mode, thread_cells, thread_length, ip, stack, frames,
                     halt_requested, outcome>>
  BY DEF Call, program
<1>2. ProgramOK' /\ LengthsBelongToThreads'
  BY <1>1, ProgramKept, LengthsKept DEF IInv, program
<1>3. TypeOK'
  BY <1>1 DEF IInv, TypeOK, depth
<1>4. FetchedAhead' /\ Going' /\ Positioned'
  BY <1>1 DEF IInv, FetchedAhead, Going, Positioned
<1>5. Checked'
  BY <1>1 DEF Checked, Preflight, resolved_handler_id, depth
<1> QED BY <1>2, <1>3, <1>4, <1>5 DEF IInv

\* The behaviour ends.
LEMMA EndInvariant ==
  ASSUME IInv, NEW o \in {"halted", "ran_off", "refused", "overrun"}, End(o),
         UNCHANGED <<Machine, program, entrypoint>>
  PROVE  IInv'
<1>1. /\ at' = "stopped" /\ outcome' = o /\ executed' = FALSE
      /\ UNCHANGED <<scenario, xts, threads, mode, entrypoint, thread_cells, thread_length, ip,
                     current_xt, stack, frames, halt_requested>>
  BY DEF End, Machine, program
<1>2. ProgramOK' /\ LengthsBelongToThreads'
  BY <1>1, ProgramKept, LengthsKept DEF IInv, program
<1>3. TypeOK'
  BY <1>1 DEF IInv, TypeOK, depth
<1>4. FetchedAhead' /\ Going' /\ Checked' /\ Positioned'
  BY <1>1 DEF IInv, FetchedAhead, Going, Checked, Positioned
<1> QED BY <1>2, <1>3, <1>4 DEF IInv

\* A handler has left typed stacks within their arrays, and control resumes in a thread with
\* that thread's length.
LEMMA ResumeInvariant ==
  ASSUME IInv, at = "dispatch", NEW pointer \in Nat, NEW new_ip \in Int,
         Resume(pointer, ExtentIn(xts, threads, pointer), new_ip),
         stack' \in Seq(Word), Len(stack') <= StackCapacity,
         frames' \in Seq(Frame), Len(frames') <= ReturnCapacity,
         \A f \in 1 .. Len(frames') :
           frames'[f].length = ExtentIn(xts, threads, frames'[f].cells)
  PROVE  IInv'
<1> DEFINE length == ExtentIn(xts, threads, pointer)
<1>1. /\ thread_cells' = pointer /\ thread_length' = length /\ ip' = new_ip
      /\ current_xt' = IF new_ip < length THEN CellIn(xts, threads, pointer, new_ip) ELSE current_xt
      /\ executed' = FALSE /\ at' = "after"
      /\ UNCHANGED <<scenario, xts, threads, mode, entrypoint, halt_requested, outcome>>
  BY Readings DEF Resume, Untouched, program
<1>2. ProgramOK'
  BY <1>1, ProgramKept DEF IInv, program
<1>3. length \in Nat /\ CellIn(xts, threads, pointer, new_ip) \in Word
  BY CellType DEF IInv
<1>4. TypeOK'
  <2>1. current_xt' \in Int
    BY <1>1, <1>3 DEF IInv, TypeOK, Word
  <2>2. mode' \in Modes /\ entrypoint' \in {"none", "lowered_step", "lowered_step_xt", "lowered_run"}
    BY <1>1 DEF IInv, TypeOK
  <2>3. halt_requested' \in BOOLEAN /\ outcome' \in {"none", "halted", "ran_off", "refused", "overrun"}
    BY <1>1 DEF IInv, TypeOK
  <2> QED BY <1>1, <1>3, <2>1, <2>2, <2>3 DEF TypeOK, depth, Frame
<1>5. LengthsBelongToThreads'
  <2>1. /\ thread_length' = ExtentIn(xts', threads', thread_cells')
        /\ \A f \in 1 .. Len(frames') :
             frames'[f].length = ExtentIn(xts', threads', frames'[f].cells)
    BY <1>1
  <2> QED BY <2>1 DEF LengthsBelongToThreads, ExtentAt, ThreadAt, ExtentIn, ThreadIn
<1>6. FetchedAhead'
  <2>1. ip' < thread_length' => current_xt' = CellIn(xts', threads', thread_cells', ip')
    BY <1>1
  <2> QED BY <2>1 DEF FetchedAhead, Cell, CellOf, Readable, ExtentAt, ThreadAt, CellIn, ExtentIn, ThreadIn
<1>7. Going' /\ Checked' /\ Positioned'
  BY <1>1 DEF IInv, Going, Checked, Positioned
<1> QED BY <1>2, <1>4, <1>5, <1>6, <1>7 DEF IInv

\* The lengths of the invariant, read by ExtentIn.
LEMMA Lengths ==
  ASSUME IInv
  PROVE  /\ thread_length = ExtentIn(xts, threads, thread_cells)
         /\ \A f \in 1 .. Len(frames) : frames[f].length = ExtentIn(xts, threads, frames[f].cells)
BY Readings DEF IInv, LengthsBelongToThreads

\* A handler that stays in its thread and leaves the return stack alone.
LEMMA StayInvariant ==
  ASSUME IInv, at = "dispatch", NEW new_ip \in Int, exact_ip(new_ip), UNCHANGED frames,
         stack' \in Seq(Word), Len(stack') <= StackCapacity
  PROVE  IInv'
<1>1. Resume(thread_cells, ExtentIn(xts, threads, thread_cells), new_ip)
  BY Lengths DEF exact_ip
<1>2. thread_cells \in Nat /\ frames \in Seq(Frame) /\ Len(frames) <= ReturnCapacity
  BY DEF IInv, TypeOK, Frame
<1>3. \A f \in 1 .. Len(frames') : frames'[f].length = ExtentIn(xts, threads, frames'[f].cells)
  BY Lengths
<1> QED BY <1>1, <1>2, <1>3, ResumeInvariant

(***************************************************************************)
(* The handlers                                                            *)
(***************************************************************************)
\* What the requirements of each handler say of the two depths.
LEMMA Requires ==
  ASSUME NEW h, NEW d \in Nat, NEW r \in Nat, Meets(h, d, r)
  PROVE  /\ h = LIT => d + 1 <= StackCapacity
         /\ h = ADD => d >= 2
         /\ h \in {ZBRANCH, EXECUTE} => d >= 1
         /\ h = EXIT => r >= 1
         /\ h = DOCOL => r + 1 <= ReturnCapacity
BY DEF Meets, Requirements, LIT, ADD, ZBRANCH, EXECUTE, EXIT, DOCOL

\* What a dispatched handler finds.
LEMMA Found ==
  ASSUME IInv, NEW h, Dispatch(h)
  PROVE  /\ at = "dispatch" /\ resolved_handler_id = h /\ Meets(h, depth, Len(frames))
         /\ stack \in Seq(Word) /\ depth \in Nat /\ depth = Len(stack) /\ depth <= StackCapacity
         /\ frames \in Seq(Frame) /\ Len(frames) \in Nat /\ Len(frames) <= ReturnCapacity
         /\ ip \in Int /\ ip >= -1 /\ inline_operand \in Word /\ operand_ip \in Int /\ branch_target_ip \in Int
<1>1. /\ stack \in Seq(Word) /\ depth <= StackCapacity /\ frames \in Seq(Frame)
      /\ Len(frames) <= ReturnCapacity /\ ip \in Int
  BY DEF IInv, TypeOK, Frame
<1>2. inline_operand \in Word
  BY CellType, Readings DEF IInv, inline_operand, Cell
<1>3. operand_ip \in Int /\ branch_target_ip \in Int
  BY <1>1, <1>2 DEF operand_ip, branch_target_ip, Word
<1> QED BY <1>1, <1>2, <1>3 DEF Dispatch, Sound, depth, IInv, Positioned

\* What is left of a sequence whose last elements are taken.
LEMMA Prefix ==
  ASSUME NEW S, NEW s \in Seq(S), NEW m \in Nat, m <= Len(s)
  PROVE  /\ SubSeq(s, 1, m) \in Seq(S) /\ Len(SubSeq(s, 1, m)) = m
         /\ \A i \in 1 .. m : i \in 1 .. Len(s) /\ SubSeq(s, 1, m)[i] = s[i]
<1> DEFINE n == Len(s)
           rest == SubSeq(s, 1, m)
<1>1. n \in Nat /\ m <= n /\ \A i \in 1 .. n : s[i] \in S
  OBVIOUS
<1> HIDE DEF n
<1>2. m \in Int /\ \A i \in 1 .. m : s[i] \in S
  BY <1>1
<1>3. /\ rest \in Seq(S)
      /\ Len(rest) = IF 1 <= m THEN m - 1 + 1 ELSE 0
      /\ \A i \in 1 .. m - 1 + 1 : rest[i] = s[1 + i - 1]
  BY <1>2, SubSeqProperties
<1> HIDE DEF rest
<1>4. Len(rest) = m
  BY <1>3
<1>5. ASSUME NEW i \in 1 .. m PROVE i \in 1 .. n /\ rest[i] = s[i]
  BY <1>1, <1>3
<1> QED BY <1>3, <1>4, <1>5 DEF rest, n

\* LIT pushes one cell's word where there is room for it.
LEMMA LitInvariant == IInv /\ op_lit => IInv'
<1> SUFFICES ASSUME IInv, op_lit PROVE IInv'
  OBVIOUS
<1>1. Dispatch(LIT) /\ stack' = Append(stack, inline_operand) /\ exact_ip(operand_ip + 1) /\ UNCHANGED frames
  BY DEF op_lit, advance_ip, exact_ip
<1>2. depth + 1 <= StackCapacity
  BY <1>1, Found, Requires
<1>3. stack' \in Seq(Word) /\ Len(stack') <= StackCapacity
  BY <1>1, <1>2, Found
<1> QED BY <1>1, <1>3, Found, StayInvariant

\* ADD replaces two words by their sum, wrapped.
LEMMA AddInvariant == IInv /\ op_add => IInv'
<1> SUFFICES ASSUME IInv, op_add PROVE IInv'
  OBVIOUS
<1> DEFINE sum == Wrap(stack[depth - 1] + stack[depth])
           rest == SubSeq(stack, 1, depth - 2)
<1>1. Dispatch(ADD) /\ stack' = Append(rest, sum) /\ exact_ip(ip + 1) /\ UNCHANGED frames
  BY DEF op_add, advance_ip, exact_ip
<1>2. depth >= 2
  BY <1>1, Found, Requires
<1>3. sum \in Word
  <2>1. stack[depth - 1] \in Word /\ stack[depth] \in Word
    BY <1>1, <1>2, Found
  <2> QED BY <2>1, WrapIsWord DEF Word
<1>4. rest \in Seq(Word) /\ Len(rest) = depth - 2
  <2>1. stack \in Seq(Word) /\ depth = Len(stack) /\ depth \in Nat
    BY <1>1, Found
  <2>2. depth - 2 \in Nat /\ depth - 2 <= Len(stack)
    BY <1>2, <2>1
  <2> QED BY <2>1, <2>2, Prefix
<1> HIDE DEF sum, rest
<1>5. stack' \in Seq(Word) /\ Len(stack') <= StackCapacity
  <2>1. depth \in Nat /\ depth <= StackCapacity /\ stack' = Append(rest, sum)
    BY <1>1, Found
  <2>2. stack' \in Seq(Word) /\ Len(stack') = depth - 2 + 1
    BY <1>3, <1>4, <2>1
  <2> QED BY <1>2, <2>1, <2>2
<1>6. ip + 1 \in Int
  BY <1>1, Found
<1> QED BY <1>1, <1>5, <1>6, Found, StayInvariant

\* A branch moves ip and nothing else.
LEMMA BranchInvariant == IInv /\ op_branch => IInv'
<1> SUFFICES ASSUME IInv, op_branch PROVE IInv'
  OBVIOUS
<1>1. Dispatch(BRANCH) /\ exact_ip(branch_target_ip) /\ UNCHANGED <<stack, frames>>
  BY DEF op_branch
<1> QED BY <1>1, Found, StayInvariant

\* A stack that has lost its top.
LEMMA Popped ==
  ASSUME IInv, depth >= 1, stack' = SubSeq(stack, 1, depth - 1)
  PROVE  stack[depth] \in Word /\ stack' \in Seq(Word) /\ Len(stack') <= StackCapacity
<1>1. stack \in Seq(Word) /\ depth = Len(stack) /\ depth \in Nat /\ depth <= StackCapacity
  BY DEF IInv, TypeOK, depth
<1>2. depth - 1 \in Nat /\ depth - 1 <= Len(stack) /\ depth - 1 <= StackCapacity
  BY <1>1, InterpreterAssumption
<1>3. stack' \in Seq(Word) /\ Len(stack') = depth - 1
  BY <1>1, <1>2, Prefix
<1>4. stack[depth] \in Word
  BY <1>1
<1> QED BY <1>2, <1>3, <1>4

\* A conditional branch takes the word it tests.
LEMMA ZeroBranchInvariant == IInv /\ op_zbranch => IInv'
<1> SUFFICES ASSUME IInv, op_zbranch PROVE IInv'
  OBVIOUS
<1>1. /\ Dispatch(ZBRANCH) /\ stack' = SubSeq(stack, 1, depth - 1) /\ UNCHANGED frames
      /\ exact_ip(branch_target_ip) \/ exact_ip(operand_ip + 1)
  BY DEF op_zbranch, advance_ip, exact_ip
<1>2. depth >= 1
  BY <1>1, Found, Requires
<1>3. stack' \in Seq(Word) /\ Len(stack') <= StackCapacity
  BY <1>1, <1>2, Found, Popped
<1>4. operand_ip + 1 \in Int
  BY <1>1, Found
<1> QED BY <1>1, <1>3, <1>4, Found, StayInvariant

\* DOCOL keeps its caller's pointer and length together and takes the callee's from one place.
LEMMA DocolInvariant == IInv /\ op_docol => IInv'
<1> SUFFICES ASSUME IInv, op_docol PROVE IInv'
  OBVIOUS
<1> DEFINE frame == [cells |-> thread_cells, length |-> thread_length, return_ip |-> ip + 1]
<1>1. /\ Dispatch(DOCOL) /\ frames' = Append(frames, frame) /\ UNCHANGED stack
      /\ Resume(current_xt + 1, ExtentIn(xts, threads, current_xt + 1), 0)
  BY Readings DEF op_docol, resolved_code_field_data
<1>2. Len(frames) + 1 <= ReturnCapacity
  BY <1>1, Found, Requires
<1>3. frame \in Frame
  <2>1. ip + 1 \in Nat
    BY <1>1, Found
  <2> QED BY <2>1 DEF IInv, TypeOK, Frame
<1>4. frame.length = ExtentIn(xts, threads, frame.cells)
  BY Lengths
<1>5. current_xt + 1 \in Nat
  BY <1>1, Found, DocolPointer DEF IInv, TypeOK
<1> HIDE DEF frame
<1>6. frames' \in Seq(Frame) /\ Len(frames') = Len(frames) + 1
  BY <1>1, <1>3, Found
<1>7. ASSUME NEW f \in 1 .. Len(frames')
      PROVE  frames'[f].length = ExtentIn(xts, threads, frames'[f].cells)
  <2>1. CASE f = Len(frames) + 1
    <3>1. frames'[f] = frame
      BY <1>1, <2>1, Found
    <3> QED BY <1>4, <3>1
  <2>2. CASE f # Len(frames) + 1
    <3>1. f \in 1 .. Len(frames) /\ frames'[f] = frames[f]
      BY <1>1, <1>6, <2>2, Found
    <3> QED BY <3>1, Lengths
  <2> QED BY <2>1, <2>2
<1>8. stack' \in Seq(Word) /\ Len(stack') <= StackCapacity
  BY <1>1, Found
<1> QED BY <1>1, <1>2, <1>5, <1>6, <1>7, <1>8, Found, ResumeInvariant

\* EXIT resumes a frame, whose pointer and length DOCOL stored together.
LEMMA ExitInvariant == IInv /\ op_exit => IInv'
<1> SUFFICES ASSUME IInv, op_exit PROVE IInv'
  OBVIOUS
<1> DEFINE frame == frames[Len(frames)]
<1>1. /\ Dispatch(EXIT) /\ frames' = SubSeq(frames, 1, Len(frames) - 1) /\ UNCHANGED stack
      /\ Resume(frame.cells, frame.length, frame.return_ip)
  BY DEF op_exit
<1>2. Len(frames) >= 1
  BY <1>1, Found, Requires
<1>3. frame \in Frame /\ frame.length = ExtentIn(xts, threads, frame.cells)
  BY <1>1, <1>2, Found, Lengths
<1>4. frame.cells \in Nat /\ frame.return_ip \in Int
  BY <1>3 DEF Frame
<1> HIDE DEF frame
<1>5. /\ frames' \in Seq(Frame) /\ Len(frames') = Len(frames) - 1
      /\ \A f \in 1 .. Len(frames') : f \in 1 .. Len(frames) /\ frames'[f] = frames[f]
  <2>1. frames \in Seq(Frame) /\ Len(frames) \in Nat /\ frames' = SubSeq(frames, 1, Len(frames) - 1)
    BY <1>1, Found
  <2>2. Len(frames) - 1 \in Nat /\ Len(frames) - 1 <= Len(frames)
    BY <1>2, <2>1
  <2> QED BY <2>1, <2>2, Prefix
<1>6. \A f \in 1 .. Len(frames') : frames'[f].length = ExtentIn(xts, threads, frames'[f].cells)
  BY <1>5, Lengths
<1>7. stack' \in Seq(Word) /\ Len(stack') <= StackCapacity /\ Len(frames') <= ReturnCapacity
  BY <1>1, <1>5, Found
<1>8. Resume(frame.cells, ExtentIn(xts, threads, frame.cells), frame.return_ip)
  BY <1>1, <1>3
<1> QED BY <1>1, <1>4, <1>5, <1>6, <1>7, <1>8, Found, ResumeInvariant

\* EXECUTE takes a word off the stack and dispatches it in the same call.
LEMMA ExecuteInvariant == IInv /\ op_execute => IInv'
<1> SUFFICES ASSUME IInv, op_execute PROVE IInv'
  OBVIOUS
<1>1. /\ Dispatch(EXECUTE) /\ stack' = SubSeq(stack, 1, depth - 1) /\ current_xt' = stack[depth]
      /\ executed' = TRUE
      /\ UNCHANGED <<scenario, xts, threads, mode, entrypoint, thread_cells, thread_length, ip, frames,
                     halt_requested, at, outcome>>
  BY DEF op_execute, Untouched, program
<1>2. depth >= 1
  BY <1>1, Found, Requires
<1>3. stack' \in Seq(Word) /\ Len(stack') <= StackCapacity /\ current_xt' \in Int
  <2>1. stack[depth] \in Word /\ stack' \in Seq(Word) /\ Len(stack') <= StackCapacity
    BY <1>1, <1>2, Found, Popped
  <2>2. stack[depth] \in Int
    BY <2>1 DEF Word
  <2> QED BY <1>1, <2>1, <2>2
<1>4. ProgramOK' /\ LengthsBelongToThreads'
  BY <1>1, ProgramKept, LengthsKept DEF IInv, program
<1>5. TypeOK'
  BY <1>1, <1>3 DEF IInv, TypeOK, depth
<1>6. FetchedAhead' /\ Going' /\ Checked' /\ Positioned'
  BY <1>1, Found DEF IInv, FetchedAhead, Going, Checked, Positioned
<1> QED BY <1>4, <1>5, <1>6 DEF IInv

\* HALT, and a handler the switch does not know, only ask for the end.
LEMMA HaltInvariant == IInv /\ HaltOrUnsupported => IInv'
<1> SUFFICES ASSUME IInv, HaltOrUnsupported PROVE IInv'
  OBVIOUS
<1>1. /\ at = "dispatch" /\ halt_requested' = TRUE /\ at' = "after"
      /\ UNCHANGED <<scenario, xts, threads, mode, entrypoint, thread_cells, thread_length, ip, current_xt,
                     stack, frames, executed, outcome>>
  BY DEF HaltOrUnsupported, Untouched, program
<1>2. ProgramOK' /\ LengthsBelongToThreads'
  BY <1>1, ProgramKept, LengthsKept DEF IInv, program
<1>3. TypeOK'
  BY <1>1 DEF IInv, TypeOK, depth
<1>4. FetchedAhead' /\ Going' /\ Checked' /\ Positioned'
  BY <1>1 DEF IInv, FetchedAhead, Going, Checked, Positioned
<1> QED BY <1>2, <1>3, <1>4 DEF IInv

\* Between two calls nothing moves.
LEMMA NextCallInvariant == IInv /\ NextCall => IInv'
<1> SUFFICES ASSUME IInv, NextCall PROVE IInv'
  OBVIOUS
<1>1. /\ at = "after" /\ ~halt_requested /\ at' = "fetch"
      /\ UNCHANGED <<scenario, xts, threads, mode, entrypoint, thread_cells, thread_length, ip, current_xt,
                     stack, frames, halt_requested, executed, outcome>>
  BY DEF NextCall, Machine, program
<1>2. ProgramOK' /\ LengthsBelongToThreads'
  BY <1>1, ProgramKept, LengthsKept DEF IInv, program
<1>3. TypeOK'
  BY <1>1 DEF IInv, TypeOK, depth
<1>4. FetchedAhead'
  BY <1>1 DEF IInv, FetchedAhead, Cell, CellOf, Readable, ExtentAt, ThreadAt
<1>5. Going' /\ Checked' /\ Positioned'
  BY <1>1 DEF IInv, Going, Checked, Positioned
<1> QED BY <1>2, <1>3, <1>4, <1>5 DEF IInv

(***************************************************************************)
(* The entry points                                                        *)
(***************************************************************************)
\* A cell outside its thread reads as 0, which is no xt of a word and no primitive: a step
\* that is allowed is at a cell of its thread.
LEMMA StepPosition ==
  ASSUME IInv, StepAllowed
  PROVE  ip >= -1 /\ Preflight(Cell(ip))
<1>1. ip \in Int /\ Preflight(Cell(ip))
  BY DEF IInv, TypeOK, StepAllowed
<1>2. ASSUME ip < -1 PROVE FALSE
  <2>1. Cell(ip) = 0
    BY <1>1, <1>2, CellType, Readings DEF IInv, Cell, CellOf, Readable
  <2>2. WordOfXt(xts, 0) = 0
    BY DEF IInv, ProgramOK, WordOfXt, LiteralValues
  <2>3. HandlerOfXt(scenario, xts, 0) = 0
    BY <2>2 DEF HandlerOfXt
  <2>4. 0 \in Described
    BY <1>1, <2>1, <2>3 DEF Preflight
  <2> QED BY <2>4 DEF Described
<1> QED BY <1>1, <1>2

\* A call by xt is of a word of the program.
LEMMA DirectCallInvariant == IInv /\ DirectCall => IInv'
<1> SUFFICES ASSUME IInv, DirectCall PROVE IInv'
  OBVIOUS
<1> DEFINE xt == xts[scenario.direct]
<1>1. /\ at = "fetch" /\ entrypoint = "none" /\ scenario.direct # 0
      /\ mode = "step" => Preflight(xt)
      /\ Call("lowered_step_xt", xt)
  BY DEF DirectCall, Direct, NotStarted
<1>2. scenario.direct \in 1 .. Len(scenario.words)
  BY <1>1 DEF IInv, ProgramOK
<1>3. xt \in Int
  BY <1>2 DEF IInv, ProgramOK, LiteralValues
<1>4. ip >= -1
  BY <1>1 DEF IInv, Positioned
<1> QED BY <1>1, <1>3, <1>4, CallInvariant

\* A step, or a run's fetch, calls with the cell at ip.
LEMMA FetchInvariant == IInv /\ (StepCall \/ RunFetch) => IInv'
<1> SUFFICES ASSUME IInv, StepCall \/ RunFetch PROVE IInv'
  OBVIOUS
<1>1. Cell(ip) \in Int /\ ip \in Int
  BY CellType, Readings DEF IInv, TypeOK, Cell, Word
<1>2. CASE StepCall
  <2>1. at = "fetch" /\ StepAllowed /\ Call("lowered_step", Cell(ip))
    BY <1>2 DEF StepCall
  <2> QED BY <1>1, <2>1, StepPosition, CallInvariant
<1>3. CASE RunFetch
  <2>1. mode = "run" /\ at = "fetch" /\ Readable(thread_cells, ip) /\ Call("lowered_run", Cell(ip))
    BY <1>3 DEF RunFetch
  <2>2. ip >= -1
    BY <1>1, <2>1 DEF Readable
  <2> QED BY <1>1, <2>1, <2>2, CallInvariant
<1> QED BY <1>2, <1>3

\* Every step.
LEMMA NextInvariant == IInv /\ [Next]_vars => IInv'
<1> SUFFICES ASSUME IInv, [Next]_vars PROVE IInv'
  OBVIOUS
<1>1. CASE DirectCall
  BY <1>1, DirectCallInvariant
<1>2. CASE StepCall \/ RunFetch
  BY <1>2, FetchInvariant
<1>3. CASE StepRefused
  <2>1. End("refused") /\ UNCHANGED <<Machine, program, entrypoint>>
    BY <1>3 DEF StepRefused
  <2> QED BY <2>1, EndInvariant
<1>4. CASE RunFetchOverrun \/ HandlerOverrun
  <2>1. End("overrun") /\ UNCHANGED <<Machine, program, entrypoint>>
    BY <1>4 DEF RunFetchOverrun, HandlerOverrun
  <2> QED BY <2>1, EndInvariant
<1>5. CASE op_lit \/ op_add \/ op_branch \/ op_zbranch
  BY <1>5, LitInvariant, AddInvariant, BranchInvariant, ZeroBranchInvariant
<1>6. CASE op_docol \/ op_exit \/ op_execute \/ HaltOrUnsupported
  BY <1>6, DocolInvariant, ExitInvariant, ExecuteInvariant, HaltInvariant
<1>7. CASE Halted
  <2>1. End("halted") /\ UNCHANGED <<Machine, program, entrypoint>>
    BY <1>7 DEF Halted
  <2> QED BY <2>1, EndInvariant
<1>8. CASE RunReturns
  <2>1. End("ran_off") /\ UNCHANGED <<Machine, program, entrypoint>>
    BY <1>8 DEF RunReturns
  <2> QED BY <2>1, EndInvariant
<1>9. CASE NextCall
  BY <1>9, NextCallInvariant
<1>10. CASE UNCHANGED vars
  <2>1. UNCHANGED <<scenario, xts, threads, mode, entrypoint, thread_cells, thread_length, ip,
                    current_xt, stack, frames, halt_requested, executed, at, outcome>>
    BY <1>10 DEF vars
  <2>2. ProgramOK' /\ LengthsBelongToThreads'
    BY <2>1, ProgramKept, LengthsKept DEF IInv, program
  <2>3. TypeOK'
    BY <2>1 DEF IInv, TypeOK, depth
  <2>4. FetchedAhead'
    BY <2>1 DEF IInv, FetchedAhead, Cell, CellOf, Readable, ExtentAt, ThreadAt
  <2>5. Checked'
    BY <2>1 DEF IInv, Checked, resolved_handler_id, depth
  <2>6. Going' /\ Positioned'
    BY <2>1 DEF IInv, Going, Positioned
  <2> QED BY <2>2, <2>3, <2>4, <2>5, <2>6 DEF IInv
<1> QED BY <1>1, <1>2, <1>3, <1>4, <1>5, <1>6, <1>7, <1>8, <1>9, <1>10 DEF Next

\* The invariant holds.
LEMMA InvariantHolds == Spec => []IInv
<1>1. Init => IInv
  BY InitInvariant
<1>2. IInv /\ [Next]_vars => IInv'
  BY NextInvariant
<1> QED BY <1>1, <1>2, PTL DEF Spec

(***************************************************************************)
(* The theorems                                                            *)
(***************************************************************************)
\* Whatever the program, the words on the data stack stay 32-bit words, DOCOL never stores
\* a negative pointer or return position, and neither stack outgrows its array.
THEOREM TypeCorrect == Spec => []TypeOK
<1>1. IInv => TypeOK
  BY DEF IInv
<1> QED BY <1>1, InvariantHolds, PTL

\* Lengths stay with the threads they belong to through any nest of DOCOL and EXIT, and
\* what Python reads as the next xt between two words is the cell at ip.
THEOREM StateConsistent == Spec => []StateIsConsistent
<1>1. IInv => StateIsConsistent
  BY DEF IInv, FetchedAhead, Going, StateIsConsistent, FetchAgreesWithIp
<1> QED BY <1>1, InvariantHolds, PTL

\* The operand of an instruction lies in its thread; a word that EXECUTE installs has none.
OperandPresent ==
  at = "dispatch" /\ ~executed /\ resolved_handler_id \in InlineOperand
    => Readable(thread_cells, ip + 1)

\* A step reaches outside the arrays from an unchecked word only.
LEMMA StepProtected ==
  IInv /\ OperandPresent /\ [Next]_vars
    => [mode = "step" /\ outcome' = "overrun" => executed]_vars
<1> SUFFICES ASSUME IInv, OperandPresent, Next, mode = "step", outcome' = "overrun" PROVE executed
  BY DEF vars
<1>1. CASE HandlerOverrun
  <2> SUFFICES ASSUME ~executed PROVE FALSE
    OBVIOUS
  <2>1. at = "dispatch" /\ ~Sound(resolved_handler_id)
    BY <1>1 DEF HandlerOverrun
  <2>2. ~Meets(resolved_handler_id, depth, Len(frames))
    BY <2>1 DEF Sound, OperandPresent
  <2> QED BY <2>1, <2>2 DEF IInv, Checked
<1>2. CASE RunFetchOverrun
  BY <1>2 DEF RunFetchOverrun
<1>3. CASE StepRefused \/ Halted \/ RunReturns
  BY <1>3 DEF StepRefused, Halted, RunReturns, End
<1>4. ASSUME at # "stopped", UNCHANGED outcome PROVE FALSE
  BY <1>4 DEF IInv, Going
<1>5. CASE DirectCall \/ StepCall \/ RunFetch
  BY <1>4, <1>5 DEF DirectCall, StepCall, RunFetch, Call
<1>6. CASE op_lit \/ op_add \/ op_branch \/ op_zbranch
  BY <1>4, <1>6 DEF op_lit, op_add, op_branch, op_zbranch, Dispatch, advance_ip, exact_ip, Resume
<1>7. CASE op_docol \/ op_exit \/ op_execute \/ HaltOrUnsupported \/ NextCall
  BY <1>4, <1>7 DEF op_docol, op_exit, op_execute, HaltOrUnsupported, NextCall, Dispatch, Resume
<1> QED BY <1>1, <1>2, <1>3, <1>5, <1>6, <1>7 DEF Next

\* The preflight looks at the stacks and not at operands: where every instruction has its
\* operand, a stepped program of any kind reaches outside an array only in a word that
\* EXECUTE dispatched behind the preflight's back.
THEOREM PreflightProtects == Spec /\ []OperandPresent => OnlyExecuteOverruns
<1>1. IInv /\ OperandPresent /\ [Next]_vars
        => [mode = "step" /\ outcome' = "overrun" => executed]_vars
  BY StepProtected
<1> QED BY <1>1, InvariantHolds, PTL DEF Spec, OnlyExecuteOverruns

(***************************************************************************)
(* How instructions lie in cells: nothing of the constants is used here    *)
(***************************************************************************)
HIDE HalfAssumption
HIDE InterpreterAssumption

StartStep(g, body, i) == IF i = 1 THEN 0 ELSE g[i - 1] + Size(body[i - 1])
IsStarts(g, body, n) == g = [i \in 1 .. n + 1 |-> StartStep(g, body, i)]

\* The sum of the sizes is defined up to any instruction.
LEMMA StartsExist ==
  ASSUME NEW body, NEW w \in Nat
  PROVE  \E g : IsStarts(g, body, w)
<1> DEFINE S == {n \in Nat : \E g : IsStarts(g, body, n)}
<1>1. 0 \in S
  <2> DEFINE g == [i \in 1 .. 0 + 1 |-> 0]
  <2>1. g = [i \in 1 .. 0 + 1 |-> StartStep(g, body, i)]
    BY DEF StartStep
  <2>2. IsStarts(g, body, 0)
    BY <2>1 DEF IsStarts
  <2> QED BY <2>2
<1>2. ASSUME NEW n \in Nat, n \in S PROVE n + 1 \in S
  <2>1. PICK g : IsStarts(g, body, n)
    BY <1>2
  <2> DEFINE last == g[n + 1] + Size(body[n + 1])
             h == [i \in 1 .. (n + 1) + 1 |-> IF i = n + 2 THEN last ELSE g[i]]
  <2>2. ASSUME NEW i \in 1 .. (n + 1) + 1 PROVE h[i] = StartStep(h, body, i)
    <3>1. CASE i = n + 2
      <4>1. h[i] = last /\ i # 1 /\ i - 1 = n + 1 /\ n + 1 \in 1 .. (n + 1) + 1 /\ n + 1 # n + 2
        BY <3>1
      <4>2. h[i - 1] = g[n + 1]
        BY <4>1
      <4>3. StartStep(h, body, i) = h[i - 1] + Size(body[i - 1])
        BY <4>1 DEF StartStep
      <4>4. StartStep(h, body, i) = g[n + 1] + Size(body[n + 1])
        BY <4>1, <4>2, <4>3, Zenon
      <4> QED BY <4>1, <4>4
    <3>2. CASE i # n + 2
      <4>1. i \in 1 .. n + 1 /\ h[i] = g[i]
        BY <3>2
      <4>2. g[i] = StartStep(g, body, i)
        <5>1. g = [j \in 1 .. n + 1 |-> StartStep(g, body, j)]
          BY <2>1 DEF IsStarts
        <5> QED BY <4>1, <5>1
      <4>3. i # 1 => h[i - 1] = g[i - 1]
        BY <3>2
      <4> HIDE DEF h
      <4> QED BY <4>1, <4>2, <4>3 DEF StartStep
    <3> QED BY <3>1, <3>2
  <2>3. h = [i \in 1 .. (n + 1) + 1 |-> h[i]]
    OBVIOUS
  <2> HIDE DEF h
  <2>4. h = [i \in 1 .. (n + 1) + 1 |-> StartStep(h, body, i)]
    BY <2>2, <2>3
  <2>5. IsStarts(h, body, n + 1)
    BY <2>4 DEF IsStarts
  <2> QED BY <2>5
<1> HIDE DEF S
<1>3. w \in S
  BY <1>1, <1>2, NatSetInduction
<1> QED BY <1>3 DEF S

\* Instructions lie one behind the other, from cell 0.
LEMMA StartsFacts ==
  ASSUME NEW body, Len(body) \in Nat
  PROVE  /\ DOMAIN Starts(body) = 1 .. Len(body) + 1
         /\ Starts(body)[1] = 0
         /\ \A i \in 1 .. Len(body) + 1 : Starts(body)[i] \in Nat
         /\ \A i \in 1 .. Len(body) : Starts(body)[i + 1] = Starts(body)[i] + Size(body[i])
<1> DEFINE n == Len(body)
           start == Starts(body)
<1>1. start = [i \in 1 .. n + 1 |-> StartStep(start, body, i)]
  <2>1. PICK g : IsStarts(g, body, n)
    BY StartsExist
  <2>2. g = [i \in 1 .. n + 1 |-> IF i = 1 THEN 0 ELSE g[i - 1] + Size(body[i - 1])]
    BY <2>1 DEF IsStarts, StartStep
  <2>3. start = CHOOSE f : f = [i \in 1 .. n + 1 |-> IF i = 1 THEN 0 ELSE f[i - 1] + Size(body[i - 1])]
    BY DEF Starts
  <2>4. start = [i \in 1 .. n + 1 |-> IF i = 1 THEN 0 ELSE start[i - 1] + Size(body[i - 1])]
    BY <2>2, <2>3
  <2> QED BY <2>4 DEF StartStep
<1> HIDE DEF start
<1>2. DOMAIN start = 1 .. n + 1 /\ start[1] = 0
  BY <1>1 DEF StartStep
<1>3. ASSUME NEW i \in 1 .. n PROVE start[i + 1] = start[i] + Size(body[i])
  <2>1. i + 1 \in 1 .. n + 1 /\ i + 1 # 1 /\ (i + 1) - 1 = i
    OBVIOUS
  <2>2. start[i + 1] = StartStep(start, body, i + 1)
    BY <1>1, <2>1
  <2>3. StartStep(start, body, i + 1) = start[(i + 1) - 1] + Size(body[(i + 1) - 1])
    BY <2>1 DEF StartStep
  <2> QED BY <2>1, <2>2, <2>3, Zenon
<1> DEFINE S == {i \in Nat : i + 1 <= n + 1 => start[i + 1] \in Nat}
<1>4. Nat \subseteq S
  <2>1. 0 \in S
    BY <1>2
  <2>2. ASSUME NEW i \in Nat, i \in S PROVE i + 1 \in S
    <3>1. SUFFICES ASSUME (i + 1) + 1 <= n + 1 PROVE start[(i + 1) + 1] \in Nat
      OBVIOUS
    <3>2. i + 1 \in 1 .. n /\ start[i + 1] \in Nat
      BY <2>2, <3>1
    <3>3. start[(i + 1) + 1] = start[i + 1] + Size(body[i + 1])
      BY <1>3, <3>2
    <3>4. Size(body[i + 1]) \in Nat
      BY DEF Size
    <3> QED BY <3>2, <3>3, <3>4
  <2> HIDE DEF S
  <2> QED BY <2>1, <2>2, NatSetInduction
<1>5. ASSUME NEW i \in 1 .. n + 1 PROVE start[i] \in Nat
  <2>1. i - 1 \in Nat /\ (i - 1) + 1 = i
    OBVIOUS
  <2>2. i - 1 \in S
    BY <1>4, <2>1
  <2> QED BY <2>1, <2>2
<1> QED BY <1>2, <1>3, <1>5 DEF start

\* A later instruction starts behind an earlier one.
LEMMA StartsRise ==
  ASSUME NEW body, Len(body) \in Nat,
         NEW i \in 1 .. Len(body), NEW j \in 1 .. Len(body) + 1, i < j
  PROVE  Starts(body)[i] + Size(body[i]) <= Starts(body)[j]
<1> DEFINE start == Starts(body)
           n == Len(body)
           S == {d \in Nat : i + d + 1 <= n + 1 => start[i + 1] <= start[i + d + 1]}
<1>1. /\ \A k \in 1 .. n + 1 : start[k] \in Nat
      /\ \A k \in 1 .. n : start[k + 1] = start[k] + Size(body[k])
  BY StartsFacts
<1>2. \A k \in 1 .. n : Size(body[k]) \in Nat
  BY DEF Size
<1> HIDE DEF start
<1>3. 0 \in S
  BY <1>1
<1>4. ASSUME NEW d \in Nat, d \in S PROVE d + 1 \in S
  <2>1. SUFFICES ASSUME i + (d + 1) + 1 <= n + 1 PROVE start[i + 1] <= start[i + (d + 1) + 1]
    OBVIOUS
  <2>2. i + d + 1 \in 1 .. n /\ i + 1 \in 1 .. n + 1 /\ (i + d + 1) + 1 = i + (d + 1) + 1
    BY <2>1
  <2>3. start[i + 1] <= start[i + d + 1]
    BY <1>4, <2>2
  <2>4. start[(i + d + 1) + 1] = start[i + d + 1] + Size(body[i + d + 1])
    BY <1>1, <2>2
  <2>5. start[i + 1] \in Nat /\ start[i + d + 1] \in Nat /\ Size(body[i + d + 1]) \in Nat
    BY <1>1, <1>2, <2>2
  <2> QED BY <2>2, <2>3, <2>4, <2>5
<1>5. j - (i + 1) \in S
  <2>1. j - (i + 1) \in Nat
    OBVIOUS
  <2> HIDE DEF S
  <2>2. Nat \subseteq S
    BY <1>3, <1>4, NatSetInduction
  <2> QED BY <2>1, <2>2
<1>6. i + (j - (i + 1)) + 1 = j
  OBVIOUS
<1>7. start[i + 1] <= start[j]
  BY <1>5, <1>6
<1>8. start[i + 1] = start[i] + Size(body[i])
  BY <1>1
<1> QED BY <1>7, <1>8 DEF start

\* Two instructions do not share a start, nor a cell.
LEMMA StartsDiffer ==
  ASSUME NEW body, Len(body) \in Nat,
         NEW i \in 1 .. Len(body) + 1, NEW j \in 1 .. Len(body) + 1, Starts(body)[i] = Starts(body)[j]
  PROVE  i = j
<1>1. \A k \in 1 .. Len(body) + 1 : Starts(body)[k] \in Nat
  BY StartsFacts
<1>2. \A k \in 1 .. Len(body) : Size(body[k]) \in {1, 2}
  BY DEF Size
<1>3. CASE i < j
  <2>1. i \in 1 .. Len(body)
    BY <1>3
  <2>2. Starts(body)[i] + Size(body[i]) <= Starts(body)[j]
    BY <1>3, <2>1, StartsRise
  <2>3. Size(body[i]) \in {1, 2} /\ Starts(body)[i] \in Nat
    BY <1>1, <1>2, <2>1
  <2> QED BY <2>2, <2>3
<1>4. CASE j < i
  <2>1. j \in 1 .. Len(body)
    BY <1>4
  <2>2. Starts(body)[j] + Size(body[j]) <= Starts(body)[i]
    BY <1>4, <2>1, StartsRise
  <2>3. Size(body[j]) \in {1, 2} /\ Starts(body)[j] \in Nat
    BY <1>1, <1>2, <2>1
  <2> QED BY <2>2, <2>3
<1> QED BY <1>3, <1>4

\* The words of a program, one by one.
LEMMA WordsType ==
  ASSUME NEW s, WellFormed(s)
  PROVE  /\ Len(s.words) \in Nat
         /\ \A k \in 1 .. Len(s.words) :
              /\ s.words[k].name_cells \in Nat
              /\ s.words[k].handler \in Nat \ InlineOperand
              /\ s.words[k].body \in Seq(Instructions)
<1> DEFINE R == [name_cells : Nat, handler : Nat \ InlineOperand, body : Seq(Instructions)]
           ws == s.words
<1>1. ws \in Seq(R)
  BY DEF WellFormed
<1> HIDE DEF R, ws
<1>2. Len(ws) \in Nat /\ \A k \in 1 .. Len(ws) : ws[k] \in R
  BY <1>1
<1> QED BY <1>2 DEF R, ws

\* A thread's body is a sequence of instructions, and there is none for another number.
LEMMA BodyType ==
  ASSUME NEW s, WellFormed(s), NEW t
  PROVE  Body(s, t) \in Seq(Instructions) /\ Len(Body(s, t)) \in Nat
<1>1. s.entry \in Seq(Instructions) /\ \A k \in 1 .. Len(s.words) : s.words[k].body \in Seq(Instructions)
  BY WordsType DEF WellFormed
<1>2. CASE t = 0
  BY <1>1, <1>2 DEF Body
<1>3. CASE t # 0 /\ t \in 1 .. Len(s.words)
  <2>1. Body(s, t) = s.words[t].body
    BY <1>3 DEF Body
  <2>2. Body(s, t) \in Seq(Instructions)
    BY <1>1, <1>3, <2>1
  <2> QED BY <2>2
<1>4. CASE t # 0 /\ t \notin 1 .. Len(s.words)
  BY <1>4 DEF Body
<1> QED BY <1>2, <1>3, <1>4

\* Every cell of a thread but operands is an instruction's opcode, and its operand lies behind it.
LEMMA ThreadCells ==
  ASSUME NEW s, WellFormed(s), NEW t \in 0 .. Len(s.words)
  PROVE  LET body == Body(s, t)
             start == Starts(body)
         IN  /\ DOMAIN Threads(s)[t] = 0 .. Extent(s, t) - 1
             /\ \A i \in 1 .. Len(body) :
                  /\ start[i] \in DOMAIN Threads(s)[t]
                  /\ Threads(s)[t][start[i]] = Opcode(Xts(s), body[i])
                  /\ Size(body[i]) = 2 =>
                       /\ start[i] + 1 \in DOMAIN Threads(s)[t]
                       /\ Threads(s)[t][start[i] + 1] = Operand(Xts(s), start, i, body[i])
<1> DEFINE body == Body(s, t)
           start == Starts(body)
           n == Len(body)
           At(c) == CHOOSE i \in 1 .. n : start[i] <= c /\ c < start[i + 1]
           Value(i, c) == IF c = start[i] THEN Opcode(Xts(s), body[i]) ELSE Operand(Xts(s), start, i, body[i])
           cells == [c \in 0 .. start[n + 1] - 1 |-> Value(At(c), c)]
<1>1. n \in Nat
  BY BodyType
<1>2. Threads(s)[t] = cells
  BY DEF Threads
<1>3. /\ \A k \in 1 .. n + 1 : start[k] \in Nat
      /\ \A k \in 1 .. n : start[k + 1] = start[k] + Size(body[k])
  BY <1>1, StartsFacts
<1>4. \A k \in 1 .. n : Size(body[k]) \in {1, 2}
  BY DEF Size
<1>5. \A i \in 1 .. n, j \in 1 .. n + 1 : i < j => start[i] + Size(body[i]) <= start[j]
  BY <1>1, StartsRise
<1>6. Extent(s, t) = start[n + 1]
  BY DEF Extent
<1> HIDE DEF start, body, n
<1>7. ASSUME NEW i \in 1 .. n, NEW c \in Nat, start[i] <= c, c < start[i + 1]
      PROVE  c \in 0 .. start[n + 1] - 1 /\ At(c) = i
  <2>1. i + 1 \in 1 .. n + 1 /\ start[i + 1] \in Nat /\ start[n + 1] \in Nat /\ start[i] \in Nat
    BY <1>1, <1>3
  <2>2. start[i + 1] <= start[n + 1]
    BY <1>1, <1>3, <1>5, <2>1
  <2>3. ASSUME NEW j \in 1 .. n, start[j] <= c, c < start[j + 1] PROVE j = i
    <3>1. start[j] \in Nat /\ start[j + 1] \in Nat /\ start[j + 1] = start[j] + Size(body[j])
      BY <1>1, <1>3, <2>3
    <3>2. start[i + 1] = start[i] + Size(body[i])
      BY <1>3
    <3>3. ~(i < j)
      <4>1. i < j => start[i] + Size(body[i]) <= start[j]
        BY <1>1, <1>5
      <4> QED BY <1>7, <2>1, <2>3, <3>1, <3>2, <4>1
    <3>4. ~(j < i)
      <4>1. j < i => start[j] + Size(body[j]) <= start[i]
        BY <1>1, <1>5
      <4> QED BY <1>7, <2>1, <2>3, <3>1, <3>2, <4>1
    <3> QED BY <1>1, <3>3, <3>4
  <2>4. At(c) = i
    BY <1>7, <2>3
  <2> QED BY <1>7, <2>1, <2>2, <2>4
<1> HIDE DEF At, Value
<1>8. /\ DOMAIN cells = 0 .. Extent(s, t) - 1
      /\ \A c \in 0 .. start[n + 1] - 1 : cells[c] = Value(At(c), c)
  BY <1>6
<1>9. ASSUME NEW i \in 1 .. n PROVE start[i] \in DOMAIN cells /\ cells[start[i]] = Opcode(Xts(s), body[i])
  <2>1. start[i] \in Nat /\ start[i] <= start[i] /\ start[i] < start[i + 1]
    BY <1>1, <1>3, <1>4
  <2>2. start[i] \in 0 .. start[n + 1] - 1 /\ At(start[i]) = i
    BY <1>7, <2>1
  <2>3. cells[start[i]] = Value(i, start[i])
    BY <1>8, <2>2
  <2> QED BY <1>6, <1>8, <2>2, <2>3 DEF Value
<1>10. ASSUME NEW i \in 1 .. n, Size(body[i]) = 2
       PROVE  start[i] + 1 \in DOMAIN cells /\ cells[start[i] + 1] = Operand(Xts(s), start, i, body[i])
  <2>1. start[i] + 1 \in Nat /\ start[i] <= start[i] + 1 /\ start[i] + 1 < start[i + 1] /\ start[i] + 1 # start[i]
    <3>1. start[i] \in Nat /\ start[i + 1] = start[i] + 2
      BY <1>1, <1>3, <1>10
    <3> QED BY <3>1
  <2>2. start[i] + 1 \in 0 .. start[n + 1] - 1 /\ At(start[i] + 1) = i
    BY <1>7, <2>1
  <2>3. cells[start[i] + 1] = Value(i, start[i] + 1)
    BY <1>8, <2>2
  <2> QED BY <1>6, <1>8, <2>1, <2>2, <2>3 DEF Value
<1> HIDE DEF cells
<1> QED BY <1>2, <1>8, <1>9, <1>10 DEF start, body, n

XtStep(g, s, k) ==
  s.words[k].name_cells + 1 + (IF k = 1 THEN 0 ELSE g[k - 1] + 1 + Extent(s, k - 1))
IsXts(g, s, n) == g = [k \in 1 .. n |-> XtStep(g, s, k)]

\* The code fields are defined up to any word.
LEMMA XtsExist ==
  ASSUME NEW s, NEW w \in Nat
  PROVE  \E g : IsXts(g, s, w)
<1> DEFINE S == {n \in Nat : \E g : IsXts(g, s, n)}
<1>1. 0 \in S
  <2> DEFINE g == [k \in 1 .. 0 |-> 0]
  <2>1. g = [k \in 1 .. 0 |-> XtStep(g, s, k)]
    OBVIOUS
  <2>2. IsXts(g, s, 0)
    BY <2>1 DEF IsXts
  <2> QED BY <2>2
<1>2. ASSUME NEW n \in Nat, n \in S PROVE n + 1 \in S
  <2>1. PICK g : IsXts(g, s, n)
    BY <1>2
  <2> DEFINE last == XtStep(g, s, n + 1)
             h == [k \in 1 .. n + 1 |-> IF k = n + 1 THEN last ELSE g[k]]
  <2>2. ASSUME NEW k \in 1 .. n + 1 PROVE h[k] = XtStep(h, s, k)
    <3>1. CASE k = n + 1
      <4>1. h[k] = XtStep(g, s, k)
        BY <3>1
      <4>2. k # 1 => h[k - 1] = g[k - 1]
        BY <3>1
      <4> HIDE DEF h, last
      <4> QED BY <4>1, <4>2 DEF XtStep
    <3>2. CASE k # n + 1
      <4>1. k \in 1 .. n /\ h[k] = g[k]
        BY <3>2
      <4>2. g[k] = XtStep(g, s, k)
        <5>1. g = [j \in 1 .. n |-> XtStep(g, s, j)]
          BY <2>1 DEF IsXts
        <5> QED BY <4>1, <5>1
      <4>3. k # 1 => h[k - 1] = g[k - 1]
        BY <3>2
      <4> HIDE DEF h
      <4> QED BY <4>1, <4>2, <4>3 DEF XtStep
    <3> QED BY <3>1, <3>2
  <2>3. h = [k \in 1 .. n + 1 |-> h[k]]
    OBVIOUS
  <2> HIDE DEF h
  <2>4. h = [k \in 1 .. n + 1 |-> XtStep(h, s, k)]
    BY <2>2, <2>3
  <2>5. IsXts(h, s, n + 1)
    BY <2>4 DEF IsXts
  <2> QED BY <2>5
<1> HIDE DEF S
<1>3. w \in S
  BY <1>1, <1>2, NatSetInduction
<1> QED BY <1>3 DEF S

\* A word's code field lies behind those of the words before it.
LEMMA XtsRise ==
  ASSUME NEW s, WellFormed(s)
  PROVE  /\ Len(s.words) \in Nat /\ DOMAIN Xts(s) = 1 .. Len(s.words)
         /\ \A k \in 1 .. Len(s.words) : Xts(s)[k] \in Nat \ {0}
         /\ \A j, k \in 1 .. Len(s.words) : j < k => Xts(s)[j] < Xts(s)[k]
<1> DEFINE n == Len(s.words)
           cfa == CHOOSE g : g = [k \in 1 .. n |->
                    s.words[k].name_cells + 1 + (IF k = 1 THEN 0 ELSE g[k - 1] + 1 + Extent(s, k - 1))]
<1>1. n \in Nat /\ \A k \in 1 .. n : s.words[k].name_cells \in Nat
  BY WordsType
<1>2. cfa = [k \in 1 .. n |-> XtStep(cfa, s, k)]
  <2>1. PICK g : IsXts(g, s, n)
    BY <1>1, XtsExist
  <2>2. g = [k \in 1 .. n |->
               s.words[k].name_cells + 1 + (IF k = 1 THEN 0 ELSE g[k - 1] + 1 + Extent(s, k - 1))]
    BY <2>1 DEF IsXts, XtStep
  <2>3. cfa = [k \in 1 .. n |->
               s.words[k].name_cells + 1 + (IF k = 1 THEN 0 ELSE cfa[k - 1] + 1 + Extent(s, k - 1))]
    BY <2>2
  <2> QED BY <2>3 DEF XtStep
<1>3. Xts(s) = [k \in 1 .. n |-> cfa[k]]
  BY DEF Xts
<1> HIDE DEF cfa
<1>4. ASSUME NEW k \in 0 .. n PROVE Extent(s, k) \in Nat
  <2>1. Len(Body(s, k)) \in Nat
    BY BodyType
  <2>2. Len(Body(s, k)) + 1 \in 1 .. Len(Body(s, k)) + 1
    BY <2>1
  <2>3. \A i \in 1 .. Len(Body(s, k)) + 1 : Starts(Body(s, k))[i] \in Nat
    BY <2>1, StartsFacts
  <2> QED BY <2>2, <2>3 DEF Extent
<1>5. ASSUME NEW k \in 1 .. n PROVE cfa[k] = XtStep(cfa, s, k)
  BY <1>2
<1>6. n # 0 => cfa[1] \in Nat \ {0}
  <2>1. SUFFICES ASSUME n # 0 PROVE cfa[1] \in Nat \ {0}
    OBVIOUS
  <2>2. 1 \in 1 .. n
    BY <1>1, <2>1
  <2>3. cfa[1] = s.words[1].name_cells + 1 + 0
    BY <1>5, <2>2 DEF XtStep
  <2> QED BY <1>1, <2>2, <2>3
<1>7. ASSUME NEW k \in 1 .. n, k + 1 <= n, cfa[k] \in Nat \ {0}
      PROVE  cfa[k + 1] \in Nat \ {0} /\ cfa[k] < cfa[k + 1]
  <2>1. k + 1 \in 1 .. n /\ k + 1 # 1 /\ (k + 1) - 1 = k
    BY <1>1, <1>7
  <2>2. cfa[k + 1] = s.words[k + 1].name_cells + 1 + (cfa[k] + 1 + Extent(s, k))
    <3>1. cfa[k + 1] = s.words[k + 1].name_cells + 1 + (cfa[(k + 1) - 1] + 1 + Extent(s, (k + 1) - 1))
      BY <1>5, <2>1, Zenon DEF XtStep
    <3> QED BY <2>1, <3>1
  <2>3. s.words[k + 1].name_cells \in Nat /\ Extent(s, k) \in Nat
    BY <1>1, <1>4, <2>1
  <2>4. \A a, b, c \in Nat : b + 1 + (a + 1 + c) \in Nat \ {0} /\ a < b + 1 + (a + 1 + c)
    OBVIOUS
  <2> QED BY <1>7, <2>2, <2>3, <2>4, Zenon
<1> DEFINE S == {k \in Nat : \A m \in 1 .. k : m <= n =>
                   /\ cfa[m] \in Nat \ {0}
                   /\ \A j \in 1 .. m - 1 : cfa[j] < cfa[m]}
<1>8. 0 \in S
  OBVIOUS
<1>9. ASSUME NEW k \in Nat, k \in S PROVE k + 1 \in S
  <2>1. SUFFICES ASSUME k + 1 <= n
                 PROVE  cfa[k + 1] \in Nat \ {0} /\ \A j \in 1 .. k : cfa[j] < cfa[k + 1]
    <3>1. \A m \in 1 .. k + 1 : m \in 1 .. k \/ m = k + 1
      OBVIOUS
    <3>2. (k + 1) - 1 = k
      OBVIOUS
    <3> QED BY <1>9, <3>1, <3>2
  <2>2. CASE k = 0
    BY <1>1, <1>6, <2>1, <2>2
  <2>3. CASE k # 0
    <3>1. k \in 1 .. k /\ k \in 1 .. n
      BY <1>1, <2>1, <2>3
    <3>2. cfa[k] \in Nat \ {0} /\ \A j \in 1 .. k - 1 : cfa[j] < cfa[k]
      BY <1>9, <3>1
    <3>3. cfa[k + 1] \in Nat \ {0} /\ cfa[k] < cfa[k + 1]
      BY <1>7, <2>1, <3>1, <3>2
    <3>4. ASSUME NEW j \in 1 .. k PROVE cfa[j] < cfa[k + 1]
      <4>1. CASE j = k
        BY <3>3, <4>1
      <4>2. CASE j # k
        <5>1. j \in 1 .. k - 1 /\ j \in 1 .. k /\ j <= n
          BY <2>1, <4>2
        <5>2. cfa[j] \in Nat /\ cfa[j] < cfa[k]
          BY <1>9, <3>2, <5>1
        <5> QED BY <3>2, <3>3, <5>2
      <4> QED BY <4>1, <4>2
    <3> QED BY <3>3, <3>4
  <2> QED BY <2>2, <2>3
<1>10. n \in S
  <2> HIDE DEF S
  <2> QED BY <1>1, <1>8, <1>9, NatSetInduction
<1>11. \A k \in 1 .. n : cfa[k] \in Nat \ {0} /\ \A j \in 1 .. k - 1 : cfa[j] < cfa[k]
  BY <1>1, <1>10
<1>12. \A j, k \in 1 .. n : j < k => j \in 1 .. k - 1
  BY <1>1
<1>13. DOMAIN Xts(s) = 1 .. n /\ \A k \in 1 .. n : Xts(s)[k] = cfa[k]
  BY <1>3
<1> HIDE DEF n
<1>14. \A j, k \in 1 .. n : j < k => Xts(s)[j] < Xts(s)[k]
  BY <1>11, <1>12, <1>13
<1> QED BY <1>1, <1>11, <1>13, <1>14 DEF n

\* A word is found by its own code field.
LEMMA WordFound ==
  ASSUME NEW s, WellFormed(s), NEW k \in 1 .. Len(s.words)
  PROVE  WordOfXt(Xts(s), Xts(s)[k]) = k
<1>1. /\ DOMAIN Xts(s) = 1 .. Len(s.words) /\ Len(s.words) \in Nat
      /\ \A j \in 1 .. Len(s.words) : Xts(s)[j] \in Nat
      /\ \A i, j \in 1 .. Len(s.words) : i < j => Xts(s)[i] < Xts(s)[j]
  BY XtsRise
<1>2. ASSUME NEW j \in DOMAIN Xts(s), Xts(s)[j] = Xts(s)[k] PROVE j = k
  <2>1. j \in 1 .. Len(s.words) /\ j \in Nat /\ k \in Nat /\ Xts(s)[k] \in Nat
    BY <1>1
  <2>2. ~(j < k) /\ ~(k < j)
    BY <1>1, <1>2, <2>1
  <2> QED BY <2>1, <2>2
<1>3. k \in DOMAIN Xts(s)
  BY <1>1
<1> QED BY <1>2, <1>3 DEF WordOfXt

(***************************************************************************)
(* What ForthMachine takes from ThreadCode is what the interpreter takes.  *)
(***************************************************************************)
\* The numbers of the handlers.
LEMMA SameHandlers ==
  /\ Machine0!ADD = ADD /\ Machine0!EXIT = EXIT /\ Machine0!EXECUTE = EXECUTE /\ Machine0!LIT = LIT
  /\ Machine0!BRANCH = BRANCH /\ Machine0!ZBRANCH = ZBRANCH /\ Machine0!DOCOL = DOCOL /\ Machine0!HALT = HALT
  /\ Machine0!CALL = CALL /\ Machine0!LITXT = LITXT /\ Machine0!Lowered = Lowered
BY DEF Machine0!ADD, ADD, Machine0!EXIT, EXIT, Machine0!EXECUTE, EXECUTE, Machine0!LIT, LIT, Machine0!BRANCH, BRANCH,
       Machine0!ZBRANCH, ZBRANCH, Machine0!DOCOL, DOCOL, Machine0!HALT, HALT, Machine0!CALL, CALL,
       Machine0!LITXT, LITXT, Machine0!Lowered, Lowered

\* Programs, words, handlers and what they need.
LEMMA SameCode ==
  /\ \A s, t : Machine0!Body(s, t) = Body(s, t)
  /\ \A x, y : Machine0!WordOfXt(x, y) = WordOfXt(x, y)
  /\ \A s, x, y : Machine0!HandlerOfXt(s, x, y) = HandlerOfXt(s, x, y)
  /\ \A h, d, r : Machine0!Meets(h, d, r) <=> Meets(h, d, r)
  /\ \A v : Machine0!Wrap(v) = Wrap(v)
<1>1. \A s, t : Machine0!Body(s, t) = Body(s, t)
  BY DEF Machine0!Body, Body
<1>2. \A x, y : Machine0!WordOfXt(x, y) = WordOfXt(x, y)
  BY DEF Machine0!WordOfXt, WordOfXt
<1>3. \A s, x, y : Machine0!HandlerOfXt(s, x, y) = HandlerOfXt(s, x, y)
  BY <1>2, Zenon DEF Machine0!HandlerOfXt, HandlerOfXt
<1>4. \A h : Machine0!Requirements(h) = Requirements(h)
  BY SameHandlers, Zenon DEF Machine0!Requirements, Requirements
<1>5. \A h, d, r : Machine0!Meets(h, d, r) <=> Meets(h, d, r)
  BY <1>4, Zenon DEF Machine0!Meets, Meets
<1>6. \A v : Machine0!Wrap(v) = Wrap(v)
  BY Zenon DEF Machine0!Wrap, Wrap
<1> QED BY <1>1, <1>2, <1>3, <1>5, <1>6

\* The code fields.
LEMMA SameXts == ASSUME NEW s PROVE Machine0!Xts(s) = Xts(s)
<1>1. \A instr : Machine0!Size(instr) = Size(instr)
  <2>1. Machine0!InlineOperand = InlineOperand
    BY SameHandlers DEF Machine0!InlineOperand, InlineOperand
  <2> QED BY <2>1, SameHandlers, Zenon DEF Machine0!Size, Size
<1>2. \A body : Machine0!Starts(body) = Starts(body)
  BY <1>1, Zenon DEF Machine0!Starts, Starts
<1>3. \A t : Machine0!Extent(s, t) = Extent(s, t)
  BY <1>2, SameCode, Zenon DEF Machine0!Extent, Extent
<1> DEFINE F(g) == [k \in 1 .. Len(s.words) |-> s.words[k].name_cells + 1
                + (IF k = 1 THEN 0 ELSE g[k - 1] + 1 + Machine0!Extent(s, k - 1))]
           G(g) == [k \in 1 .. Len(s.words) |-> s.words[k].name_cells + 1
                + (IF k = 1 THEN 0 ELSE g[k - 1] + 1 + Extent(s, k - 1))]
<1>4. \A g : F(g) = G(g)
  BY <1>3, Zenon
<1>5. Machine0!Xts(s) = [k \in 1 .. Len(s.words) |-> (CHOOSE g : g = F(g))[k]]
  BY DEF Machine0!Xts
<1>6. Xts(s) = [k \in 1 .. Len(s.words) |-> (CHOOSE g : g = G(g))[k]]
  BY DEF Xts
<1> HIDE DEF F, G
<1>7. (CHOOSE g : g = F(g)) = CHOOSE g : g = G(g)
  BY <1>4, Zenon
<1> QED BY <1>5, <1>6, <1>7, Zenon

(***************************************************************************)
(* Positions                                                               *)
(***************************************************************************)
\* PcAt and Position as functions of what they read.
PcIn(s, t, i) ==
  LET body == Body(s, t)
      start == Starts(body)
      hits == {pc \in 1 .. Len(body) + 1 : start[pc] = i}
  IN  IF hits # {} THEN CHOOSE pc \in hits : TRUE ELSE IF i = -1 THEN 0 ELSE -1
PosIn(s, x, pointer, i) == [thread |-> ThreadIn(x, pointer), pc |-> PcIn(s, ThreadIn(x, pointer), i)]
OuterIn(s, x, fr) == [f \in 1 .. Len(fr) |-> PosIn(s, x, fr[f].cells, fr[f].return_ip)]

\* The start of an instruction is the position of that instruction, and before the first there is none.
LEMMA PcOfStart ==
  ASSUME NEW s, WellFormed(s), NEW t
  PROVE  /\ \A pc \in 1 .. Len(Body(s, t)) + 1 : PcIn(s, t, Starts(Body(s, t))[pc]) = pc
         /\ PcIn(s, t, -1) = 0
<1> DEFINE body == Body(s, t)
           start == Starts(body)
           n == Len(body)
           Hits(i) == {pc \in 1 .. n + 1 : start[pc] = i}
<1>1. n \in Nat
  BY BodyType
<1>2. \A i : PcIn(s, t, i) = IF Hits(i) # {} THEN CHOOSE pc \in Hits(i) : TRUE ELSE IF i = -1 THEN 0 ELSE -1
  BY DEF PcIn
<1>3. \A pc \in 1 .. n + 1 : start[pc] \in Nat
  BY <1>1, StartsFacts
<1>4. \A i, j \in 1 .. n + 1 : start[i] = start[j] => i = j
  BY <1>1, StartsDiffer
<1> HIDE DEF start, n, body
<1>5. ASSUME NEW pc \in 1 .. n + 1 PROVE PcIn(s, t, start[pc]) = pc
  <2>1. Hits(start[pc]) = {pc}
    BY <1>4
  <2> HIDE DEF Hits
  <2> QED BY <1>2, <2>1
<1>6. PcIn(s, t, -1) = 0
  <2>1. Hits(-1) = {}
    BY <1>3
  <2> HIDE DEF Hits
  <2> QED BY <1>2, <2>1
<1> QED BY <1>5, <1>6 DEF start, n, body

\* A sequence and one more element.
LEMMA OneMore ==
  ASSUME NEW n \in Nat, NEW g, g = [i \in 1 .. n |-> g[i]], NEW v
  PROVE  /\ Append(g, v) = [i \in 1 .. n + 1 |-> IF i = n + 1 THEN v ELSE g[i]]
         /\ Len(Append(g, v)) = n + 1
         /\ Append(g, v)[n + 1] = v
         /\ SubSeq(Append(g, v), 1, n) = g
<1> DEFINE S == {g[i] : i \in 1 .. n} \cup {v}
           h == Append(g, v)
<1>1. g \in Seq(S) /\ Len(g) = n /\ v \in S
  <2>1. g \in [1 .. n -> S]
    BY Zenon
  <2> HIDE DEF S
  <2> QED BY <2>1 DEF S
<1> HIDE DEF S
<1>2. /\ h \in Seq(S) /\ Len(h) = n + 1
      /\ \A i \in 1 .. n + 1 : h[i] = IF i = n + 1 THEN v ELSE g[i]
  BY <1>1, AppendProperties
<1> HIDE DEF h
<1>3. h = [i \in 1 .. n + 1 |-> IF i = n + 1 THEN v ELSE g[i]]
  <2>1. h = [i \in 1 .. Len(h) |-> h[i]]
    BY <1>2
  <2> QED BY <1>2, <2>1
<1>4. SubSeq(h, 1, n) = g
  <2>1. /\ SubSeq(h, 1, n) \in Seq(S) /\ Len(SubSeq(h, 1, n)) = n
        /\ \A i \in 1 .. n : SubSeq(h, 1, n)[i] = h[i]
    BY <1>2, Prefix
  <2> DEFINE r == SubSeq(h, 1, n)
  <2> HIDE DEF r
  <2>2. r = [i \in 1 .. Len(r) |-> r[i]]
    BY <2>1 DEF r
  <2>3. \A i \in 1 .. n : h[i] = g[i]
    <3>1. \A i \in 1 .. n : i \in 1 .. n + 1 /\ i # n + 1
      OBVIOUS
    <3> QED BY <1>2, <3>1, Zenon
  <2>4. r = [i \in 1 .. n |-> g[i]]
    BY <2>1, <2>2, <2>3 DEF r
  <2> QED BY <2>4 DEF r
<1> QED BY <1>2, <1>3, <1>4 DEF h

\* Where the program is, and where its callers will resume.
Here == PosIn(scenario, xts, thread_cells, ip)
Outer == OuterIn(scenario, xts, frames)

\* The view is made of these, before and after a step.
LEMMA ControlIs ==
  /\ ControlView = Append(Outer, Here)
  /\ ControlView' = Append(OuterIn(scenario', xts', frames'), PosIn(scenario', xts', thread_cells', ip'))
BY DEF ControlView, Position, PcAt, PcIn, ThreadAt, ThreadIn, Outer, OuterIn, Here, PosIn

\* The machine's own names for them.
LEMMA ViewFacts ==
  ASSUME Len(frames) \in Nat
  PROVE  Machine0!Here = Here /\ Machine0!Outer = Outer /\ Len(ControlView) = Len(frames) + 1
<1>1. ControlView = Append(Outer, Here)
  BY ControlIs
<1>2. Outer = [f \in 1 .. Len(frames) |-> Outer[f]]
  BY DEF Outer, OuterIn
<1>3. /\ Len(ControlView) = Len(frames) + 1 /\ ControlView[Len(frames) + 1] = Here
      /\ SubSeq(ControlView, 1, Len(frames)) = Outer
  <2> DEFINE n == Len(frames)
             o == Outer
             p == Here
  <2>1. n \in Nat /\ o = [f \in 1 .. n |-> o[f]]
    BY <1>2
  <2> HIDE DEF n, o, p
  <2>2. /\ Len(Append(o, p)) = n + 1 /\ Append(o, p)[n + 1] = p
        /\ SubSeq(Append(o, p), 1, n) = o
    BY <2>1, OneMore
  <2> QED BY <1>1, <2>2 DEF n, o, p
<1>4. Len(ControlView) - 1 = Len(frames)
  BY <1>3
<1> QED BY <1>3, <1>4, Zenon DEF Machine0!Here, Machine0!Outer

\* A step within the thread.
LEMMA GoesTo ==
  ASSUME Len(frames) \in Nat, UNCHANGED <<scenario, xts, frames, thread_cells>>,
         NEW pc, PcIn(scenario, ThreadIn(xts, thread_cells), ip') = pc
  PROVE  Machine0!GoTo(pc)
<1>1. OuterIn(scenario', xts', frames') = Outer
  BY DEF Outer
<1>2. PosIn(scenario', xts', thread_cells', ip') = [Here EXCEPT !.pc = pc]
  BY DEF Here, PosIn
<1>3. ControlView' = Append(Outer, [Here EXCEPT !.pc = pc])
  BY <1>1, <1>2, ControlIs
<1> QED BY <1>3, ViewFacts, Zenon DEF Machine0!GoTo

\* A step that moves nothing.
LEMMA StaysPut ==
  ASSUME UNCHANGED <<scenario, xts, frames, thread_cells, ip>>
  PROVE  UNCHANGED ControlView
BY ControlIs DEF Outer, Here

\* A thread entered from another.
LEMMA CallsThread ==
  ASSUME frames \in Seq(Frame), UNCHANGED <<scenario, xts>>,
         NEW frame \in Frame, frames' = Append(frames, frame), frame.cells = thread_cells,
         PcIn(scenario, ThreadIn(xts, thread_cells), frame.return_ip) = Here.pc + 1,
         NEW t, ThreadIn(xts, thread_cells') = t, PcIn(scenario, t, ip') = 1
  PROVE  ControlView' = Machine0!Outer \o << [Machine0!Here EXCEPT !.pc = @ + 1], [thread |-> t, pc |-> 1] >>
<1> DEFINE n == Len(frames)
           outer == Outer
           caller == [Here EXCEPT !.pc = @ + 1]
           callee == [thread |-> t, pc |-> 1]
<1>1. n \in Nat /\ Len(frames') = n + 1 /\ frames'[n + 1] = frame /\ \A f \in 1 .. n : frames'[f] = frames[f]
  OBVIOUS
<1>2. PosIn(scenario', xts', thread_cells', ip') = callee
  BY DEF PosIn
<1>3. PosIn(scenario, xts, frame.cells, frame.return_ip) = caller
  BY DEF PosIn, Here
<1>4. outer = [f \in 1 .. n |-> outer[f]] /\ \A f \in 1 .. n : outer[f] = PosIn(scenario, xts, frames[f].cells, frames[f].return_ip)
  BY DEF Outer, OuterIn
<1>5. OuterIn(scenario', xts', frames') = [f \in 1 .. n + 1 |-> IF f = n + 1 THEN caller ELSE outer[f]]
  <2>1. OuterIn(scenario', xts', frames') = [f \in 1 .. n + 1 |-> PosIn(scenario, xts, frames'[f].cells, frames'[f].return_ip)]
    BY <1>1, Zenon DEF OuterIn
  <2> HIDE DEF n, outer, caller
  <2>2. ASSUME NEW f \in 1 .. n + 1
        PROVE  PosIn(scenario, xts, frames'[f].cells, frames'[f].return_ip) = IF f = n + 1 THEN caller ELSE outer[f]
    <3>1. CASE f = n + 1
      BY <1>1, <1>3, <3>1
    <3>2. CASE f # n + 1
      <4>1. f \in 1 .. n
        BY <1>1, <3>2
      <4> QED BY <1>1, <1>4, <3>2, <4>1, Zenon
    <3> QED BY <3>1, <3>2
  <2> QED BY <2>1, <2>2, Zenon
<1>6. ControlView' = Append(Append(outer, caller), callee)
  <2> HIDE DEF n, outer, caller
  <2>1. Append(outer, caller) = [f \in 1 .. n + 1 |-> IF f = n + 1 THEN caller ELSE outer[f]]
    BY <1>1, <1>4, OneMore
  <2>2. OuterIn(scenario', xts', frames') = Append(outer, caller)
    BY <1>5, <2>1, Zenon
  <2> QED BY <1>2, <2>2, ControlIs, Zenon
<1>7. outer \o <<caller, callee>> = Append(Append(outer, caller), callee)
  <2> HIDE DEF n, outer, caller, callee
  <2> DEFINE S == {outer[f] : f \in 1 .. n} \cup {caller, callee}
  <2>1. outer \in Seq(S) /\ caller \in S /\ callee \in S
    <3>1. outer \in [1 .. n -> S]
      BY <1>4, Zenon
    <3>2. caller \in S /\ callee \in S
      OBVIOUS
    <3> HIDE DEF S
    <3> QED BY <1>1, <3>1, <3>2
  <2> HIDE DEF S
  <2> QED BY <2>1
<1>8. Machine0!Outer = outer /\ [Machine0!Here EXCEPT !.pc = @ + 1] = caller
  BY <1>1, ViewFacts, Zenon
<1> QED BY <1>6, <1>7, <1>8, Zenon

\* A caller resumed.
LEMMA ReturnsToCaller ==
  ASSUME frames \in Seq(Frame), Len(frames) >= 1, UNCHANGED <<scenario, xts>>,
         frames' = SubSeq(frames, 1, Len(frames) - 1),
         thread_cells' = frames[Len(frames)].cells, ip' = frames[Len(frames)].return_ip
  PROVE  ControlView' = Machine0!Outer
<1> DEFINE m == Len(frames) - 1
           outer == Outer
           inner == OuterIn(scenario', xts', frames')
           last == PosIn(scenario', xts', thread_cells', ip')
<1>1. m \in Nat /\ Len(frames) = m + 1 /\ m <= Len(frames)
  OBVIOUS
<1>2. Len(frames') = m /\ \A f \in 1 .. m : frames'[f] = frames[f]
  BY <1>1, Prefix
<1>3. outer = [f \in 1 .. m + 1 |-> PosIn(scenario, xts, frames[f].cells, frames[f].return_ip)]
  BY <1>1, Zenon DEF Outer, OuterIn
<1>4. inner = [f \in 1 .. m |-> PosIn(scenario, xts, frames'[f].cells, frames'[f].return_ip)]
  BY <1>2, Zenon DEF OuterIn
<1>5. last = outer[m + 1]
  <2>1. m + 1 \in 1 .. m + 1 /\ thread_cells' = frames[m + 1].cells /\ ip' = frames[m + 1].return_ip
    BY <1>1
  <2> HIDE DEF m, outer
  <2> QED BY <1>3, <2>1
<1>6. \A f \in 1 .. m : inner[f] = outer[f]
  <2>1. \A f \in 1 .. m : f \in 1 .. m + 1
    BY <1>1
  <2> HIDE DEF m, outer, inner, last
  <2> QED BY <1>2, <1>3, <1>4, <2>1, Zenon
<1>7. ControlView' = Append(inner, last)
  BY ControlIs
<1> HIDE DEF m, outer, inner, last
<1>8. Append(inner, last) = [f \in 1 .. m + 1 |-> IF f = m + 1 THEN last ELSE inner[f]]
  <2>1. inner = [f \in 1 .. m |-> inner[f]]
    BY <1>4
  <2> QED BY <1>1, <2>1, OneMore
<1>9. Append(inner, last) = outer
  <2>1. \A f \in 1 .. m + 1 : f = m + 1 \/ f \in 1 .. m
    BY <1>1
  <2>2. outer = [f \in 1 .. m + 1 |-> outer[f]]
    BY <1>3
  <2>3. \A f \in 1 .. m + 1 : (IF f = m + 1 THEN last ELSE inner[f]) = outer[f]
    BY <1>5, <1>6, <2>1
  <2> QED BY <1>8, <2>2, <2>3, Zenon
<1>10. Machine0!Outer = outer
  BY <1>1, ViewFacts DEF outer
<1> QED BY <1>7, <1>9, <1>10

(***************************************************************************)
(* The invariant: control is always between two instructions.              *)
(***************************************************************************)
\* The author of the program keeps EXECUTE from words that want an inline operand: LIT and the
\* branches take theirs from the thread, wherever they were called from.
ExecuteTakesNoInline == executed => resolved_handler_id \notin InlineOperand

\* The program in its cells.
Prepared == WellFormed(scenario) /\ xts = Xts(scenario) /\ threads = Threads(scenario)

\* The instructions of a thread, and where they start.
BodyAt(pointer) == Body(scenario, ThreadIn(xts, pointer))
StartsAt(pointer) == Starts(BodyAt(pointer))
AtStart(pointer, i) == \E pc \in 1 .. Len(BodyAt(pointer)) + 1 : StartsAt(pointer)[pc] = i

\* A word has been installed and has not acted yet, unless it was to ask for the end.
Installed == at = "dispatch" \/ (at = "after" /\ halt_requested)
ByName == entrypoint = "lowered_step_xt"

\* Instruction pc of the thread installed the current word, itself or by EXECUTE.
InstalledBy(pc) ==
  /\ StartsAt(thread_cells)[pc] = ip
  /\ IF executed THEN Size(BodyAt(thread_cells)[pc]) = 1
                 ELSE current_xt = Opcode(xts, BodyAt(thread_cells)[pc])

Aligned ==
  /\ Prepared
  /\ \A f \in 1 .. Len(frames) : AtStart(frames[f].cells, frames[f].return_ip)
  /\ executed => Installed
  /\ at = "dispatch" => ~halt_requested
  /\ at = "after" /\ halt_requested => resolved_handler_id \notin Lowered \ {HALT}
  /\ at \in {"dispatch", "after"} => entrypoint # "none"
  /\ Direct => ip = -1
  /\ at \in {"fetch", "after"} /\ ~Direct /\ ~Installed => AtStart(thread_cells, ip)
  /\ Installed => IF ByName THEN /\ ip = -1 /\ scenario.direct # 0
                                 /\ ~executed => current_xt = xts[scenario.direct]
                            ELSE \E pc \in 1 .. Len(BodyAt(thread_cells)) : InstalledBy(pc)

\* A pointer leads to a thread of the program, or to none, which has no instruction.
LEMMA ThreadsOfProgram ==
  ASSUME IInv, NEW pointer
  PROVE  /\ ThreadIn(xts, pointer) \in 0 .. Len(scenario.words) \cup {-1}
         /\ ThreadIn(xts, pointer) = -1 => BodyAt(pointer) = <<>>
<1>1. ThreadIn(xts, pointer) \in 0 .. Len(scenario.words) \cup {-1}
  BY ThreadType DEF IInv, ProgramOK
<1>2. Body(scenario, -1) = <<>>
  BY DEF Body
<1> QED BY <1>1, <1>2 DEF BodyAt

\* An extent is the end of the last instruction.
LEMMA ExtentIs ==
  ASSUME IInv, Prepared, NEW pointer
  PROVE  ExtentIn(xts, threads, pointer) = StartsAt(pointer)[Len(BodyAt(pointer)) + 1]
<1> DEFINE t == ThreadIn(xts, pointer)
           n == Len(BodyAt(pointer))
<1>1. n \in Nat
  BY BodyType DEF Prepared, BodyAt
<1>2. StartsAt(pointer)[n + 1] \in Nat /\ StartsAt(pointer)[1] = 0
  <2>1. n + 1 \in 1 .. n + 1
    BY <1>1
  <2> QED BY <1>1, <2>1, StartsFacts DEF StartsAt
<1>3. CASE t = -1
  <2>1. n = 0
    BY <1>3, ThreadsOfProgram
  <2>2. ExtentIn(xts, threads, pointer) = 0
    BY <1>3 DEF ExtentIn
  <2> QED BY <1>2, <2>1, <2>2
<1>4. CASE t # -1
  <2>1. t \in 0 .. Len(scenario.words)
    BY <1>4, ThreadsOfProgram
  <2>2. DOMAIN threads[t] = 0 .. Extent(scenario, t) - 1
    BY <2>1, ThreadCells DEF Prepared
  <2>3. Extent(scenario, t) = StartsAt(pointer)[n + 1]
    BY DEF Extent, StartsAt, BodyAt
  <2>4. ExtentIn(xts, threads, pointer) = Cardinality(DOMAIN threads[t])
    BY <1>4 DEF ExtentIn
  <2> DEFINE e == Extent(scenario, t)
  <2>5. e \in Nat
    BY <1>2, <2>3
  <2> HIDE DEF e
  <2>6. Cardinality(0 .. e - 1) = e
    <3>1. 0 \in Int /\ e - 1 \in Int
      BY <2>5
    <3>2. Cardinality(0 .. e - 1) = IF 0 > e - 1 THEN 0 ELSE e - 1 - 0 + 1
      BY <3>1, FS_Interval, Zenon
    <3> QED BY <2>5, <3>2
  <2>7. DOMAIN threads[t] = 0 .. e - 1
    BY <2>2 DEF e
  <2> QED BY <2>3, <2>4, <2>6, <2>7 DEF e
<1> QED BY <1>3, <1>4

\* Reading at an instruction finds its opcode, and one cell further its operand.
LEMMA CellsOfInstruction ==
  ASSUME IInv, Prepared, NEW pointer, NEW pc \in 1 .. Len(BodyAt(pointer))
  PROVE  LET i == StartsAt(pointer)[pc]
             instr == BodyAt(pointer)[pc]
         IN  /\ i \in Nat /\ i < ExtentIn(xts, threads, pointer)
             /\ CellIn(xts, threads, pointer, i) = Opcode(xts, instr)
             /\ Size(instr) = 2 =>
                  /\ i + 1 < ExtentIn(xts, threads, pointer)
                  /\ CellIn(xts, threads, pointer, i + 1) = Operand(xts, StartsAt(pointer), pc, instr)
<1> DEFINE t == ThreadIn(xts, pointer)
           i == StartsAt(pointer)[pc]
           instr == BodyAt(pointer)[pc]
           e == ExtentIn(xts, threads, pointer)
<1>1. t \in 0 .. Len(scenario.words)
  <2>1. t # -1
    <3>1. t = -1 => Len(BodyAt(pointer)) = 0
      BY ThreadsOfProgram
    <3> QED BY <3>1
  <2> QED BY <2>1, ThreadsOfProgram
<1>2. /\ DOMAIN threads[t] = 0 .. Extent(scenario, t) - 1
      /\ i \in DOMAIN threads[t] /\ threads[t][i] = Opcode(xts, instr)
      /\ Size(instr) = 2 =>
           i + 1 \in DOMAIN threads[t] /\ threads[t][i + 1] = Operand(xts, StartsAt(pointer), pc, instr)
  BY <1>1, ThreadCells, Zenon DEF Prepared, StartsAt, BodyAt
<1>3. e = Extent(scenario, t)
  BY ExtentIs DEF Extent, StartsAt, BodyAt
<1>4. e \in Nat
  BY CellType DEF IInv
<1>5. t # -1
  BY <1>1
<1>6. \A j \in 0 .. e - 1 : CellIn(xts, threads, pointer, j) = threads[t][j]
  BY DEF CellIn
<1> HIDE DEF t, i, instr, e
<1>7. i \in 0 .. e - 1 /\ i \in Nat /\ i < e
  BY <1>2, <1>3, <1>4
<1>8. Size(instr) = 2 => i + 1 \in 0 .. e - 1 /\ i + 1 < e
  BY <1>2, <1>3, <1>4, <1>7
<1>9. CellIn(xts, threads, pointer, i) = Opcode(xts, instr)
  BY <1>2, <1>6, <1>7
<1>10. Size(instr) = 2 => CellIn(xts, threads, pointer, i + 1) = Operand(xts, StartsAt(pointer), pc, instr)
  BY <1>2, <1>6, <1>8
<1> QED BY <1>7, <1>8, <1>9, <1>10 DEF t, i, instr, e

\* Places and positions.
LEMMA PlaceOf ==
  ASSUME Prepared, NEW pointer
  PROVE  /\ Len(BodyAt(pointer)) \in Nat
         /\ AtStart(pointer, 0) /\ PcIn(scenario, ThreadIn(xts, pointer), 0) = 1
         /\ PcIn(scenario, ThreadIn(xts, pointer), -1) = 0
         /\ \A pc \in 1 .. Len(BodyAt(pointer)) + 1 :
              /\ StartsAt(pointer)[pc] \in Nat /\ AtStart(pointer, StartsAt(pointer)[pc])
              /\ PcIn(scenario, ThreadIn(xts, pointer), StartsAt(pointer)[pc]) = pc
         /\ \A pc \in 1 .. Len(BodyAt(pointer)) :
              StartsAt(pointer)[pc + 1] = StartsAt(pointer)[pc] + Size(BodyAt(pointer)[pc])
<1> DEFINE n == Len(BodyAt(pointer))
<1>1. n \in Nat
  BY BodyType DEF Prepared, BodyAt
<1>2. /\ StartsAt(pointer)[1] = 0
      /\ \A pc \in 1 .. n + 1 : StartsAt(pointer)[pc] \in Nat
      /\ \A pc \in 1 .. n : StartsAt(pointer)[pc + 1] = StartsAt(pointer)[pc] + Size(BodyAt(pointer)[pc])
  BY <1>1, StartsFacts DEF StartsAt
<1>3. /\ \A pc \in 1 .. n + 1 : PcIn(scenario, ThreadIn(xts, pointer), StartsAt(pointer)[pc]) = pc
      /\ PcIn(scenario, ThreadIn(xts, pointer), -1) = 0
  BY PcOfStart DEF Prepared, StartsAt, BodyAt
<1>4. \A pc \in 1 .. n + 1 : AtStart(pointer, StartsAt(pointer)[pc])
  BY DEF AtStart
<1>5. 1 \in 1 .. n + 1
  BY <1>1
<1> HIDE DEF n
<1>6. AtStart(pointer, 0) /\ PcIn(scenario, ThreadIn(xts, pointer), 0) = 1
  BY <1>2, <1>3, <1>4, <1>5, Zenon
<1> QED BY <1>1, <1>2, <1>3, <1>4, <1>6 DEF n

\* The handler an opcode dispatches to is the one its instruction names.
LEMMA OpcodeHandler ==
  ASSUME IInv, Prepared, NEW pointer, NEW pc \in 1 .. Len(BodyAt(pointer))
  PROVE  LET instr == BodyAt(pointer)[pc]
             xt == Opcode(xts, instr)
             h == HandlerOfXt(scenario, xts, xt)
         IN  /\ instr.op = CALL => /\ instr.arg \in 1 .. Len(scenario.words)
                                   /\ WordOfXt(xts, xt) = instr.arg
                                   /\ h = scenario.words[instr.arg].handler
                                   /\ h \notin InlineOperand
             /\ instr.op # CALL => WordOfXt(xts, xt) = 0
             /\ instr.op = LITXT => h = LIT /\ instr.arg \in 1 .. Len(scenario.words)
             /\ instr.op \notin {CALL, LITXT} => h = instr.op
             /\ instr.op \in {BRANCH, ZBRANCH} => instr.arg \in 1 .. Len(BodyAt(pointer)) + 1
<1> DEFINE instr == BodyAt(pointer)[pc]
           xt == Opcode(xts, instr)
           h == HandlerOfXt(scenario, xts, xt)
           t == ThreadIn(xts, pointer)
<1>1. t \in 0 .. Len(scenario.words)
  <2>1. t # -1
    <3>1. t = -1 => Len(BodyAt(pointer)) = 0
      BY ThreadsOfProgram
    <3> QED BY <3>1
  <2> QED BY <2>1, ThreadsOfProgram
<1>2. /\ instr.op \in {BRANCH, ZBRANCH} => instr.arg \in 1 .. Len(BodyAt(pointer)) + 1
      /\ instr.op \in {CALL, LITXT} => instr.arg \in 1 .. Len(scenario.words)
      /\ instr.op # CALL => WordOfXt(xts, xt) = 0
  BY <1>1, Zenon DEF Prepared, WellFormed, BodyAt
<1>3. instr.op = CALL => xt = xts[instr.arg]
  BY DEF Opcode, CALL, LITXT
<1>4. instr.op = LITXT => xt = LIT
  BY DEF Opcode, CALL, LITXT
<1>5. instr.op \notin {CALL, LITXT} => xt = instr.op
  BY DEF Opcode
<1> HIDE DEF instr, xt
<1>6. ASSUME instr.op = CALL
      PROVE  WordOfXt(xts, xt) = instr.arg /\ h = scenario.words[instr.arg].handler /\ h \notin InlineOperand
  <2>1. instr.arg \in 1 .. Len(scenario.words)
    BY <1>2, <1>6
  <2>2. WordOfXt(xts, xt) = instr.arg
    BY <1>3, <1>6, <2>1, WordFound DEF Prepared
  <2>3. instr.arg # 0
    BY <2>1
  <2>4. h = scenario.words[instr.arg].handler
    BY <2>2, <2>3 DEF HandlerOfXt
  <2>5. scenario.words[instr.arg].handler \notin InlineOperand
    BY <2>1, WordsType DEF Prepared
  <2> QED BY <2>2, <2>4, <2>5
<1>7. instr.op # CALL => h = xt
  BY <1>2 DEF HandlerOfXt
<1>8. LITXT # CALL
  BY DEF LITXT, CALL
<1> HIDE DEF h
<1> QED BY <1>2, <1>4, <1>5, <1>6, <1>7, <1>8 DEF instr, xt, h

\* The handler that was installed by name is no inline one either.
LEMMA NamedHandler ==
  ASSUME IInv, Aligned, Installed, ByName, ~executed
  PROVE  current_xt = xts[scenario.direct] /\ resolved_handler_id \notin InlineOperand
<1>1. scenario.direct # 0 /\ current_xt = xts[scenario.direct]
  BY DEF Aligned
<1>2. scenario.direct \in 1 .. Len(scenario.words)
  BY <1>1 DEF IInv, ProgramOK
<1>3. WordOfXt(xts, current_xt) = scenario.direct
  BY <1>1, <1>2, WordFound DEF Aligned, Prepared
<1>4. resolved_handler_id = scenario.words[scenario.direct].handler
  BY <1>1, <1>3 DEF resolved_handler_id, HandlerOfXt
<1> QED BY <1>1, <1>2, <1>4, WordsType DEF Aligned, Prepared

\* A word without inline operand goes on at the next cell, where the next instruction starts.
LEMMA NextPlace ==
  ASSUME IInv, Aligned, Installed, resolved_handler_id \notin InlineOperand
  PROVE  /\ AtStart(thread_cells, ip + 1)
         /\ PcIn(scenario, ThreadIn(xts, thread_cells), ip + 1) = Here.pc + 1
         /\ Here.pc \in Int
<1>1. Prepared
  BY DEF Aligned
<1>2. Here.pc = PcIn(scenario, ThreadIn(xts, thread_cells), ip)
  BY DEF Here, PosIn
<1>3. CASE ByName
  <2>1. ip = -1 /\ ip + 1 = 0
    BY <1>3 DEF Aligned
  <2> QED BY <1>1, <1>2, <2>1, PlaceOf
<1>4. CASE ~ByName
  <2>1. PICK pc \in 1 .. Len(BodyAt(thread_cells)) : InstalledBy(pc)
    BY <1>4 DEF Aligned
  <2> DEFINE instr == BodyAt(thread_cells)[pc]
  <2>2. Size(instr) = 1
    <3>1. CASE executed
      BY <2>1, <3>1 DEF InstalledBy
    <3>2. CASE ~executed
      <4>1. resolved_handler_id = HandlerOfXt(scenario, xts, Opcode(xts, instr))
        BY <2>1, <3>2 DEF InstalledBy, resolved_handler_id
      <4>2. LIT \in InlineOperand
        BY DEF InlineOperand
      <4>3. instr.op # LITXT
        BY <1>1, <4>1, <4>2, OpcodeHandler
      <4>4. instr.op \notin InlineOperand
        <5>1. CALL \notin InlineOperand
          BY DEF CALL, InlineOperand, LIT, BRANCH, ZBRANCH
        <5> QED BY <1>1, <4>1, <4>3, <5>1, OpcodeHandler
      <4> QED BY <4>3, <4>4 DEF Size
    <3> QED BY <3>1, <3>2
  <2>3. /\ pc \in 1 .. Len(BodyAt(thread_cells)) + 1 /\ pc + 1 \in 1 .. Len(BodyAt(thread_cells)) + 1
    BY <1>1, PlaceOf
  <2>4. StartsAt(thread_cells)[pc] = ip /\ StartsAt(thread_cells)[pc + 1] = ip + 1
    BY <1>1, <2>1, <2>2, PlaceOf DEF InstalledBy
  <2>5. Here.pc = pc
    BY <1>1, <1>2, <2>3, <2>4, PlaceOf
  <2>6. PcIn(scenario, ThreadIn(xts, thread_cells), ip + 1) = pc + 1 /\ AtStart(thread_cells, ip + 1)
    BY <1>1, <2>3, <2>4, PlaceOf
  <2> QED BY <2>3, <2>5, <2>6
<1> QED BY <1>3, <1>4

\* A word with an inline operand is an instruction of its thread, has its operand behind it, and
\* the next instruction behind that.
LEMMA InlinePlace ==
  ASSUME IInv, Aligned, ExecuteTakesNoInline, Installed, resolved_handler_id \in InlineOperand
  PROVE  /\ ~executed /\ ~ByName
         /\ Here.pc \in 1 .. Len(BodyAt(thread_cells))
         /\ LET instr == BodyAt(thread_cells)[Here.pc]
            IN  /\ resolved_handler_id = IF instr.op = LITXT THEN LIT ELSE instr.op
                /\ instr.op # CALL
                /\ instr.op \in {BRANCH, ZBRANCH} => instr.arg \in 1 .. Len(BodyAt(thread_cells)) + 1
                /\ Readable(thread_cells, ip + 1)
                /\ inline_operand = Operand(xts, StartsAt(thread_cells), Here.pc, instr)
                /\ StartsAt(thread_cells)[Here.pc] = ip
                /\ AtStart(thread_cells, ip + 2)
                /\ PcIn(scenario, ThreadIn(xts, thread_cells), ip + 2) = Here.pc + 1
<1>1. Prepared /\ ~executed
  BY DEF Aligned, ExecuteTakesNoInline
<1>2. ~ByName
  BY <1>1, NamedHandler
<1>3. PICK pc \in 1 .. Len(BodyAt(thread_cells)) : InstalledBy(pc)
  BY <1>2 DEF Aligned
<1> DEFINE instr == BodyAt(thread_cells)[pc]
<1>4. StartsAt(thread_cells)[pc] = ip /\ current_xt = Opcode(xts, instr)
  BY <1>1, <1>3 DEF InstalledBy
<1>5. resolved_handler_id = HandlerOfXt(scenario, xts, Opcode(xts, instr))
  BY <1>4 DEF resolved_handler_id
<1>6. instr.op # CALL
  BY <1>1, <1>5, OpcodeHandler
<1>7. /\ resolved_handler_id = IF instr.op = LITXT THEN LIT ELSE instr.op
      /\ instr.op \in {BRANCH, ZBRANCH} => instr.arg \in 1 .. Len(BodyAt(thread_cells)) + 1
  BY <1>1, <1>5, <1>6, OpcodeHandler
<1>8. Size(instr) = 2
  BY <1>7 DEF Size
<1>9. pc \in 1 .. Len(BodyAt(thread_cells)) + 1 /\ pc + 1 \in 1 .. Len(BodyAt(thread_cells)) + 1
  BY <1>1, PlaceOf
<1>10. Here.pc = pc
  <2>1. Here.pc = PcIn(scenario, ThreadIn(xts, thread_cells), ip)
    BY DEF Here, PosIn
  <2> QED BY <1>1, <1>4, <1>9, <2>1, PlaceOf
<1>11. StartsAt(thread_cells)[pc + 1] = ip + 2
  BY <1>1, <1>4, <1>8, PlaceOf
<1>12. AtStart(thread_cells, ip + 2) /\ PcIn(scenario, ThreadIn(xts, thread_cells), ip + 2) = pc + 1
  BY <1>1, <1>9, <1>11, PlaceOf
<1>13. /\ ip \in Nat /\ ip + 1 < ExtentIn(xts, threads, thread_cells)
       /\ CellIn(xts, threads, thread_cells, ip + 1) = Operand(xts, StartsAt(thread_cells), pc, instr)
  BY <1>1, <1>4, <1>8, CellsOfInstruction
<1>14. Readable(thread_cells, ip + 1)
  <2>1. ExtentIn(xts, threads, thread_cells) \in Nat
    BY CellType DEF IInv
  <2>2. ip + 1 \in 0 .. ExtentIn(xts, threads, thread_cells) - 1
    BY <1>13, <2>1
  <2> QED BY <2>2, Readings DEF Readable
<1>15. inline_operand = Operand(xts, StartsAt(thread_cells), pc, instr)
  BY <1>13, Readings DEF inline_operand, operand_ip, Cell
<1> QED BY <1>1, <1>2, <1>4, <1>6, <1>7, <1>10, <1>12, <1>14, <1>15, Zenon

\* Every word that reached its dispatch within a thread is at an instruction of it.
LEMMA InstalledPlace ==
  ASSUME IInv, Aligned, Installed, ~ByName
  PROVE  /\ Here.pc \in 1 .. Len(BodyAt(thread_cells)) /\ InstalledBy(Here.pc)
<1>1. Prepared
  BY DEF Aligned
<1>2. PICK pc \in 1 .. Len(BodyAt(thread_cells)) : InstalledBy(pc)
  BY DEF Aligned
<1>3. pc \in 1 .. Len(BodyAt(thread_cells)) + 1
  BY <1>1, PlaceOf
<1>4. Here.pc = PcIn(scenario, ThreadIn(xts, thread_cells), ip)
  BY DEF Here, PosIn
<1>5. Here.pc = pc
  BY <1>1, <1>2, <1>3, <1>4, PlaceOf DEF InstalledBy
<1> QED BY <1>2, <1>5

(***************************************************************************)
(* What the two machines see                                               *)
(***************************************************************************)
\* A word that EXECUTE or the host installed is what the abstract machine has pending.
LEMMA PendingIs ==
  /\ IInv /\ Aligned /\ Installed =>
       PendingView = IF executed \/ ByName THEN <<current_xt>> ELSE <<>>
  /\ IInv /\ Aligned /\ ~Installed /\ ~Direct => PendingView = <<>>
  /\ IInv /\ Aligned /\ at = "fetch" /\ Direct => PendingView = <<xts[scenario.direct]>>
<1>1. ASSUME IInv, Aligned, Installed
      PROVE  PendingView = IF executed \/ ByName THEN <<current_xt>> ELSE <<>>
  <2>1. at # "stopped" /\ (at = "dispatch" \/ halt_requested) /\ entrypoint # "none"
    BY <1>1 DEF Aligned, Installed
  <2>2. ~Direct
    BY <2>1 DEF Direct, NotStarted
  <2>3. CASE executed
    BY <2>1, <2>3 DEF PendingView
  <2>4. CASE ~executed /\ ByName
    <3>1. current_xt = xts[scenario.direct]
      BY <1>1, <2>4 DEF Aligned
    <3>2. PendingView = <<xts[scenario.direct]>>
      BY <2>1, <2>4 DEF PendingView, ByName
    <3> QED BY <2>4, <3>1, <3>2
  <2>5. CASE ~executed /\ ~ByName
    BY <2>1, <2>2, <2>5 DEF PendingView, ByName
  <2> QED BY <2>3, <2>4, <2>5
<1>2. ASSUME IInv, Aligned, ~Installed, ~Direct PROVE PendingView = <<>>
  <2>1. ~executed /\ at # "dispatch"
    BY <1>2 DEF Aligned, Installed
  <2>2. CASE at = "stopped"
    BY <2>2 DEF PendingView
  <2>3. CASE at # "stopped"
    <3>1. at \in {"fetch", "after"} /\ ~halt_requested
      BY <1>2, <2>1, <2>3 DEF IInv, TypeOK, Going, Installed
    <3> QED BY <1>2, <2>1, <3>1 DEF PendingView
  <2> QED BY <2>2, <2>3
<1>3. ASSUME IInv, Aligned, at = "fetch", Direct PROVE PendingView = <<xts[scenario.direct]>>
  <2>1. ~executed
    BY <1>3 DEF Aligned, Installed, IInv, Going
  <2> QED BY <1>3, <2>1 DEF PendingView
<1> QED BY <1>1, <1>2, <1>3

\* The instruction at a position.
LEMMA InstructionIs ==
  ASSUME Len(frames) \in Nat
  PROVE  /\ Machine0!Instruction = BodyAt(thread_cells)[Here.pc]
         /\ Machine0!AtEnd <=> PendingView = <<>> /\ Here.pc = Len(BodyAt(thread_cells)) + 1
         /\ Machine0!Here = Here
<1>1. Machine0!Here = Here
  BY ViewFacts
<1>2. Here.thread = ThreadIn(xts, thread_cells)
  BY DEF Here, PosIn
<1>3. Machine0!Body(scenario, Here.thread) = BodyAt(thread_cells)
  BY <1>2, SameCode, Zenon DEF BodyAt
<1> QED BY <1>1, <1>3, Zenon DEF Machine0!Instruction, Machine0!AtEnd

\* The abstract machine has the same word to perform, and the same reasons to refuse it.
LEMMA InstalledView ==
  ASSUME IInv, Aligned, Installed
  PROVE  /\ ~Machine0!AtEnd
         /\ Machine0!Handler = resolved_handler_id
         /\ Machine0!Callee = WordOfXt(xts, current_xt)
         /\ Machine0!Executable <=> Meets(resolved_handler_id, depth, Len(frames))
<1>1. /\ Len(frames) \in Nat /\ Prepared
      /\ PendingView = IF executed \/ ByName THEN <<current_xt>> ELSE <<>>
  BY PendingIs DEF IInv, TypeOK, Aligned
<1>2. /\ Machine0!Instruction = BodyAt(thread_cells)[Here.pc]
      /\ Machine0!AtEnd <=> PendingView = <<>> /\ Here.pc = Len(BodyAt(thread_cells)) + 1
  BY <1>1, InstructionIs
<1>3. /\ ~Machine0!AtEnd /\ Machine0!Handler = resolved_handler_id
      /\ Machine0!Callee = WordOfXt(xts, current_xt)
  <2>1. CASE executed \/ ByName
    <3>1. PendingView = <<current_xt>> /\ PendingView # <<>> /\ PendingView[1] = current_xt
      BY <1>1, <2>1
    <3>2. Machine0!Handler = Machine0!HandlerOfXt(scenario, xts, current_xt)
      BY <3>1, Zenon DEF Machine0!Handler
    <3>3. Machine0!Callee = Machine0!WordOfXt(xts, current_xt)
      BY <3>1, Zenon DEF Machine0!Callee
    <3> QED BY <1>2, <3>1, <3>2, <3>3, SameCode, Zenon DEF resolved_handler_id
  <2>2. CASE ~executed /\ ~ByName
    <3> DEFINE instr == BodyAt(thread_cells)[Here.pc]
    <3>1. PendingView = <<>>
      BY <1>1, <2>2
    <3>2. Here.pc \in 1 .. Len(BodyAt(thread_cells)) /\ current_xt = Opcode(xts, instr)
      BY <2>2, InstalledPlace DEF InstalledBy
    <3>3. Here.pc # Len(BodyAt(thread_cells)) + 1
      <4>1. Len(BodyAt(thread_cells)) \in Nat
        BY <1>1, PlaceOf
      <4> QED BY <3>2, <4>1
    <3>4. resolved_handler_id = HandlerOfXt(scenario, xts, Opcode(xts, instr))
      BY <3>2 DEF resolved_handler_id
    <3>5. Machine0!Handler = IF instr.op = CALL THEN scenario.words[instr.arg].handler
                             ELSE IF instr.op = LITXT THEN LIT ELSE instr.op
      BY <1>2, <3>1, SameHandlers, Zenon DEF Machine0!Handler
    <3>6. Machine0!Callee = IF instr.op = CALL THEN instr.arg ELSE 0
      BY <1>2, <3>1, SameHandlers, Zenon DEF Machine0!Callee
    <3>7. Machine0!Handler = resolved_handler_id /\ Machine0!Callee = WordOfXt(xts, current_xt)
      <4>1. /\ instr.op = CALL => /\ WordOfXt(xts, current_xt) = instr.arg
                                  /\ resolved_handler_id = scenario.words[instr.arg].handler
            /\ instr.op # CALL => WordOfXt(xts, current_xt) = 0
            /\ instr.op = LITXT => resolved_handler_id = LIT
            /\ instr.op \notin {CALL, LITXT} => resolved_handler_id = instr.op
        BY <1>1, <3>2, <3>4, OpcodeHandler
      <4> HIDE DEF instr
      <4> QED BY <3>5, <3>6, <4>1, Zenon
    <3> QED BY <1>2, <3>3, <3>7
  <2> QED BY <2>1, <2>2
<1>4. Machine0!Depth = depth
  BY DEF Machine0!Depth, depth
<1>5. Machine0!Executable <=> Meets(resolved_handler_id, depth, Len(frames))
  <2>1. Len(ControlView) - 1 = Len(frames)
    BY <1>1, ViewFacts
  <2> QED BY <1>3, <1>4, <2>1, SameCode, Zenon DEF Machine0!Executable
<1> QED BY <1>3, <1>5

\* A dispatched handler is performed.
LEMMA Performs ==
  ASSUME IInv, Aligned, NEW h, Dispatch(h), PendingView' = <<>>, UNCHANGED <<scenario, xts, outcome>>
  PROVE  Machine0!Perform(h)
<1>1. Installed /\ resolved_handler_id = h /\ Meets(h, depth, Len(frames)) /\ outcome = "none"
  BY DEF Dispatch, Sound, Installed, IInv, Going
<1>2. ~Machine0!AtEnd /\ Machine0!Handler = h /\ Machine0!Executable
  BY <1>1, InstalledView
<1> QED BY <1>1, <1>2, Zenon DEF Machine0!Perform

(***************************************************************************)
(* Steps keep control between instructions                                 *)
(***************************************************************************)
\* The program stays in its cells.
LEMMA PreparedKept == ASSUME Prepared, UNCHANGED program PROVE Prepared'
BY DEF Prepared, program

\* Every prepared scenario starts between instructions.
LEMMA InitAligned ==
  ASSUME \A s \in Scenarios : WellFormed(s), Init
  PROVE  Aligned
<1>1. Prepared
  BY DEF Init, Prepared
<1>2. Len(frames) = 0 /\ ~executed /\ at = "fetch" /\ ~halt_requested /\ entrypoint = "none"
  BY DEF Init
<1>3. Direct => ip = -1
  BY DEF Init, Direct
<1>4. ~Direct => AtStart(thread_cells, ip)
  <2>1. ~Direct => ip = 0
    BY DEF Init, Direct, NotStarted
  <2> QED BY <1>1, <2>1, PlaceOf
<1> QED BY <1>1, <1>2, <1>3, <1>4 DEF Aligned, Installed

\* A call installs a word: one of a thread's instructions, or the one that is to run first.
LEMMA CallAligned ==
  ASSUME IInv, Aligned, NEW function, NEW xt, at = "fetch", Call(function, xt), function # "none",
         IF function = "lowered_step_xt"
         THEN ip = -1 /\ scenario.direct # 0 /\ xt = xts[scenario.direct]
         ELSE \E pc \in 1 .. Len(BodyAt(thread_cells)) :
                StartsAt(thread_cells)[pc] = ip /\ xt = Opcode(xts, BodyAt(thread_cells)[pc])
  PROVE  Aligned'
<1>1. /\ entrypoint' = function /\ current_xt' = xt /\ at' = "dispatch" /\ executed' = FALSE
      /\ UNCHANGED <<scenario, xts, threads, mode, thread_cells, thread_length, ip, stack, frames,
                     halt_requested, outcome>>
  BY DEF Call, program
<1>2. Prepared'
  BY <1>1, PreparedKept DEF Aligned, program
<1>3. \A f \in 1 .. Len(frames') : AtStart(frames[f].cells, frames[f].return_ip)'
  BY <1>1 DEF Aligned, AtStart, StartsAt, BodyAt
<1>4. ~halt_requested' /\ ~Direct' /\ Installed'
  BY <1>1 DEF IInv, Going, Direct, NotStarted, Installed
<1>5. IF ByName' THEN ip' = -1 /\ scenario'.direct # 0 /\ current_xt' = xts'[scenario'.direct]
                 ELSE \E pc \in 1 .. Len(BodyAt(thread_cells)') : InstalledBy(pc)'
  BY <1>1 DEF ByName, InstalledBy, StartsAt, BodyAt
<1> QED BY <1>1, <1>2, <1>3, <1>4, <1>5 DEF Aligned

\* The end.
LEMMA EndAligned ==
  ASSUME IInv, Aligned, NEW o, End(o), UNCHANGED <<Machine, program, entrypoint>>
  PROVE  Aligned'
<1>1. /\ at' = "stopped" /\ executed' = FALSE
      /\ UNCHANGED <<scenario, xts, threads, mode, entrypoint, thread_cells, thread_length, ip,
                     current_xt, stack, frames, halt_requested>>
  BY DEF End, Machine, program
<1>2. Prepared'
  BY <1>1, PreparedKept DEF Aligned, program
<1>3. \A f \in 1 .. Len(frames') : AtStart(frames[f].cells, frames[f].return_ip)'
  BY <1>1 DEF Aligned, AtStart, StartsAt, BodyAt
<1>4. Direct' => ip' = -1
  BY <1>1 DEF Aligned, Direct, NotStarted
<1> QED BY <1>1, <1>2, <1>3, <1>4 DEF Aligned, Installed

\* A handler has resumed between two instructions, and so will its callers.
LEMMA ResumeAligned ==
  ASSUME IInv, Aligned, at = "dispatch", NEW pointer, NEW length, NEW new_ip,
         Resume(pointer, length, new_ip), AtStart(pointer, new_ip),
         \A f \in 1 .. Len(frames') : AtStart(frames'[f].cells, frames'[f].return_ip)
  PROVE  Aligned'
<1>1. /\ thread_cells' = pointer /\ ip' = new_ip /\ executed' = FALSE /\ at' = "after"
      /\ UNCHANGED <<scenario, xts, threads, mode, entrypoint, halt_requested, outcome>>
  BY DEF Resume, Untouched, program
<1>2. Prepared'
  BY <1>1, PreparedKept DEF Aligned, program
<1>3. /\ AtStart(thread_cells, ip)'
      /\ \A f \in 1 .. Len(frames') : AtStart(frames[f].cells, frames[f].return_ip)'
  BY <1>1 DEF AtStart, StartsAt, BodyAt
<1>4. ~halt_requested' /\ entrypoint' # "none" /\ ~Installed' /\ ~Direct'
  BY <1>1 DEF Aligned, Installed, Direct, NotStarted
<1> QED BY <1>1, <1>2, <1>3, <1>4 DEF Aligned

\* Handlers that stay in their thread and leave the callers alone.
LEMMA StayAligned ==
  ASSUME IInv, Aligned, at = "dispatch", NEW new_ip, exact_ip(new_ip), UNCHANGED frames,
         AtStart(thread_cells, new_ip)
  PROVE  Aligned'
<1>1. Resume(thread_cells, thread_length, new_ip)
  BY DEF exact_ip
<1>2. \A f \in 1 .. Len(frames') : AtStart(frames'[f].cells, frames'[f].return_ip)
  BY DEF Aligned
<1> QED BY <1>1, <1>2, ResumeAligned

\* Where a branch goes is where its instruction says.
LEMMA BranchPlace ==
  ASSUME IInv, Aligned, ExecuteTakesNoInline, Installed, resolved_handler_id \in {BRANCH, ZBRANCH}
  PROVE  LET instr == BodyAt(thread_cells)[Here.pc]
         IN  /\ AtStart(thread_cells, branch_target_ip)
             /\ PcIn(scenario, ThreadIn(xts, thread_cells), branch_target_ip) = instr.arg
<1> DEFINE instr == BodyAt(thread_cells)[Here.pc]
           start == StartsAt(thread_cells)
<1>1. Prepared /\ resolved_handler_id \in InlineOperand /\ LIT \notin {BRANCH, ZBRANCH}
  BY DEF Aligned, InlineOperand, LIT, BRANCH, ZBRANCH
<1>2. /\ Here.pc \in 1 .. Len(BodyAt(thread_cells)) /\ start[Here.pc] = ip
      /\ resolved_handler_id = IF instr.op = LITXT THEN LIT ELSE instr.op
      /\ instr.op \in {BRANCH, ZBRANCH} => instr.arg \in 1 .. Len(BodyAt(thread_cells)) + 1
      /\ inline_operand = Operand(xts, start, Here.pc, instr)
  BY <1>1, InlinePlace, Zenon
<1>3. instr.op \in {BRANCH, ZBRANCH}
  BY <1>1, <1>2
<1>4. instr.arg \in 1 .. Len(BodyAt(thread_cells)) + 1
  BY <1>2, <1>3
<1>5. inline_operand = start[instr.arg] - (start[Here.pc] + 2)
  <2>1. instr.op # LITXT
    BY <1>3 DEF LITXT, BRANCH, ZBRANCH
  <2> QED BY <1>2, <1>3, <2>1 DEF Operand
<1>6. start[instr.arg] \in Nat /\ ip \in Int
  BY <1>1, <1>4, PlaceOf DEF IInv, TypeOK
<1>7. branch_target_ip = start[instr.arg]
  BY <1>2, <1>5, <1>6 DEF branch_target_ip, operand_ip
<1> QED BY <1>1, <1>4, <1>7, PlaceOf

\* The caller will resume behind its call, at its next instruction.
LEMMA DocolAligned == IInv /\ Aligned /\ op_docol => Aligned'
<1> SUFFICES ASSUME IInv, Aligned, op_docol PROVE Aligned'
  OBVIOUS
<1> DEFINE frame == [cells |-> thread_cells, length |-> thread_length, return_ip |-> ip + 1]
<1>1. /\ Dispatch(DOCOL) /\ frames' = Append(frames, frame)
      /\ Resume(current_xt + 1, resolved_code_field_data, 0)
  BY DEF op_docol
<1>2. at = "dispatch" /\ Installed /\ resolved_handler_id \notin InlineOperand
  BY <1>1 DEF Dispatch, Installed, InlineOperand, LIT, BRANCH, ZBRANCH, DOCOL
<1>3. AtStart(thread_cells, ip + 1)
  BY <1>2, NextPlace
<1>4. AtStart(current_xt + 1, 0)
  BY PlaceOf DEF Aligned
<1>5. frame.cells = thread_cells /\ frame.return_ip = ip + 1 /\ frame \in Frame
  BY <1>1, Found DEF IInv, TypeOK, Frame
<1> HIDE DEF frame
<1>6. ASSUME NEW f \in 1 .. Len(frames') PROVE AtStart(frames'[f].cells, frames'[f].return_ip)
  <2>1. frames \in Seq(Frame) /\ Len(frames) \in Nat
    BY <1>1, Found
  <2>2. Len(frames') = Len(frames) + 1
    BY <1>1, <1>5, <2>1
  <2>3. CASE f = Len(frames) + 1
    <3>1. frames'[f] = frame
      BY <1>1, <1>5, <2>1, <2>3
    <3> QED BY <1>3, <1>5, <3>1
  <2>4. CASE f # Len(frames) + 1
    <3>1. f \in 1 .. Len(frames) /\ frames'[f] = frames[f]
      BY <1>1, <1>5, <2>1, <2>2, <2>4
    <3> QED BY <3>1 DEF Aligned
  <2> QED BY <2>3, <2>4
<1> QED BY <1>1, <1>2, <1>4, <1>6, ResumeAligned

\* A caller resumes where it was to resume.
LEMMA ExitAligned == IInv /\ Aligned /\ op_exit => Aligned'
<1> SUFFICES ASSUME IInv, Aligned, op_exit PROVE Aligned'
  OBVIOUS
<1> DEFINE frame == frames[Len(frames)]
<1>1. /\ Dispatch(EXIT) /\ frames' = SubSeq(frames, 1, Len(frames) - 1)
      /\ Resume(frame.cells, frame.length, frame.return_ip)
  BY DEF op_exit
<1>2. Len(frames) >= 1 /\ frames \in Seq(Frame) /\ Len(frames) \in Nat /\ at = "dispatch"
  BY <1>1, Found, Requires
<1>3. AtStart(frame.cells, frame.return_ip)
  BY <1>2 DEF Aligned
<1>4. \A f \in 1 .. Len(frames') : f \in 1 .. Len(frames) /\ frames'[f] = frames[f]
  <2>1. Len(frames) - 1 \in Nat /\ Len(frames) - 1 <= Len(frames)
    BY <1>2
  <2> QED BY <1>1, <1>2, <2>1, Prefix
<1>5. \A f \in 1 .. Len(frames') : AtStart(frames'[f].cells, frames'[f].return_ip)
  BY <1>4 DEF Aligned
<1> QED BY <1>1, <1>2, <1>3, <1>5, ResumeAligned

\* EXECUTE leaves the place where it is, and its instruction has one cell.
LEMMA ExecuteAligned == IInv /\ Aligned /\ op_execute => Aligned'
<1> SUFFICES ASSUME IInv, Aligned, op_execute PROVE Aligned'
  OBVIOUS
<1>1. /\ Dispatch(EXECUTE) /\ executed' = TRUE
      /\ UNCHANGED <<scenario, xts, threads, mode, entrypoint, thread_cells, thread_length, ip, frames,
                     halt_requested, at, outcome>>
  BY DEF op_execute, Untouched, program
<1>2. /\ at = "dispatch" /\ Installed /\ entrypoint # "none" /\ ~halt_requested
      /\ resolved_handler_id \notin InlineOperand
  BY <1>1 DEF Dispatch, Installed, Aligned, InlineOperand, LIT, BRANCH, ZBRANCH, EXECUTE
<1>3. Prepared'
  BY <1>1, PreparedKept DEF Aligned, program
<1>4. \A f \in 1 .. Len(frames') : AtStart(frames[f].cells, frames[f].return_ip)'
  BY <1>1 DEF Aligned, AtStart, StartsAt, BodyAt
<1>5. Installed' /\ ~Direct'
  BY <1>1, <1>2 DEF Installed, Direct, NotStarted
<1>6. CASE ByName
  <2>1. ByName' /\ ip' = -1 /\ scenario'.direct # 0
    BY <1>1, <1>2, <1>6 DEF Aligned, ByName
  <2> QED BY <1>1, <1>2, <1>3, <1>4, <1>5, <2>1 DEF Aligned
<1>7. CASE ~ByName
  <2> DEFINE pc == Here.pc
             body == BodyAt(thread_cells)
  <2>1. pc \in 1 .. Len(body) /\ InstalledBy(pc)
    BY <1>2, <1>7, InstalledPlace
  <2>2. /\ AtStart(thread_cells, ip + 1)
        /\ PcIn(scenario, ThreadIn(xts, thread_cells), ip + 1) = pc + 1
    BY <1>2, NextPlace
  <2>3. /\ Len(body) \in Nat /\ StartsAt(thread_cells)[pc + 1] = StartsAt(thread_cells)[pc] + Size(body[pc])
    BY <2>1, PlaceOf DEF Aligned
  <2>4. StartsAt(thread_cells)[pc] = ip
    BY <2>1 DEF InstalledBy
  <2>5. StartsAt(thread_cells)[pc + 1] = ip + 1
    <3>1. PICK q \in 1 .. Len(body) + 1 : StartsAt(thread_cells)[q] = ip + 1
      BY <2>2 DEF AtStart
    <3>2. PcIn(scenario, ThreadIn(xts, thread_cells), StartsAt(thread_cells)[q]) = q
      BY PlaceOf DEF Aligned
    <3>3. q = pc + 1
      BY <2>2, <3>1, <3>2
    <3> QED BY <3>1, <3>3
  <2>6. Size(body[pc]) = 1
    <3>1. Size(body[pc]) \in {1, 2} /\ ip \in Int
      BY DEF Size, IInv, TypeOK
    <3> QED BY <2>3, <2>4, <2>5, <3>1
  <2>7. \E q \in 1 .. Len(body) : StartsAt(thread_cells)[q] = ip /\ Size(body[q]) = 1
    BY <2>1, <2>4, <2>6
  <2>8. ~ByName' /\ \E q \in 1 .. Len(BodyAt(thread_cells)') : InstalledBy(q)'
    BY <1>1, <1>7, <2>7 DEF ByName, InstalledBy, StartsAt, BodyAt
  <2> QED BY <1>1, <1>2, <1>3, <1>4, <1>5, <2>8 DEF Aligned
<1> QED BY <1>6, <1>7

\* Asking for the end keeps the word installed.
LEMMA HaltAligned == IInv /\ Aligned /\ HaltOrUnsupported => Aligned'
<1> SUFFICES ASSUME IInv, Aligned, HaltOrUnsupported PROVE Aligned'
  OBVIOUS
<1>1. /\ at = "dispatch" /\ resolved_handler_id \notin Lowered \ {HALT} /\ halt_requested' = TRUE /\ at' = "after"
      /\ UNCHANGED <<scenario, xts, threads, mode, entrypoint, thread_cells, thread_length, ip, current_xt,
                     stack, frames, executed, outcome>>
  BY DEF HaltOrUnsupported, Untouched, program
<1>2. Prepared'
  BY <1>1, PreparedKept DEF Aligned, program
<1>3. \A f \in 1 .. Len(frames') : AtStart(frames[f].cells, frames[f].return_ip)'
  BY <1>1 DEF Aligned, AtStart, StartsAt, BodyAt
<1>4. resolved_handler_id' = resolved_handler_id
  BY <1>1 DEF resolved_handler_id
<1>5. Installed /\ Installed' /\ entrypoint' # "none" /\ ~Direct'
  BY <1>1 DEF Aligned, Installed, Direct, NotStarted
<1>6. IF ByName' THEN ip' = -1 /\ scenario'.direct # 0 /\ (~executed' => current_xt' = xts'[scenario'.direct])
                 ELSE \E pc \in 1 .. Len(BodyAt(thread_cells)') : InstalledBy(pc)'
  BY <1>1, <1>5 DEF Aligned, ByName, InstalledBy, StartsAt, BodyAt
<1> QED BY <1>1, <1>2, <1>3, <1>4, <1>5, <1>6 DEF Aligned

\* Between two calls nothing moves.
LEMMA NextCallAligned == IInv /\ Aligned /\ NextCall => Aligned'
<1> SUFFICES ASSUME IInv, Aligned, NextCall PROVE Aligned'
  OBVIOUS
<1>1. /\ at = "after" /\ ~halt_requested /\ at' = "fetch"
      /\ UNCHANGED <<scenario, xts, threads, mode, entrypoint, thread_cells, thread_length, ip, current_xt,
                     stack, frames, halt_requested, executed, outcome>>
  BY DEF NextCall, Machine, program
<1>2. Prepared'
  BY <1>1, PreparedKept DEF Aligned, program
<1>3. \A f \in 1 .. Len(frames') : AtStart(frames[f].cells, frames[f].return_ip)'
  BY <1>1 DEF Aligned, AtStart, StartsAt, BodyAt
<1>4. ~Installed /\ ~executed /\ entrypoint # "none" /\ ~Direct /\ ~Direct' /\ ~Installed'
  BY <1>1 DEF Aligned, Installed, Direct, NotStarted
<1>5. AtStart(thread_cells, ip)'
  BY <1>1, <1>4 DEF Aligned, AtStart, StartsAt, BodyAt
<1> QED BY <1>1, <1>2, <1>3, <1>4, <1>5 DEF Aligned

\* Between two calls control is at an instruction, whose first cell is the opcode, or at the end.
LEMMA FetchPlace ==
  ASSUME IInv, Aligned, at \in {"fetch", "after"}, ~Direct, ~Installed
  PROVE  LET n == Len(BodyAt(thread_cells))
             e == ExtentIn(xts, threads, thread_cells)
         IN  /\ n \in Nat /\ e \in Nat /\ ip \in Nat
             /\ Here.pc \in 1 .. n + 1 /\ StartsAt(thread_cells)[Here.pc] = ip
             /\ ip < e => /\ Here.pc \in 1 .. n
                          /\ Cell(ip) = Opcode(xts, BodyAt(thread_cells)[Here.pc])
             /\ ip >= e => Here.pc = n + 1
<1> DEFINE n == Len(BodyAt(thread_cells))
           e == ExtentIn(xts, threads, thread_cells)
<1>1. Prepared /\ AtStart(thread_cells, ip)
  BY DEF Aligned
<1>2. PICK pc \in 1 .. n + 1 : StartsAt(thread_cells)[pc] = ip
  BY <1>1 DEF AtStart
<1>3. Here.pc = pc
  <2>1. Here.pc = PcIn(scenario, ThreadIn(xts, thread_cells), ip)
    BY DEF Here, PosIn
  <2> QED BY <1>1, <1>2, <2>1, PlaceOf
<1>4. n \in Nat /\ e \in Nat /\ ip \in Nat
  BY <1>1, <1>2, PlaceOf, CellType DEF IInv
<1>5. e = StartsAt(thread_cells)[n + 1]
  BY <1>1, ExtentIs
<1>6. pc \in 1 .. n => ip < e /\ Cell(ip) = Opcode(xts, BodyAt(thread_cells)[pc])
  BY <1>1, <1>2, CellsOfInstruction, Readings DEF Cell
<1>7. pc \notin 1 .. n => pc = n + 1
  BY <1>2, <1>4
<1> HIDE DEF n, e
<1>8. pc = n + 1 => ip = e
  BY <1>2, <1>5
<1>9. /\ ip < e => pc \in 1 .. n
      /\ ip >= e => pc = n + 1
  BY <1>4, <1>6, <1>7, <1>8
<1> QED BY <1>2, <1>3, <1>4, <1>6, <1>9 DEF n, e

\* LIT and the branches pass over their operand, or go where the instruction says.
LEMMA InlineAligned == IInv /\ Aligned /\ ExecuteTakesNoInline /\ (op_lit \/ op_branch \/ op_zbranch) => Aligned'
<1> SUFFICES ASSUME IInv, Aligned, ExecuteTakesNoInline, op_lit \/ op_branch \/ op_zbranch PROVE Aligned'
  OBVIOUS
<1>1. /\ at = "dispatch" /\ resolved_handler_id \in InlineOperand /\ UNCHANGED frames
      /\ \/ exact_ip(operand_ip + 1)
         \/ exact_ip(branch_target_ip) /\ resolved_handler_id \in {BRANCH, ZBRANCH}
  BY DEF op_lit, op_branch, op_zbranch, advance_ip, exact_ip, Dispatch, InlineOperand
<1>2. Installed
  BY <1>1 DEF Installed
<1>3. AtStart(thread_cells, operand_ip + 1)
  <2>1. operand_ip + 1 = ip + 2
    BY DEF operand_ip, IInv, TypeOK
  <2> QED BY <1>1, <1>2, <2>1, InlinePlace
<1>4. resolved_handler_id \in {BRANCH, ZBRANCH} => AtStart(thread_cells, branch_target_ip)
  BY <1>2, BranchPlace
<1> QED BY <1>1, <1>3, <1>4, StayAligned

\* ADD has no operand to pass over.
LEMMA AddAligned == IInv /\ Aligned /\ op_add => Aligned'
<1> SUFFICES ASSUME IInv, Aligned, op_add PROVE Aligned'
  OBVIOUS
<1>1. at = "dispatch" /\ resolved_handler_id = ADD /\ UNCHANGED frames /\ exact_ip(ip + 1)
  BY DEF op_add, advance_ip, exact_ip, Dispatch
<1>2. Installed /\ resolved_handler_id \notin InlineOperand
  BY <1>1 DEF Installed, ADD, InlineOperand, LIT, BRANCH, ZBRANCH
<1> QED BY <1>1, <1>2, NextPlace, StayAligned

\* A stepped or fetched word is an instruction's.
LEMMA FetchAligned == IInv /\ Aligned /\ (DirectCall \/ StepCall \/ RunFetch) => Aligned'
<1> SUFFICES ASSUME IInv, Aligned, DirectCall \/ StepCall \/ RunFetch PROVE Aligned'
  OBVIOUS
<1>1. CASE DirectCall
  <2>1. at = "fetch" /\ Direct /\ Call("lowered_step_xt", xts[scenario.direct])
    BY <1>1 DEF DirectCall
  <2>2. ip = -1 /\ scenario.direct # 0
    BY <2>1 DEF Aligned, Direct
  <2> QED BY <2>1, <2>2, CallAligned
<1>2. CASE StepCall \/ RunFetch
  <2>1. PICK function \in {"lowered_step", "lowered_run"} : Call(function, Cell(ip))
    BY <1>2 DEF StepCall, RunFetch
  <2>2. at = "fetch" /\ ~Direct
    BY <1>2 DEF StepCall, RunFetch
  <2>3. ~Installed
    BY <2>2 DEF Installed
  <2>4. ip < ExtentIn(xts, threads, thread_cells)
    <3>1. CASE StepCall
      BY <3>1, Readings DEF StepCall, StepAllowed
    <3>2. CASE RunFetch
      <4>1. ip \in 0 .. ExtentIn(xts, threads, thread_cells) - 1
        BY <3>2, Readings DEF RunFetch, Readable
      <4>2. ExtentIn(xts, threads, thread_cells) \in Nat
        BY CellType DEF IInv
      <4> QED BY <4>1, <4>2
    <3> QED BY <1>2, <3>1, <3>2
  <2>5. /\ Here.pc \in 1 .. Len(BodyAt(thread_cells)) /\ StartsAt(thread_cells)[Here.pc] = ip
        /\ Cell(ip) = Opcode(xts, BodyAt(thread_cells)[Here.pc])
    BY <2>2, <2>3, <2>4, FetchPlace
  <2>6. function # "none" /\ function # "lowered_step_xt"
    OBVIOUS
  <2> QED BY <2>1, <2>2, <2>5, <2>6, CallAligned
<1> QED BY <1>1, <1>2

\* Every step.
LEMMA AlignedKept == IInv /\ Aligned /\ ExecuteTakesNoInline /\ [Next]_vars => Aligned'
<1> SUFFICES ASSUME IInv, Aligned, ExecuteTakesNoInline, [Next]_vars PROVE Aligned'
  OBVIOUS
<1>1. CASE DirectCall \/ StepCall \/ RunFetch
  BY <1>1, FetchAligned
<1>2. CASE StepRefused \/ RunFetchOverrun \/ HandlerOverrun \/ Halted \/ RunReturns
  <2>1. \E o : End(o) /\ UNCHANGED <<Machine, program, entrypoint>>
    BY <1>2, Zenon DEF StepRefused, RunFetchOverrun, HandlerOverrun, Halted, RunReturns
  <2> QED BY <2>1, EndAligned
<1>3. CASE op_lit \/ op_branch \/ op_zbranch
  BY <1>3, InlineAligned
<1>4. CASE op_add \/ op_docol \/ op_exit \/ op_execute
  BY <1>4, AddAligned, DocolAligned, ExitAligned, ExecuteAligned
<1>5. CASE HaltOrUnsupported \/ NextCall
  BY <1>5, HaltAligned, NextCallAligned
<1>6. CASE UNCHANGED vars
  <2>1. UNCHANGED <<scenario, xts, threads, mode, entrypoint, thread_cells, thread_length, ip, current_xt,
                    stack, frames, halt_requested, executed, at, outcome>>
    BY <1>6 DEF vars
  <2> QED BY <2>1 DEF Aligned, Prepared, AtStart, StartsAt, BodyAt, Installed, ByName, InstalledBy,
                      Direct, NotStarted, resolved_handler_id
<1> QED BY <1>1, <1>2, <1>3, <1>4, <1>5, <1>6 DEF Next

(***************************************************************************)
(* Every step of the interpreter is one of the abstract machine's          *)
(***************************************************************************)
\* What a resumed thread shows: nothing is pending.
LEMMA Resumed ==
  ASSUME IInv, Aligned, at = "dispatch", NEW pointer, NEW length, NEW new_ip, Resume(pointer, length, new_ip)
  PROVE  /\ PendingView' = <<>>
         /\ thread_cells' = pointer /\ ip' = new_ip
         /\ UNCHANGED <<scenario, xts, outcome>>
<1>1. /\ thread_cells' = pointer /\ ip' = new_ip /\ executed' = FALSE /\ at' = "after"
      /\ UNCHANGED <<scenario, xts, entrypoint, halt_requested, outcome>>
  BY DEF Resume, Untouched, program
<1>2. ~halt_requested' /\ entrypoint' # "none"
  BY <1>1 DEF Aligned
<1>3. ~Direct'
  BY <1>2 DEF Direct, NotStarted
<1> QED BY <1>1, <1>2, <1>3 DEF PendingView

\* A handler that goes on in its thread.
LEMMA StaysInThread ==
  ASSUME IInv, Aligned, NEW h, Dispatch(h), NEW new_ip, exact_ip(new_ip), UNCHANGED frames,
         NEW pc, PcIn(scenario, ThreadIn(xts, thread_cells), new_ip) = pc
  PROVE  Machine0!Perform(h) /\ Machine0!GoTo(pc)
<1>1. at = "dispatch" /\ Resume(thread_cells, thread_length, new_ip) /\ Len(frames) \in Nat
  BY Found DEF exact_ip
<1>2. /\ PendingView' = <<>> /\ ip' = new_ip
      /\ UNCHANGED <<scenario, xts, thread_cells, frames, outcome>>
  BY <1>1, Resumed
<1>3. Machine0!Perform(h)
  BY <1>2, Performs
<1>4. Machine0!GoTo(pc)
  BY <1>1, <1>2, GoesTo
<1> QED BY <1>3, <1>4

\* LIT pushes the value its instruction names.
LEMMA LitStep == IInv /\ Aligned /\ ExecuteTakesNoInline /\ op_lit => Machine0!Lit
<1> SUFFICES ASSUME IInv, Aligned, ExecuteTakesNoInline, op_lit PROVE Machine0!Lit
  OBVIOUS
<1> DEFINE instr == BodyAt(thread_cells)[Here.pc]
<1>1. /\ Dispatch(LIT) /\ stack' = Append(stack, inline_operand) /\ exact_ip(operand_ip + 1)
      /\ UNCHANGED frames
  BY DEF op_lit, advance_ip, exact_ip
<1>2. Installed /\ resolved_handler_id = LIT /\ resolved_handler_id \in InlineOperand
  BY <1>1 DEF Dispatch, Installed, InlineOperand
<1>3. operand_ip + 1 = ip + 2
  BY DEF operand_ip, IInv, TypeOK
<1>4. /\ PcIn(scenario, ThreadIn(xts, thread_cells), ip + 2) = Here.pc + 1
      /\ resolved_handler_id = IF instr.op = LITXT THEN LIT ELSE instr.op
      /\ inline_operand = Operand(xts, StartsAt(thread_cells), Here.pc, instr)
  BY <1>2, InlinePlace, Zenon
<1>5. Machine0!Perform(LIT) /\ Machine0!GoTo(Here.pc + 1)
  BY <1>1, <1>3, <1>4, StaysInThread
<1>6. Len(frames) \in Nat
  BY DEF IInv, TypeOK
<1>7. inline_operand = IF instr.op = LITXT THEN xts[instr.arg] ELSE instr.arg
  <2>1. instr.op \notin {BRANCH, ZBRANCH}
    BY <1>2, <1>4 DEF LIT, LITXT, BRANCH, ZBRANCH
  <2> HIDE DEF instr
  <2> QED BY <1>4, <2>1 DEF Operand
<1>8. Machine0!Literal = inline_operand
  BY <1>6, <1>7, InstructionIs, SameHandlers, Zenon DEF Machine0!Literal
<1> QED BY <1>1, <1>5, <1>6, <1>8, ViewFacts, SameHandlers, Zenon DEF Machine0!Lit

\* ADD adds.
LEMMA AddStep == IInv /\ Aligned /\ op_add => Machine0!Add
<1> SUFFICES ASSUME IInv, Aligned, op_add PROVE Machine0!Add
  OBVIOUS
<1>1. /\ Dispatch(ADD) /\ exact_ip(ip + 1) /\ UNCHANGED frames
      /\ stack' = Append(SubSeq(stack, 1, depth - 2), Wrap(stack[depth - 1] + stack[depth]))
  BY DEF op_add, advance_ip, exact_ip
<1>2. Installed /\ resolved_handler_id \notin InlineOperand
  BY <1>1 DEF Dispatch, Installed, ADD, InlineOperand, LIT, BRANCH, ZBRANCH
<1>3. PcIn(scenario, ThreadIn(xts, thread_cells), ip + 1) = Here.pc + 1
  BY <1>2, NextPlace
<1>4. Machine0!Perform(ADD) /\ Machine0!GoTo(Here.pc + 1)
  BY <1>1, <1>3, StaysInThread
<1>5. Len(frames) \in Nat
  BY DEF IInv, TypeOK
<1>6. Machine0!Depth = depth
  BY DEF Machine0!Depth, depth
<1> QED BY <1>1, <1>4, <1>5, <1>6, ViewFacts, SameHandlers, SameCode, Zenon DEF Machine0!Add

\* A branch goes to the instruction it names.
LEMMA BranchStep == IInv /\ Aligned /\ ExecuteTakesNoInline /\ op_branch => Machine0!Branch
<1> SUFFICES ASSUME IInv, Aligned, ExecuteTakesNoInline, op_branch PROVE Machine0!Branch
  OBVIOUS
<1>1. Dispatch(BRANCH) /\ exact_ip(branch_target_ip) /\ UNCHANGED <<stack, frames>>
  BY DEF op_branch
<1>2. Installed /\ resolved_handler_id \in {BRANCH, ZBRANCH}
  BY <1>1 DEF Dispatch, Installed
<1>3. Len(frames) \in Nat
  BY DEF IInv, TypeOK
<1>4. PcIn(scenario, ThreadIn(xts, thread_cells), branch_target_ip) = BodyAt(thread_cells)[Here.pc].arg
  BY <1>2, BranchPlace
<1>5. Machine0!Perform(BRANCH) /\ Machine0!GoTo(BodyAt(thread_cells)[Here.pc].arg)
  BY <1>1, <1>4, StaysInThread
<1> QED BY <1>1, <1>3, <1>5, InstructionIs, SameHandlers, Zenon DEF Machine0!Branch

\* A conditional one does if it took a zero, and else goes on behind its operand.
LEMMA ZeroBranchStep == IInv /\ Aligned /\ ExecuteTakesNoInline /\ op_zbranch => Machine0!ZBranch
<1> SUFFICES ASSUME IInv, Aligned, ExecuteTakesNoInline, op_zbranch PROVE Machine0!ZBranch
  OBVIOUS
<1> DEFINE goal == IF stack[depth] = 0 THEN BodyAt(thread_cells)[Here.pc].arg ELSE Here.pc + 1
<1>1. /\ Dispatch(ZBRANCH) /\ stack' = SubSeq(stack, 1, depth - 1) /\ UNCHANGED frames
      /\ exact_ip(IF stack[depth] = 0 THEN branch_target_ip ELSE operand_ip + 1)
  BY DEF op_zbranch, advance_ip, exact_ip
<1>2. Installed /\ resolved_handler_id \in {BRANCH, ZBRANCH} /\ resolved_handler_id \in InlineOperand
  BY <1>1 DEF Dispatch, Installed, InlineOperand
<1>3. Len(frames) \in Nat
  BY DEF IInv, TypeOK
<1>4. operand_ip + 1 = ip + 2
  BY DEF operand_ip, IInv, TypeOK
<1>5. PcIn(scenario, ThreadIn(xts, thread_cells), operand_ip + 1) = Here.pc + 1
  BY <1>2, <1>4, InlinePlace, Zenon
<1>6. PcIn(scenario, ThreadIn(xts, thread_cells), branch_target_ip) = BodyAt(thread_cells)[Here.pc].arg
  BY <1>2, BranchPlace
<1>7. PcIn(scenario, ThreadIn(xts, thread_cells), IF stack[depth] = 0 THEN branch_target_ip ELSE operand_ip + 1) = goal
  BY <1>5, <1>6
<1> HIDE DEF goal
<1>8. Machine0!Perform(ZBRANCH) /\ Machine0!GoTo(goal)
  BY <1>1, <1>7, StaysInThread
<1>9. Machine0!Depth = depth
  BY DEF Machine0!Depth, depth
<1>10. goal = IF stack[Machine0!Depth] = 0 THEN Machine0!Instruction.arg ELSE Machine0!Here.pc + 1
  BY <1>3, <1>9, InstructionIs, Zenon DEF goal
<1> QED BY <1>1, <1>8, <1>9, <1>10, SameHandlers, Zenon DEF Machine0!ZBranch

\* DOCOL enters the thread of its word, to return behind the call.
LEMMA DocolStep == IInv /\ Aligned /\ op_docol => Machine0!Docol
<1> SUFFICES ASSUME IInv, Aligned, op_docol PROVE Machine0!Docol
  OBVIOUS
<1> DEFINE frame == [cells |-> thread_cells, length |-> thread_length, return_ip |-> ip + 1]
           word == WordOfXt(xts, current_xt)
           callee == IF word = 0 THEN -1 ELSE word
<1>1. /\ Dispatch(DOCOL) /\ frames' = Append(frames, frame) /\ UNCHANGED stack
      /\ Resume(current_xt + 1, resolved_code_field_data, 0)
  BY DEF op_docol
<1>2. at = "dispatch" /\ Installed /\ resolved_handler_id = DOCOL /\ resolved_handler_id \notin InlineOperand
  BY <1>1 DEF Dispatch, Installed, InlineOperand, LIT, BRANCH, ZBRANCH, DOCOL
<1>3. /\ PendingView' = <<>> /\ thread_cells' = current_xt + 1 /\ ip' = 0
      /\ UNCHANGED <<scenario, xts, outcome>>
  BY <1>1, <1>2, Resumed
<1>4. Machine0!Perform(DOCOL)
  BY <1>1, <1>3, Performs
<1>5. frame.cells = thread_cells /\ frame.return_ip = ip + 1 /\ frame \in Frame /\ frames \in Seq(Frame)
  BY <1>1, Found DEF IInv, TypeOK, Frame
<1>6. PcIn(scenario, ThreadIn(xts, thread_cells), frame.return_ip) = Here.pc + 1
  BY <1>2, <1>5, NextPlace
<1>7. ThreadIn(xts, thread_cells') = callee
  <2>1. current_xt \in Int /\ current_xt + 1 # ENTRY
    <3>1. current_xt \in Int
      BY DEF IInv, TypeOK
    <3>2. CASE word = 0
      <4>1. current_xt = DOCOL
        BY <1>2, <3>2 DEF resolved_handler_id, HandlerOfXt
      <4> QED BY <4>1 DEF DOCOL, ENTRY
    <3>3. CASE word # 0
      <4>1. PICK k \in DOMAIN xts : xts[k] = current_xt
        BY <3>3 DEF WordOfXt
      <4>2. xts[k] \in LiteralValues
        BY <4>1 DEF IInv, ProgramOK
      <4> QED BY <4>1, <4>2 DEF LiteralValues, ENTRY
    <3> QED BY <3>1, <3>2, <3>3
  <2>2. current_xt + 1 - 1 = current_xt
    BY <2>1
  <2>3. ThreadIn(xts, thread_cells') = LET k == WordOfXt(xts, thread_cells' - 1) IN IF k = 0 THEN -1 ELSE k
    BY <1>3, <2>1 DEF ThreadIn
  <2>4. WordOfXt(xts, thread_cells' - 1) = word
    <3>1. thread_cells' = current_xt + 1
      BY <1>3
    <3>2. thread_cells' - 1 = current_xt
      BY <2>1, <3>1
    <3> QED BY <3>2, Zenon
  <2> QED BY <2>3, <2>4
<1>8. PcIn(scenario, callee, ip') = 1
  BY <1>3, <1>7, PlaceOf DEF Aligned
<1> HIDE DEF frame, callee
<1>9. ControlView' = Machine0!Outer \o << [Machine0!Here EXCEPT !.pc = @ + 1], [thread |-> callee, pc |-> 1] >>
  BY <1>1, <1>3, <1>5, <1>6, <1>7, <1>8, CallsThread
<1>10. callee = IF Machine0!Callee = 0 THEN -1 ELSE Machine0!Callee
  BY <1>2, InstalledView, Zenon DEF callee
<1> QED BY <1>1, <1>4, <1>9, <1>10, SameHandlers, Zenon DEF Machine0!Docol

\* EXIT resumes the caller.
LEMMA ExitStep == IInv /\ Aligned /\ op_exit => Machine0!Exit
<1> SUFFICES ASSUME IInv, Aligned, op_exit PROVE Machine0!Exit
  OBVIOUS
<1> DEFINE frame == frames[Len(frames)]
<1>1. /\ Dispatch(EXIT) /\ frames' = SubSeq(frames, 1, Len(frames) - 1) /\ UNCHANGED stack
      /\ Resume(frame.cells, frame.length, frame.return_ip)
  BY DEF op_exit
<1>2. Len(frames) >= 1 /\ frames \in Seq(Frame) /\ at = "dispatch"
  BY <1>1, Found, Requires
<1>3. /\ PendingView' = <<>> /\ thread_cells' = frame.cells /\ ip' = frame.return_ip
      /\ UNCHANGED <<scenario, xts, outcome>>
  BY <1>1, <1>2, Resumed
<1>4. Machine0!Perform(EXIT)
  BY <1>1, <1>3, Performs
<1>5. ControlView' = Machine0!Outer
  BY <1>1, <1>2, <1>3, ReturnsToCaller
<1> QED BY <1>1, <1>4, <1>5, SameHandlers, Zenon DEF Machine0!Exit

\* EXECUTE makes the value it takes the pending word.
LEMMA ExecuteStep == IInv /\ Aligned /\ op_execute => Machine0!Execute
<1> SUFFICES ASSUME IInv, Aligned, op_execute PROVE Machine0!Execute
  OBVIOUS
<1>1. /\ Dispatch(EXECUTE) /\ executed' = TRUE /\ current_xt' = stack[depth]
      /\ stack' = SubSeq(stack, 1, depth - 1)
      /\ UNCHANGED <<scenario, xts, thread_cells, ip, frames, at, outcome>>
  BY DEF op_execute, Untouched, program
<1>2. /\ at = "dispatch" /\ Installed /\ resolved_handler_id = EXECUTE /\ outcome = "none"
      /\ Meets(resolved_handler_id, depth, Len(frames))
  BY <1>1 DEF Dispatch, Sound, Installed, IInv, Going
<1>3. ~Machine0!AtEnd /\ Machine0!Handler = EXECUTE /\ Machine0!Executable
  BY <1>2, InstalledView
<1>4. PendingView' = <<stack[depth]>>
  BY <1>1, <1>2 DEF PendingView
<1>5. UNCHANGED ControlView
  BY <1>1, StaysPut
<1>6. Machine0!Depth = depth
  BY DEF Machine0!Depth, depth
<1> QED BY <1>1, <1>2, <1>3, <1>4, <1>5, <1>6, SameHandlers, Zenon DEF Machine0!Execute

\* Whether the abstract machine may perform a handler is a matter of the two depths.
LEMMA ExecutableIs ==
  ASSUME Len(frames) \in Nat, NEW h, Machine0!Handler = h
  PROVE  Machine0!Executable <=> Meets(h, depth, Len(frames))
<1>1. Machine0!Depth = depth
  BY DEF Machine0!Depth, depth
<1>2. Len(ControlView) - 1 = Len(frames)
  BY ViewFacts
<1> QED BY <1>1, <1>2, SameCode, Zenon DEF Machine0!Executable

\* Before a fetch the abstract machine is at the end of the thread, or at the instruction whose
\* opcode will be fetched.
LEMMA FetchView ==
  ASSUME IInv, Aligned, at \in {"fetch", "after"}, ~Direct, ~Installed
  PROVE  /\ ip >= ExtentIn(xts, threads, thread_cells) => Machine0!AtEnd
         /\ ip < ExtentIn(xts, threads, thread_cells) =>
              Machine0!Handler = HandlerOfXt(scenario, xts, Cell(ip))
<1> DEFINE instr == BodyAt(thread_cells)[Here.pc]
<1>1. Prepared /\ Len(frames) \in Nat /\ PendingView = <<>>
  BY PendingIs DEF Aligned, IInv, TypeOK
<1>2. ip >= ExtentIn(xts, threads, thread_cells) => Machine0!AtEnd
  BY <1>1, FetchPlace, InstructionIs
<1>3. ASSUME ip < ExtentIn(xts, threads, thread_cells)
      PROVE  Machine0!Handler = HandlerOfXt(scenario, xts, Cell(ip))
  <2>1. Here.pc \in 1 .. Len(BodyAt(thread_cells)) /\ Cell(ip) = Opcode(xts, instr)
    BY <1>3, FetchPlace
  <2>2. Machine0!Handler = IF instr.op = CALL THEN scenario.words[instr.arg].handler
                           ELSE IF instr.op = LITXT THEN LIT ELSE instr.op
    BY <1>1, InstructionIs, SameHandlers, Zenon DEF Machine0!Handler
  <2> DEFINE h == HandlerOfXt(scenario, xts, Opcode(xts, instr))
  <2>3. /\ instr.op = CALL => h = scenario.words[instr.arg].handler
        /\ instr.op = LITXT => h = LIT
        /\ instr.op \notin {CALL, LITXT} => h = instr.op
    BY <1>1, <2>1, OpcodeHandler
  <2>4. Cell(ip) = Opcode(xts, instr)
    BY <2>1
  <2> HIDE DEF h, instr
  <2>5. Machine0!Handler = h
    BY <2>2, <2>3, Zenon
  <2> QED BY <2>4, <2>5, Zenon DEF h
<1> QED BY <1>2, <1>3

\* A behaviour's end changes nothing but the outcome.
LEMMA Stopped ==
  ASSUME IInv, at # "stopped", NEW o, End(o), UNCHANGED <<Machine, program, entrypoint>>, Machine0!MayStop(o)
  PROVE  Machine0!Stop(o)
<1>1. /\ at' = "stopped" /\ outcome' = o /\ outcome = "none"
      /\ UNCHANGED <<scenario, xts, stack, frames, thread_cells, ip>>
  BY DEF End, Machine, program, IInv, Going
<1>2. PendingView' = <<>>
  BY <1>1 DEF PendingView
<1>3. UNCHANGED ControlView
  BY <1>1, StaysPut
<1> QED BY <1>1, <1>2, <1>3, Zenon DEF Machine0!Stop

\* The preflight refuses what the abstract machine could not perform, or does not know.
LEMMA RefusedStep == IInv /\ Aligned /\ StepRefused => Machine0!Stop("refused")
<1> SUFFICES ASSUME IInv, Aligned, StepRefused PROVE Machine0!Stop("refused")
  OBVIOUS
<1>1. /\ at = "fetch" /\ End("refused") /\ UNCHANGED <<Machine, program, entrypoint>>
      /\ IF Direct THEN ~Preflight(xts[scenario.direct]) ELSE ~StepAllowed
  BY DEF StepRefused
<1>2. Len(frames) \in Nat
  BY DEF IInv, TypeOK
<1>3. Lowered \subseteq Described
  BY DEF Lowered, Described, ADD, EXIT, EXECUTE, LIT, BRANCH, ZBRANCH, DOCOL, HALT
<1>4. ASSUME NEW xt, Machine0!Handler = HandlerOfXt(scenario, xts, xt),
             ~Preflight(xt) \/ HandlerOfXt(scenario, xts, xt) \notin Lowered
      PROVE  Machine0!Handler \notin Lowered \/ ~Machine0!Executable
  <2>1. Machine0!Executable <=> Meets(HandlerOfXt(scenario, xts, xt), depth, Len(frames))
    BY <1>2, <1>4, ExecutableIs
  <2> QED BY <1>3, <1>4, <2>1 DEF Preflight
<1>5. Machine0!AtEnd \/ Machine0!Handler \notin Lowered \/ ~Machine0!Executable
  <2>1. CASE Direct
    <3>1. PendingView = <<xts[scenario.direct]>>
      BY <1>1, <2>1, PendingIs
    <3>2. PendingView # <<>> /\ PendingView[1] = xts[scenario.direct]
      BY <3>1
    <3>3. Machine0!Handler = HandlerOfXt(scenario, xts, xts[scenario.direct])
      BY <3>2, SameCode, Zenon DEF Machine0!Handler
    <3> QED BY <1>1, <1>4, <2>1, <3>3
  <2>2. CASE ~Direct
    <3>1. at \in {"fetch", "after"} /\ ~Installed
      BY <1>1 DEF Installed, IInv, Going
    <3>2. CASE ip >= ExtentIn(xts, threads, thread_cells)
      BY <2>2, <3>1, <3>2, FetchView
    <3>3. CASE ip < ExtentIn(xts, threads, thread_cells)
      <4>1. Machine0!Handler = HandlerOfXt(scenario, xts, Cell(ip))
        BY <2>2, <3>1, <3>3, FetchView
      <4>2. ThreadAt(thread_cells) # -1 /\ ip < ExtentAt(thread_cells)
        <5>1. ThreadIn(xts, thread_cells) = -1 => ExtentIn(xts, threads, thread_cells) = 0
          BY DEF ExtentIn
        <5>2. ip \in Nat
          BY <2>2, <3>1, FetchPlace
        <5>3. ThreadIn(xts, thread_cells) # -1
          BY <3>3, <5>1, <5>2
        <5> QED BY <3>3, <5>3, Readings
      <4>3. ~Preflight(Cell(ip)) \/ HandlerOfXt(scenario, xts, Cell(ip)) \notin Lowered
        BY <1>1, <2>2, <4>2 DEF StepAllowed
      <4> QED BY <1>4, <4>1, <4>3
    <3>4. ip \in Int /\ ExtentIn(xts, threads, thread_cells) \in Int
      BY CellType DEF IInv, TypeOK
    <3> QED BY <3>2, <3>3, <3>4
  <2> QED BY <2>1, <2>2
<1>6. Machine0!MayStop("refused")
  BY <1>5, SameHandlers, Zenon DEF Machine0!MayStop
<1> QED BY <1>1, <1>6, Stopped

\* A run that fetches outside its thread has come to the end of it.
LEMMA FetchOverrunStep == IInv /\ Aligned /\ RunFetchOverrun => Machine0!Stop("overrun")
<1> SUFFICES ASSUME IInv, Aligned, RunFetchOverrun PROVE Machine0!Stop("overrun")
  OBVIOUS
<1>1. /\ at = "fetch" /\ End("overrun") /\ UNCHANGED <<Machine, program, entrypoint>>
      /\ ~Direct /\ ~Readable(thread_cells, ip)
  BY DEF RunFetchOverrun
<1>2. ~Installed
  BY <1>1 DEF Installed, IInv, Going
<1>3. ip >= ExtentIn(xts, threads, thread_cells)
  <2>1. ip \in Nat /\ ExtentIn(xts, threads, thread_cells) \in Nat
    BY <1>1, <1>2, FetchPlace
  <2>2. ip \notin 0 .. ExtentIn(xts, threads, thread_cells) - 1
    BY <1>1, Readings DEF Readable
  <2> QED BY <2>1, <2>2
<1>4. Machine0!AtEnd
  BY <1>1, <1>2, <1>3, FetchView
<1>5. Machine0!MayStop("overrun")
  BY <1>4, Zenon DEF Machine0!MayStop
<1> QED BY <1>1, <1>5, Stopped

\* A handler reaches outside an array only by its requirements: an operand is always there.
LEMMA HandlerOverrunStep == IInv /\ Aligned /\ ExecuteTakesNoInline /\ HandlerOverrun => Machine0!Stop("overrun")
<1> SUFFICES ASSUME IInv, Aligned, ExecuteTakesNoInline, HandlerOverrun PROVE Machine0!Stop("overrun")
  OBVIOUS
<1>1. /\ at = "dispatch" /\ End("overrun") /\ UNCHANGED <<Machine, program, entrypoint>>
      /\ ~Sound(resolved_handler_id)
  BY DEF HandlerOverrun
<1>2. Installed
  BY <1>1 DEF Installed
<1>3. resolved_handler_id \in InlineOperand => Readable(thread_cells, ip + 1)
  BY <1>2, InlinePlace, Zenon
<1>4. ~Machine0!Executable
  BY <1>1, <1>2, <1>3, InstalledView DEF Sound
<1>5. Machine0!MayStop("overrun")
  BY <1>4, Zenon DEF Machine0!MayStop
<1> QED BY <1>1, <1>5, Stopped

\* HALT and the handlers without a case end the program where it is.
LEMMA HaltedStep == IInv /\ Aligned /\ Halted => Machine0!Stop("halted")
<1> SUFFICES ASSUME IInv, Aligned, Halted PROVE Machine0!Stop("halted")
  OBVIOUS
<1>1. /\ at = "after" /\ halt_requested /\ End("halted") /\ UNCHANGED <<Machine, program, entrypoint>>
  BY DEF Halted
<1>2. Installed /\ resolved_handler_id \notin Lowered \ {HALT}
  BY <1>1 DEF Installed, Aligned
<1>3. ~Machine0!AtEnd /\ Machine0!Handler \notin Lowered \ {HALT}
  BY <1>2, InstalledView
<1>4. Machine0!MayStop("halted")
  BY <1>3, SameHandlers, Zenon DEF Machine0!MayStop
<1> QED BY <1>1, <1>4, Stopped

\* A run returns at the end of a thread.
LEMMA RunReturnsStep == IInv /\ Aligned /\ RunReturns => Machine0!Stop("ran_off")
<1> SUFFICES ASSUME IInv, Aligned, RunReturns PROVE Machine0!Stop("ran_off")
  OBVIOUS
<1>1. /\ at = "after" /\ ~halt_requested /\ entrypoint = "lowered_run" /\ ip >= thread_length
      /\ End("ran_off") /\ UNCHANGED <<Machine, program, entrypoint>>
  BY DEF RunReturns
<1>2. ~Direct /\ ~Installed
  BY <1>1 DEF Direct, NotStarted, Installed
<1>3. Machine0!AtEnd
  BY <1>1, <1>2, Lengths, FetchView
<1>4. Machine0!MayStop("ran_off")
  BY <1>3, Zenon DEF Machine0!MayStop
<1> QED BY <1>1, <1>4, Stopped

\* A call, a request for the end and the way back to the driver show nothing.
LEMMA SilentStep ==
  IInv /\ Aligned /\ (DirectCall \/ StepCall \/ RunFetch \/ HaltOrUnsupported \/ NextCall) => UNCHANGED Machine0!vars
<1> SUFFICES ASSUME IInv, Aligned, DirectCall \/ StepCall \/ RunFetch \/ HaltOrUnsupported \/ NextCall
             PROVE  UNCHANGED Machine0!vars
  OBVIOUS
<1>1. UNCHANGED <<scenario, xts, stack, frames, thread_cells, ip, outcome>>
  BY DEF DirectCall, StepCall, RunFetch, HaltOrUnsupported, NextCall, Call, Machine, program, Untouched
<1>2. UNCHANGED ControlView
  BY <1>1, StaysPut
<1>3. UNCHANGED PendingView
  <2>1. CASE DirectCall
    <3>1. at = "fetch" /\ Direct /\ entrypoint' = "lowered_step_xt" /\ at' = "dispatch" /\ executed' = FALSE
      BY <2>1 DEF DirectCall, Call
    <3>2. PendingView' = <<xts[scenario.direct]>>
      BY <1>1, <3>1 DEF PendingView
    <3> QED BY <3>1, <3>2, PendingIs
  <2>2. CASE StepCall \/ RunFetch
    <3>1. /\ at = "fetch" /\ ~Direct /\ entrypoint' \in {"lowered_step", "lowered_run"}
          /\ at' = "dispatch" /\ executed' = FALSE
      BY <2>2 DEF StepCall, RunFetch, Call
    <3>2. PendingView' = <<>>
      BY <3>1 DEF PendingView, Direct, NotStarted
    <3>3. ~Installed
      BY <3>1 DEF Installed, IInv, Going
    <3> QED BY <3>1, <3>2, <3>3, PendingIs
  <2>3. CASE HaltOrUnsupported
    <3>1. at = "dispatch" /\ at' = "after" /\ halt_requested' = TRUE /\ UNCHANGED <<entrypoint, current_xt, executed>>
      BY <2>3 DEF HaltOrUnsupported, Untouched
    <3> QED BY <1>1, <3>1 DEF PendingView, Direct, NotStarted
  <2>4. CASE NextCall
    <3>1. /\ at = "after" /\ at' = "fetch" /\ ~halt_requested
          /\ UNCHANGED <<entrypoint, current_xt, executed, halt_requested>>
      BY <2>4 DEF NextCall, Machine
    <3> QED BY <1>1, <3>1 DEF PendingView, Direct, NotStarted
  <2> QED BY <2>1, <2>2, <2>3, <2>4
<1> QED BY <1>1, <1>2, <1>3 DEF Machine0!vars

\* A prepared program starts where the abstract one does.
LEMMA InitMaps == Init /\ Prepared => Machine0!Init
<1> SUFFICES ASSUME Init, Prepared PROVE Machine0!Init
  OBVIOUS
<1> DEFINE place == [thread |-> 0, pc |-> IF scenario.direct = 0 THEN 1 ELSE 0]
<1>1. xts = Machine0!Xts(scenario) /\ stack = <<>> /\ outcome = "none"
  BY SameXts DEF Init
<1>2. PendingView = IF scenario.direct = 0 THEN <<>> ELSE <<xts[scenario.direct]>>
  BY DEF Init, PendingView, Direct, NotStarted
<1>3. Outer = <<>>
  BY DEF Init, Outer, OuterIn
<1>4. Here = place
  <2>1. thread_cells = ENTRY /\ ip = IF scenario.direct = 0 THEN 0 ELSE -1
    BY DEF Init
  <2>2. ThreadIn(xts, thread_cells) = 0
    BY <2>1 DEF ThreadIn
  <2>3. /\ PcIn(scenario, ThreadIn(xts, thread_cells), 0) = 1
        /\ PcIn(scenario, ThreadIn(xts, thread_cells), -1) = 0
    BY PlaceOf
  <2> QED BY <2>1, <2>2, <2>3 DEF Here, PosIn
<1> HIDE DEF place
<1>5. ControlView = <<place>>
  <2>1. Append(<<>>, place) = <<place>>
    OBVIOUS
  <2> QED BY <1>3, <1>4, <2>1, ControlIs, Zenon
<1> QED BY <1>1, <1>2, <1>5, Zenon DEF Machine0!Init, place

\* Every step of the interpreter is a step of the abstract machine or shows nothing.
LEMMA StepMaps ==
  IInv /\ Aligned /\ ExecuteTakesNoInline /\ [Next]_vars => [Machine0!Next]_(Machine0!vars)
<1> SUFFICES ASSUME IInv, Aligned, ExecuteTakesNoInline, [Next]_vars
             PROVE  Machine0!Next \/ UNCHANGED Machine0!vars
  OBVIOUS
<1>1. CASE DirectCall \/ StepCall \/ RunFetch \/ HaltOrUnsupported \/ NextCall
  BY <1>1, SilentStep
<1>2. CASE op_lit \/ op_add \/ op_branch \/ op_zbranch
  BY <1>2, LitStep, AddStep, BranchStep, ZeroBranchStep, Zenon DEF Machine0!Next
<1>3. CASE op_docol \/ op_exit \/ op_execute
  BY <1>3, DocolStep, ExitStep, ExecuteStep, Zenon DEF Machine0!Next
<1>4. CASE StepRefused \/ RunFetchOverrun \/ HandlerOverrun \/ Halted \/ RunReturns
  <2>1. \E o \in {"halted", "ran_off", "refused", "overrun"} : Machine0!Stop(o)
    BY <1>4, RefusedStep, FetchOverrunStep, HandlerOverrunStep, HaltedStep, RunReturnsStep
  <2> QED BY <2>1, Zenon DEF Machine0!Next
<1>5. CASE UNCHANGED vars
  <2>1. UNCHANGED <<scenario, xts, stack, frames, thread_cells, ip, outcome, entrypoint, current_xt, halt_requested,
                    executed, at>>
    BY <1>5 DEF vars
  <2>2. UNCHANGED ControlView
    BY <2>1, StaysPut
  <2>3. UNCHANGED PendingView
    BY <2>1 DEF PendingView, Direct, NotStarted
  <2> QED BY <2>1, <2>2, <2>3 DEF Machine0!vars
<1> QED BY <1>1, <1>2, <1>3, <1>4, <1>5 DEF Next

\* Stepped or run, every program of well-formed threads, with words and arrays of any size, does
\* what its instructions say: the interpreter over cells implements the machine over
\* instructions, as long as EXECUTE takes no word that wants an inline operand.
THEOREM ForthRefinement ==
  ASSUME \A s \in Scenarios : WellFormed(s)
  PROVE  Spec /\ []ExecuteTakesNoInline => ImplementsForthMachine
<1>1. Init => IInv /\ Aligned /\ Machine0!Init
  BY InitInvariant, InitAligned, InitMaps DEF Aligned
<1>2. IInv /\ Aligned /\ ExecuteTakesNoInline /\ [Next]_vars => IInv' /\ Aligned'
  BY NextInvariant, AlignedKept
<1>3. IInv /\ Aligned /\ ExecuteTakesNoInline /\ [Next]_vars => [Machine0!Next]_(Machine0!vars)
  BY StepMaps
<1> QED BY <1>1, <1>2, <1>3, PTL DEF Spec, ImplementsForthMachine, Machine0!Spec

\* For such programs every operand is there, so that nothing has to be assumed of the threads:
\* a stepped program reaches outside an array only in a word that EXECUTE dispatched.
THEOREM PreflightProtectsPrograms ==
  ASSUME \A s \in Scenarios : WellFormed(s)
  PROVE  Spec /\ []ExecuteTakesNoInline => OnlyExecuteOverruns
<1>1. Init => IInv /\ Aligned
  BY InitInvariant, InitAligned
<1>2. IInv /\ Aligned /\ ExecuteTakesNoInline /\ [Next]_vars => IInv' /\ Aligned'
  BY NextInvariant, AlignedKept
<1>3. IInv /\ Aligned /\ ExecuteTakesNoInline => OperandPresent
  <2> SUFFICES ASSUME IInv, Aligned, ExecuteTakesNoInline, at = "dispatch", resolved_handler_id \in InlineOperand
               PROVE  Readable(thread_cells, ip + 1)
    BY DEF OperandPresent
  <2>1. Installed
    BY DEF Installed
  <2> QED BY <2>1, InlinePlace, Zenon
<1>4. IInv /\ OperandPresent /\ [Next]_vars
        => [mode = "step" /\ outcome' = "overrun" => executed]_vars
  BY StepProtected
<1> QED BY <1>1, <1>2, <1>3, <1>4, PTL DEF Spec, OnlyExecuteOverruns

\* What interpreter_xt_shadowing refutes for a dictionary of many words holds while no code field
\* has a number that the program uses as a primitive's: a cell that names no word enters none.
THEOREM XtsOfWellFormedPrograms ==
  ASSUME \A s \in Scenarios : WellFormed(s)
  PROVE  Spec /\ []ExecuteTakesNoInline => []XtIsUnambiguous
<1>1. Init => IInv /\ Aligned
  BY InitInvariant, InitAligned
<1>2. IInv /\ Aligned /\ ExecuteTakesNoInline /\ [Next]_vars => IInv' /\ Aligned'
  BY NextInvariant, AlignedKept
<1>3. IInv /\ Aligned => XtIsUnambiguous
  <2> SUFFICES ASSUME IInv, Aligned, at = "dispatch", ~executed, entrypoint # "lowered_step_xt"
               PROVE  LET here == Position(thread_cells, ip)
                          instr == Body(scenario, here.thread)[here.pc]
                      IN  WordOfXt(xts, current_xt) # 0 => instr.op = CALL
    BY DEF XtIsUnambiguous
  <2>1. Installed /\ ~ByName /\ Prepared
    BY DEF Installed, ByName, Aligned
  <2>2. /\ Here.pc \in 1 .. Len(BodyAt(thread_cells))
        /\ current_xt = Opcode(xts, BodyAt(thread_cells)[Here.pc])
    BY <2>1, InstalledPlace DEF InstalledBy
  <2>3. WordOfXt(xts, current_xt) # 0 => BodyAt(thread_cells)[Here.pc].op = CALL
    BY <2>1, <2>2, OpcodeHandler
  <2>4. Position(thread_cells, ip) = Here /\ Here.thread = ThreadIn(xts, thread_cells)
    BY DEF Position, PcAt, PcIn, ThreadAt, ThreadIn, Here, PosIn
  <2>5. Body(scenario, Position(thread_cells, ip).thread) = BodyAt(thread_cells)
    BY <2>4 DEF BodyAt
  <2> QED BY <2>3, <2>4, <2>5
<1> QED BY <1>1, <1>2, <1>3, PTL DEF Spec

=============================================================================
