----------------------------- MODULE StackKernels -----------------------------
(***************************************************************************)
(* The words of the shared-stack-kernel lab, each implemented twice: raw,  *)
(* spelling out its pushes and pops, and as a thin wrapper over one of the *)
(* shared kernels of kernels.py.  Both run the same words side by side.    *)
(***************************************************************************)
EXTENDS StackMachine

CONSTANTS
  DataSeeds,    \* the values scenarios push before the words run, deepest first
  ReturnSeeds,  \* the same for the return stack
  SeedMemory,   \* what scenarios write to memory
  MaxWords      \* bound on the words of a scenario

\* Scenarios push Python ints and write bytes.
ASSUME SeedAssumption ==
  /\ DataSeeds \subseteq Seq(Int) /\ ReturnSeeds \subseteq Seq(Int)
  /\ SeedMemory \in [0 .. MemorySize - 1 -> 0 .. ByteMod - 1]
  /\ MaxWords \in Nat

VARIABLES
  raw,      \* the machine of the raw words
  kernel,   \* the machine of the kernelized words
  word,     \* the word executed last, "none" at first
  count     \* how many words have run

vars == <<raw, kernel, word, count>>

StackWords == {"DROP", "SWAP", "DUP", "OVER", "ROT", "-ROT", "2DROP", "2DUP", "2SWAP", "?DUP"}
ArithmeticWords == {"1+", "1-", "4+", "4-", "+", "-", "*", "/MOD"}
ComparisonWords == {"=", "<>", "<", ">", "<=", ">="}
ZeroTests == {"0=", "0<>", "0<", "0>", "0<=", "0>="}
BitwiseWords == {"AND", "OR", "XOR", "INVERT"}
MemoryWords == {"!", "@", "+!", "-!", "C!", "C@", "C@C!", "CMOVE"}
ReturnWords == {">R", "R>", "RSP@", "RSP!", "RDROP", "DSP@", "DSP!"}
Words ==
  StackWords \cup ArithmeticWords \cup ComparisonWords \cup ZeroTests \cup BitwiseWords
    \cup MemoryWords \cup ReturnWords

(***************************************************************************)
(* The raw words.  top, second and third are what successive pops return.  *)
(***************************************************************************)
top(s) == peek_data(s, 0)
second(s) == peek_data(s, 1)
third(s) == peek_data(s, 2)
pop2(s) == pop_data(pop_data(s))
pop3(s) == pop_data(pop2(s))

\* raw_rot and raw_nrot write a window rebuilt from three reads of itself.
RawRotate(s, i, j, k) ==
  LET t == windowed(s, 3)
      w == data_window(s, 3)
  IN  replace_data_window(t, 3, <<w[i], w[j], w[k]>>)

raw_stack(w, s) ==
  CASE w = "DROP"  -> pop_data(s)
    [] w = "SWAP"  -> push_data(push_data(pop2(s), top(s)), second(s))
    [] w = "DUP"   -> push_data(peekable(s, 0), top(s))
    [] w = "OVER"  -> push_data(peekable(s, 1), second(s))
    [] w = "ROT"   -> RawRotate(s, 2, 3, 1)
    [] w = "-ROT"  -> RawRotate(s, 3, 1, 2)
    [] w = "2DROP" -> pop2(s)
    [] w = "2DUP"  -> push_data(push_data(windowed(s, 2), second(s)), top(s))
    [] w = "2SWAP" -> LET d == data_window(s, 4)
                      IN  replace_data_window(windowed(s, 4), 4, <<d[3], d[4], d[1], d[2]>>)
    [] w = "?DUP"  -> LET t == peekable(s, 0)
                      IN  IF Running(t) /\ top(t) # 0 THEN push_data(t, top(t)) ELSE t

raw_arithmetic(w, s) ==
  CASE w = "1+" -> push_data(pop_data(s), top(s) + 1)
    [] w = "1-" -> push_data(pop_data(s), top(s) - 1)
    [] w = "4+" -> push_data(pop_data(s), top(s) + 4)
    [] w = "4-" -> push_data(pop_data(s), top(s) - 4)
    [] w = "+"  -> push_data(pop2(s), second(s) + top(s))
    [] w = "-"  -> push_data(pop2(s), second(s) - top(s))
    [] w = "*"  -> push_data(pop2(s), second(s) * top(s))
    [] w = "/MOD" -> LET t == Require(pop2(s), top(s) # 0, "ZeroDivisionError")
                         r == trunc_divmod(second(s), top(s))
                     IN  push_data(push_data(t, r[1]), r[2])

raw_comparison(w, s) ==
  CASE w = "="   -> push_data(pop2(s), bool_cell(second(s) = top(s)))
    [] w = "<>"  -> push_data(pop2(s), bool_cell(second(s) # top(s)))
    [] w = "<"   -> push_data(pop2(s), bool_cell(second(s) < top(s)))
    [] w = ">"   -> push_data(pop2(s), bool_cell(second(s) > top(s)))
    [] w = "<="  -> push_data(pop2(s), bool_cell(second(s) <= top(s)))
    [] w = ">="  -> push_data(pop2(s), bool_cell(second(s) >= top(s)))

raw_zero_test(w, s) ==
  CASE w = "0="  -> push_data(pop_data(s), bool_cell(top(s) = 0))
    [] w = "0<>" -> push_data(pop_data(s), bool_cell(top(s) # 0))
    [] w = "0<"  -> push_data(pop_data(s), bool_cell(top(s) < 0))
    [] w = "0>"  -> push_data(pop_data(s), bool_cell(top(s) > 0))
    [] w = "0<=" -> push_data(pop_data(s), bool_cell(top(s) <= 0))
    [] w = "0>=" -> push_data(pop_data(s), bool_cell(top(s) >= 0))

raw_bitwise(w, s) ==
  CASE w = "AND" -> push_data(pop2(s), bit_and(second(s), top(s)))
    [] w = "OR"  -> push_data(pop2(s), bit_or(second(s), top(s)))
    [] w = "XOR" -> push_data(pop2(s), bit_xor(second(s), top(s)))
    [] w = "INVERT" -> push_data(pop_data(s), -top(s) - 1)

raw_memory(w, s) ==
  CASE w = "!"  -> write_cell(pop2(s), top(s), second(s))
    [] w = "@"  -> push_data(check_memory(pop_data(s), top(s), CellBytes),
                             read_cell(s, top(s)))
    [] w = "+!" -> write_cell(check_memory(pop2(s), top(s), CellBytes), top(s),
                              read_cell(s, top(s)) + second(s))
    [] w = "-!" -> write_cell(check_memory(pop2(s), top(s), CellBytes), top(s),
                              read_cell(s, top(s)) - second(s))
    [] w = "C!" -> write_byte(pop2(s), top(s), second(s))
    [] w = "C@" -> push_data(check_memory(pop_data(s), top(s), 1), read_byte(s, top(s)))
    [] w = "C@C!" -> replace_data_window(copy_byte(windowed(s, 2), second(s), top(s)), 2,
                                         <<second(s) + 1, top(s) + 1>>)
    [] w = "CMOVE" -> copy_bytes(pop3(s), third(s), second(s), top(s))

raw_return(w, s) ==
  CASE w = ">R"    -> push_return(pop_data(s), top(s))
    [] w = "R>"    -> push_data(pop_return(s), peek_return(s))
    [] w = "RSP@"  -> push_data(s, s.rsp)
    [] w = "RSP!"  -> set_rsp(pop_data(s), top(s))
    [] w = "RDROP" -> pop_return(s)
    [] w = "DSP@"  -> push_data(s, s.dsp)
    [] w = "DSP!"  -> set_dsp(pop_data(s), top(s))

RawWord(w, s) ==
  CASE w \in StackWords -> raw_stack(w, s)
    [] w \in ArithmeticWords -> raw_arithmetic(w, s)
    [] w \in ComparisonWords -> raw_comparison(w, s)
    [] w \in ZeroTests -> raw_zero_test(w, s)
    [] w \in BitwiseWords -> raw_bitwise(w, s)
    [] w \in MemoryWords -> raw_memory(w, s)
    [] w \in ReturnWords -> raw_return(w, s)

(***************************************************************************)
(* The kernels, and the words as wrappers over them.                       *)
(***************************************************************************)
drop_n(s, n) ==
  LET after[k \in 0 .. n] == IF k = 0 THEN s ELSE pop_data(after[k - 1]) IN after[n]

permute(s, window, order) ==
  LET segment == data_window(s, window)
  IN  replace_data_window(windowed(s, window), window,
                          [i \in 1 .. window |-> segment[order[i]]])

dup_top(s) == push_data(peekable(s, 0), peek_data(s, 0))

dup_top_if_nonzero(s) ==
  LET t == peekable(s, 0)
  IN  IF Running(t) /\ peek_data(t, 0) # 0 THEN push_data(t, peek_data(t, 0)) ELSE t

copy_from_depth(s, depth) == push_data(peekable(s, depth), peek_data(s, depth))

dup_segment_fault(s, width) ==
  LET segment == data_window(s, width)
      after[k \in 0 .. width] ==
        IF k = 0 THEN windowed(s, width)
        ELSE push_data(after[k - 1], segment[width + 1 - k])
  IN  after[width]
dup_segment(s, width) ==
  LET segment == data_window(s, width)
      after[k \in 0 .. width] ==
        IF k = 0 THEN windowed(s, width) ELSE push_data(after[k - 1], segment[k])
  IN  after[width]

unary_transform(s, fn) == push_data(pop_data(s), to_cell(fn[peek_data(s, 0)]))

unary_predicate(s, fn) == push_data(pop_data(s), bool_cell(fn[peek_data(s, 0)]))

binary_reduce(s, fn) == push_data(pop2(s), to_cell(fn[second(s)][top(s)]))

\* Only division by zero raises: after both pops, before either push.
binary_multi_result(s, fn) ==
  LET t == Require(pop2(s), top(s) # 0, "ZeroDivisionError")
      results == fn[second(s)][top(s)]
  IN  push_data(push_data(t, results[1]), results[2])

memory_store(s, width) ==
  IF width = CellBytes THEN write_cell(pop2(s), top(s), second(s))
  ELSE write_byte(pop2(s), top(s), second(s))

memory_fetch(s, width) ==
  push_data(check_memory(pop_data(s), top(s), width),
            IF width = CellBytes THEN read_cell(s, top(s)) ELSE read_byte(s, top(s)))

memory_update(s, fn) ==
  write_cell(check_memory(pop2(s), top(s), CellBytes), top(s),
             to_cell(fn[read_cell(s, top(s))][second(s)]))

copy_byte_and_advance(s) ==
  LET window == data_window(s, 2)
  IN  replace_data_window(copy_byte(windowed(s, 2), window[1], window[2]), 2,
                          <<window[1] + 1, window[2] + 1>>)

copy_block(s) == copy_bytes(pop3(s), third(s), second(s), top(s))

move_between_stacks(s, direction) ==
  IF direction = "to_return" THEN push_return(pop_data(s), top(s))
  ELSE push_data(pop_return(s), peek_return(s))

drop_return(s) == pop_return(s)

get_stack_pointer(s, kind) == push_data(s, IF kind = "data" THEN s.dsp ELSE s.rsp)

set_stack_pointer(s, kind) ==
  IF kind = "data" THEN set_dsp(pop_data(s), top(s)) ELSE set_rsp(pop_data(s), top(s))

kernel_stack(w, s) ==
  CASE w = "DROP"  -> drop_n(s, 1)
    [] w = "SWAP"  -> permute(s, 2, <<2, 1>>)
    [] w = "DUP"   -> dup_top(s)
    [] w = "OVER"  -> copy_from_depth(s, 1)
    [] w = "ROT"   -> permute(s, 3, <<2, 3, 1>>)
    [] w = "-ROT"  -> permute(s, 3, <<3, 1, 2>>)
    [] w = "2DROP" -> drop_n(s, 2)
    [] w = "2DUP"  -> dup_segment(s, 2)
    [] w = "2SWAP" -> permute(s, 4, <<3, 4, 1, 2>>)
    [] w = "?DUP"  -> dup_top_if_nonzero(s)

kernel_arithmetic(w, s) ==
  CASE w = "1+" -> unary_transform(s, [value \in Cell |-> value + 1])
    [] w = "1-" -> unary_transform(s, [value \in Cell |-> value - 1])
    [] w = "4+" -> unary_transform(s, [value \in Cell |-> value + 4])
    [] w = "4-" -> unary_transform(s, [value \in Cell |-> value - 4])
    [] w = "+"  -> binary_reduce(s, [lhs \in Cell |-> [rhs \in Cell |-> lhs + rhs]])
    [] w = "-"  -> binary_reduce(s, [lhs \in Cell |-> [rhs \in Cell |-> lhs - rhs]])
    [] w = "*"  -> binary_reduce(s, [lhs \in Cell |-> [rhs \in Cell |-> lhs * rhs]])
    [] w = "/MOD" -> binary_multi_result(s, [lhs \in Cell |-> [rhs \in Cell |-> trunc_divmod(lhs, rhs)]])

kernel_comparison(w, s) ==
  CASE w = "="   -> binary_reduce(s, [lhs \in Cell |-> [rhs \in Cell |-> bool_cell(lhs = rhs)]])
    [] w = "<>"  -> binary_reduce(s, [lhs \in Cell |-> [rhs \in Cell |-> bool_cell(lhs # rhs)]])
    [] w = "<"   -> binary_reduce(s, [lhs \in Cell |-> [rhs \in Cell |-> bool_cell(lhs < rhs)]])
    [] w = ">"   -> binary_reduce(s, [lhs \in Cell |-> [rhs \in Cell |-> bool_cell(lhs > rhs)]])
    [] w = "<="  -> binary_reduce(s, [lhs \in Cell |-> [rhs \in Cell |-> bool_cell(lhs <= rhs)]])
    [] w = ">="  -> binary_reduce(s, [lhs \in Cell |-> [rhs \in Cell |-> bool_cell(lhs >= rhs)]])

kernel_zero_test(w, s) ==
  CASE w = "0="  -> unary_predicate(s, [value \in Cell |-> value = 0])
    [] w = "0<>" -> unary_predicate(s, [value \in Cell |-> value # 0])
    [] w = "0<"  -> unary_predicate(s, [value \in Cell |-> value < 0])
    [] w = "0>"  -> unary_predicate(s, [value \in Cell |-> value > 0])
    [] w = "0<=" -> unary_predicate(s, [value \in Cell |-> value <= 0])
    [] w = "0>=" -> unary_predicate(s, [value \in Cell |-> value >= 0])

kernel_bitwise(w, s) ==
  CASE w = "AND" -> binary_reduce(s, [lhs \in Cell |-> [rhs \in Cell |-> bit_and(lhs, rhs)]])
    [] w = "OR"  -> binary_reduce(s, [lhs \in Cell |-> [rhs \in Cell |-> bit_or(lhs, rhs)]])
    [] w = "XOR" -> binary_reduce(s, [lhs \in Cell |-> [rhs \in Cell |-> bit_xor(lhs, rhs)]])
    [] w = "INVERT" -> unary_transform(s, [value \in Cell |-> -value - 1])

kernel_memory(w, s) ==
  CASE w = "!"  -> memory_store(s, CellBytes)
    [] w = "@"  -> memory_fetch(s, CellBytes)
    [] w = "+!" -> memory_update(s, [current \in Cell |-> [delta \in Cell |-> current + delta]])
    [] w = "-!" -> memory_update(s, [current \in Cell |-> [delta \in Cell |-> current - delta]])
    [] w = "C!" -> memory_store(s, 1)
    [] w = "C@" -> memory_fetch(s, 1)
    [] w = "C@C!" -> copy_byte_and_advance(s)
    [] w = "CMOVE" -> copy_block(s)

kernel_return(w, s) ==
  CASE w = ">R"    -> move_between_stacks(s, "to_return")
    [] w = "R>"    -> move_between_stacks(s, "to_data")
    [] w = "RSP@"  -> get_stack_pointer(s, "return")
    [] w = "RSP!"  -> set_stack_pointer(s, "return")
    [] w = "RDROP" -> drop_return(s)
    [] w = "DSP@"  -> get_stack_pointer(s, "data")
    [] w = "DSP!"  -> set_stack_pointer(s, "data")

KernelWord(w, s) ==
  CASE w \in StackWords -> kernel_stack(w, s)
    [] w \in ArithmeticWords -> kernel_arithmetic(w, s)
    [] w \in ComparisonWords -> kernel_comparison(w, s)
    [] w \in ZeroTests -> kernel_zero_test(w, s)
    [] w \in BitwiseWords -> kernel_bitwise(w, s)
    [] w \in MemoryWords -> kernel_memory(w, s)
    [] w \in ReturnWords -> kernel_return(w, s)

(***************************************************************************)
(* A scenario: one seeded machine, cloned, and the same words run on both  *)
(* clones.  An exception ends it.                                          *)
(***************************************************************************)
Seeded(values, returns) ==
  LET s == [MachineState EXCEPT !.memory = SeedMemory]
      data[k \in 0 .. Len(values)] ==
        IF k = 0 THEN s ELSE push_data(data[k - 1], values[k])
      ret[k \in 0 .. Len(returns)] ==
        IF k = 0 THEN data[Len(values)] ELSE push_return(ret[k - 1], returns[k])
  IN  ret[Len(returns)]

Init ==
  /\ \E values \in DataSeeds, returns \in ReturnSeeds : raw = Seeded(values, returns)
  /\ kernel = raw
  /\ word = "none"
  /\ count = 0

Execute(w) ==
  /\ Running(raw) /\ Running(kernel)
  /\ count < MaxWords
  /\ raw' = RawWord(w, raw)
  /\ kernel' = KernelWord(w, kernel)
  /\ word' = w
  /\ count' = count + 1

Next == \E w \in Words : Execute(w)

Spec == Init /\ [][Next]_vars

(***************************************************************************)
(* Properties.                                                             *)
(***************************************************************************)
\* Both machines are machines: pointers within their arrays, cells within a
\* cell, bytes within a byte, after any number of words and any exception.
TypeOK ==
  /\ raw \in Machine
  /\ kernel \in Machine
  /\ word \in Words \cup {"none"}
  /\ count \in 0 .. MaxWords

\* The raw and the kernelized words raise the same exception at the same word,
\* write the same memory, and until then leave the same pointers and the same
\* arrays, the popped cells that DSP! and RSP! can expose again included.
VariantsAgree ==
  /\ raw.err = kernel.err
  /\ raw.memory = kernel.memory
  /\ Running(raw) => raw = kernel

Items(stack, pointer) ==
  [i \in 1 .. StackSize - pointer |-> stack[StackSize - i]]

RawEffects == INSTANCE StackEffects WITH
  data <- Items(raw.data_stack, raw.dsp), returns <- Items(raw.return_stack, raw.rsp),
  memory <- raw.memory, status <- raw.err

KernelEffects == INSTANCE StackEffects WITH
  data <- Items(kernel.data_stack, kernel.dsp),
  returns <- Items(kernel.return_stack, kernel.rsp),
  memory <- kernel.memory, status <- kernel.err

\* Each word, raw and kernelized, has the stack effect its docstring states and
\* no other, fails only for lack of items, room, a divisor or valid memory, and
\* a failing word stores nothing.
WordsImplementEffects == RawEffects!Spec /\ KernelEffects!Spec

=============================================================================
