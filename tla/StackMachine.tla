----------------------------- MODULE StackMachine -----------------------------
(***************************************************************************)
(* The machine the words of the shared-stack-kernel lab run on: two arrays *)
(* that hold downward-growing stacks, their pointers, and byte memory with *)
(* little-endian cells.  An operation takes a machine s and returns the    *)
(* machine it leaves; s.err names the exception raised, and nothing after  *)
(* it changes the machine any more, so operations compose as statements.   *)
(* The lab's cells have 4 bytes of 8 bits; the model checker's are small.  *)
(***************************************************************************)
EXTENDS Integers, Sequences, FiniteSetsExt

CONSTANTS
  StackSize,    \* DEFAULT_STACK_SIZE, 8, of either stack
  MemorySize,   \* DEFAULT_MEMORY_SIZE, 64 bytes
  CellBytes,    \* CELL_BYTES, 4
  ByteBits      \* 8

ASSUME MachineAssumption ==
  /\ StackSize \in Nat
  /\ MemorySize \in Nat
  /\ CellBytes \in Nat \ {0, 1}  \* a cell is not a byte: the kernels tell them apart by width
  /\ ByteBits \in Nat \ {0}

CellBits == CellBytes * ByteBits
CellMod == 2 ^ CellBits
ByteMod == 2 ^ ByteBits

Cell == -(CellMod \div 2) .. (CellMod \div 2) - 1

to_u32(value) == value % CellMod

to_cell(value) ==
  IF to_u32(value) < CellMod \div 2 THEN to_u32(value) ELSE to_u32(value) - CellMod

bool_cell(flag) == IF flag THEN 1 ELSE 0

\* Python's & | ^ on ints, as far as a cell keeps them.
BitsOf(value) == {i \in 0 .. CellBits - 1 : (value \div (2 ^ i)) % 2 = 1}
FromBits(bits) == MapThenSumSet(LAMBDA i : 2 ^ i, bits)
bit_and(x, y) == FromBits(BitsOf(x) \cap BitsOf(y))
bit_or(x, y) == FromBits(BitsOf(x) \cup BitsOf(y))
bit_xor(x, y) == FromBits((BitsOf(x) \cup BitsOf(y)) \ (BitsOf(x) \cap BitsOf(y)))

abs(x) == IF x < 0 THEN -x ELSE x

trunc_divmod_fault(dividend, divisor) ==
  LET quotient == dividend \div divisor
  IN  <<to_cell(dividend - quotient * divisor), to_cell(quotient)>>
\* Remainder and quotient of a division that rounds toward zero.
trunc_divmod(dividend, divisor) ==
  LET size == abs(dividend) \div abs(divisor)
      quotient == IF (dividend < 0) # (divisor < 0) THEN -size ELSE size
  IN  <<to_cell(dividend - quotient * divisor), to_cell(quotient)>>

(***************************************************************************)
(* Machines.                                                               *)
(***************************************************************************)
Errors == {"none", "StackUnderflow", "StackOverflow", "MemoryBoundsError",
           "ZeroDivisionError"}

Machine ==
  [dsp : 0 .. StackSize, rsp : 0 .. StackSize,
   data_stack : [0 .. StackSize - 1 -> Cell], return_stack : [0 .. StackSize - 1 -> Cell],
   memory : [0 .. MemorySize - 1 -> 0 .. ByteMod - 1], err : Errors]

MachineState ==
  [dsp |-> StackSize, rsp |-> StackSize,
   data_stack |-> [i \in 0 .. StackSize - 1 |-> 0],
   return_stack |-> [i \in 0 .. StackSize - 1 |-> 0],
   memory |-> [a \in 0 .. MemorySize - 1 |-> 0], err |-> "none"]

Running(s) == s.err = "none"

\* Raise error unless holds, in a machine that has not raised one already.
Require(s, holds, error) ==
  IF Running(s) /\ ~holds THEN [s EXCEPT !.err = error] ELSE s

push_data_fault(s, value) ==
  LET t == Require(s, s.dsp > 0, "StackOverflow")
  IN  IF ~Running(t) THEN t
      ELSE [t EXCEPT !.dsp = @ - 1, !.data_stack[t.dsp - 1] = value]
push_data(s, value) ==
  LET t == Require(s, s.dsp > 0, "StackOverflow")
  IN  IF ~Running(t) THEN t
      ELSE [t EXCEPT !.dsp = @ - 1, !.data_stack[t.dsp - 1] = to_cell(value)]

peekable(s, depth) == Require(s, s.dsp + depth < StackSize, "StackUnderflow")
peek_data(s, depth) == s.data_stack[s.dsp + depth]

pop_data(s) ==
  LET t == peekable(s, 0) IN IF ~Running(t) THEN t ELSE [t EXCEPT !.dsp = @ + 1]

\* A window is the top of the stack as a sequence, deepest item first.
windowed(s, width) == Require(s, s.dsp + width <= StackSize, "StackUnderflow")
data_window(s, width) == [i \in 1 .. width |-> s.data_stack[s.dsp + width - i]]

replace_data_window(s, width, values) ==
  LET t == windowed(s, width)
  IN  IF ~Running(t) THEN t
      ELSE [t EXCEPT !.data_stack =
              [i \in DOMAIN @ |-> IF i \in t.dsp .. t.dsp + width - 1
                                  THEN to_cell(values[width - (i - t.dsp)]) ELSE @[i]]]

set_dsp(s, pointer) ==
  LET t == Require(s, pointer \in 0 .. StackSize, "StackOverflow")
  IN  IF ~Running(t) THEN t ELSE [t EXCEPT !.dsp = pointer]

push_return(s, value) ==
  LET t == Require(s, s.rsp > 0, "StackOverflow")
  IN  IF ~Running(t) THEN t
      ELSE [t EXCEPT !.rsp = @ - 1, !.return_stack[t.rsp - 1] = to_cell(value)]

peek_return(s) == s.return_stack[s.rsp]

pop_return(s) ==
  LET t == Require(s, s.rsp < StackSize, "StackUnderflow")
  IN  IF ~Running(t) THEN t ELSE [t EXCEPT !.rsp = @ + 1]

set_rsp(s, pointer) ==
  LET t == Require(s, pointer \in 0 .. StackSize, "StackOverflow")
  IN  IF ~Running(t) THEN t ELSE [t EXCEPT !.rsp = pointer]

(***************************************************************************)
(* Memory.                                                                 *)
(***************************************************************************)
check_memory(s, address, length) ==
  Require(s, address >= 0 /\ length >= 0 /\ address + length <= MemorySize,
          "MemoryBoundsError")

ByteOf(value, i) == (to_u32(value) \div (2 ^ (ByteBits * i))) % ByteMod

read_cell(s, address) ==
  to_cell(MapThenSumSet(LAMBDA i : s.memory[address + i] * 2 ^ (ByteBits * i),
                        0 .. CellBytes - 1))

write_cell(s, address, value) ==
  LET t == check_memory(s, address, CellBytes)
  IN  IF ~Running(t) THEN t
      ELSE [t EXCEPT !.memory =
              [a \in DOMAIN @ |-> IF a \in address .. address + CellBytes - 1
                                  THEN ByteOf(value, a - address) ELSE @[a]]]

read_byte(s, address) == s.memory[address]

write_byte(s, address, value) ==
  LET t == check_memory(s, address, 1)
  IN  IF ~Running(t) THEN t ELSE [t EXCEPT !.memory[address] = ByteOf(value, 0)]

copy_byte(s, src, dst) == write_byte(check_memory(s, src, 1), dst, read_byte(s, src))

\* The slice is read before it is written, so overlapping blocks move intact.
copy_bytes(s, src, dst, length) ==
  LET t == check_memory(check_memory(s, src, length), dst, length)
  IN  IF ~Running(t) THEN t
      ELSE [t EXCEPT !.memory = [a \in DOMAIN @ |-> IF a \in dst .. dst + length - 1
                                                    THEN @[a - dst + src] ELSE @[a]]]

=============================================================================
