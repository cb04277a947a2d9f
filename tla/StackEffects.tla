----------------------------- MODULE StackEffects -----------------------------
(***************************************************************************)
(* What the words of the shared-stack-kernel lab promise: the stack effect *)
(* each docstring states, over stacks that are plain sequences, last item  *)
(* on top.  Nothing is said of arrays, pointers or the order of pushes.    *)
(***************************************************************************)
EXTENDS StackMachine, SequencesExt

VARIABLES
  data,      \* the data stack, top last
  returns,   \* the return stack, top last
  memory,    \* the bytes
  status,    \* "none", or the exception that ended the scenario
  word       \* the word executed last

effect == <<data, returns, memory, status>>

(***************************************************************************)
(* The effects, as operators on a data stack d, a return stack r and bytes *)
(* m.  The items a word takes are x, the top one, y below it, z and u.     *)
(***************************************************************************)
\* The cell whose bytes, least significant first, start at an address.
CellAt(m, address) ==
  CHOOSE v \in Cell : \A i \in 0 .. CellBytes - 1 :
    m[address + i] = (to_u32(v) \div 2 ^ (ByteBits * i)) % ByteMod

CellStored(m, address, v) ==
  [a \in DOMAIN m |->
     IF a \in address .. address + CellBytes - 1
     THEN (to_u32(v) \div 2 ^ (ByteBits * (a - address))) % ByteMod ELSE m[a]]

\* The quotient whose remainder is smaller than the divisor and has the
\* dividend's sign.
Quotient(y, x) ==
  CHOOSE q \in -CellMod .. CellMod :
    abs(y - q * x) < abs(x) /\ (y - q * x) * y >= 0

Takes(w) ==
  CASE w = "2SWAP" -> 4
    [] w \in {"ROT", "-ROT", "CMOVE"} -> 3
    [] w \in {"SWAP", "OVER", "2DROP", "2DUP", "+", "-", "*", "/MOD", "=", "<>", "<", ">",
              "<=", ">=", "AND", "OR", "XOR", "!", "+!", "-!", "C!", "C@C!"} -> 2
    [] w \in {"DROP", "DUP", "?DUP", "1+", "1-", "4+", "4-", "0=", "0<>", "0<", "0>", "0<=",
              "0>=", "INVERT", "@", "C@", ">R", "RSP!", "DSP!"} -> 1
    [] w \in {"R>", "RSP@", "RDROP", "DSP@"} -> 0

\* What the word leaves in place of what it takes, when it can.
Gives(w, d, r, m) ==
  LET x == d[Len(d)]
      y == d[Len(d) - 1]
      z == d[Len(d) - 2]
      u == d[Len(d) - 3]
  IN
  CASE w = "SWAP"  -> <<x, y>>
    [] w = "DUP"   -> <<x, x>>
    [] w = "OVER"  -> <<y, x, y>>
    [] w = "ROT"   -> <<y, x, z>>
    [] w = "-ROT"  -> <<x, z, y>>
    [] w = "2DUP"  -> <<y, x, y, x>>
    [] w = "2SWAP" -> <<y, x, u, z>>
    [] w = "?DUP"  -> IF x = 0 THEN <<x>> ELSE <<x, x>>
    [] w = "1+" -> <<to_cell(x + 1)>>
    [] w = "1-" -> <<to_cell(x - 1)>>
    [] w = "4+" -> <<to_cell(x + 4)>>
    [] w = "4-" -> <<to_cell(x - 4)>>
    [] w = "+"  -> <<to_cell(y + x)>>
    [] w = "-"  -> <<to_cell(y - x)>>
    [] w = "*"  -> <<to_cell(y * x)>>
    [] w = "/MOD" -> <<to_cell(y - Quotient(y, x) * x), to_cell(Quotient(y, x))>>
    [] w = "="  -> <<bool_cell(y = x)>>
    [] w = "<>" -> <<bool_cell(y # x)>>
    [] w = "<"  -> <<bool_cell(y < x)>>
    [] w = ">"  -> <<bool_cell(y > x)>>
    [] w = "<=" -> <<bool_cell(y <= x)>>
    [] w = ">=" -> <<bool_cell(y >= x)>>
    [] w = "0=" -> <<bool_cell(x = 0)>>
    [] w = "0<>" -> <<bool_cell(x # 0)>>
    [] w = "0<" -> <<bool_cell(x < 0)>>
    [] w = "0>" -> <<bool_cell(x > 0)>>
    [] w = "0<=" -> <<bool_cell(x <= 0)>>
    [] w = "0>=" -> <<bool_cell(x >= 0)>>
    [] w = "AND" -> <<to_cell(bit_and(y, x))>>
    [] w = "OR"  -> <<to_cell(bit_or(y, x))>>
    [] w = "XOR" -> <<to_cell(bit_xor(y, x))>>
    [] w = "INVERT" -> <<to_cell(-x - 1)>>
    [] w = "@"  -> <<CellAt(m, x)>>
    [] w = "C@" -> <<m[x]>>
    [] w = "C@C!" -> <<to_cell(y + 1), to_cell(x + 1)>>
    [] w = "R>" -> <<r[Len(r)]>>
    [] w = "RSP@" -> <<to_cell(StackSize - Len(r))>>
    [] w = "DSP@" -> <<to_cell(StackSize - Len(d))>>
    [] w \in {"DROP", "2DROP", "!", "+!", "-!", "C!", "CMOVE", ">R", "RSP!", "RDROP", "DSP!"} -> <<>>

\* The blocks of memory a word reads or writes, as <<address, length>>.
Blocks(w, d) ==
  LET x == d[Len(d)]
      y == d[Len(d) - 1]
      z == d[Len(d) - 2]
  IN  IF w \in {"!", "@", "+!", "-!"} THEN {<<x, CellBytes>>}
      ELSE IF w \in {"C!", "C@"} THEN {<<x, 1>>}
      ELSE IF w = "C@C!" THEN {<<y, 1>>, <<x, 1>>}
      ELSE IF w = "CMOVE" THEN {<<z, x>>, <<y, x>>}
      ELSE {}

Outside(block) == block[1] < 0 \/ block[2] < 0 \/ block[1] + block[2] > MemorySize

\* The exception a word raises, "none" if it has its effect.
Failure(w, d, r, m) ==
  LET x == d[Len(d)]
  IN  IF Len(d) < Takes(w) \/ (w \in {"R>", "RDROP"} /\ r = <<>>) THEN "StackUnderflow"
      ELSE IF \E block \in Blocks(w, d) : Outside(block) THEN "MemoryBoundsError"
      ELSE IF w = "/MOD" /\ x = 0 THEN "ZeroDivisionError"
      ELSE IF \/ w \in {"DSP!", "RSP!"} /\ x \notin 0 .. StackSize
              \/ w = ">R" /\ Len(r) = StackSize
              \/ Len(d) - Takes(w) + Len(Gives(w, d, r, m)) > StackSize
           THEN "StackOverflow"
      ELSE "none"

Stored(w, d, m) ==
  LET x == d[Len(d)]
      y == d[Len(d) - 1]
      z == d[Len(d) - 2]
  IN  IF w = "!" THEN CellStored(m, x, y)
      ELSE IF w = "+!" THEN CellStored(m, x, CellAt(m, x) + y)
      ELSE IF w = "-!" THEN CellStored(m, x, CellAt(m, x) - y)
      ELSE IF w = "C!" THEN [m EXCEPT ![x] = y % ByteMod]
      ELSE IF w = "C@C!" THEN [m EXCEPT ![x] = m[y]]
      ELSE IF w = "CMOVE"
           THEN [a \in DOMAIN m |-> IF a \in y .. y + x - 1 THEN m[z + a - y] ELSE m[a]]
      ELSE m

\* The first n items of s, and beyond them whatever the popped cells still hold.
Exposed(old, new, n) == Len(new) = n /\ \A i \in 1 .. n : i <= Len(old) => new[i] = old[i]

\* d, r and m become dd, rr and mm when the word w has its effect.
Becomes(w, d, r, m, dd, rr, mm) ==
  LET x == d[Len(d)]
  IN  /\ IF w = "DSP!" THEN Exposed(Front(d), dd, StackSize - x)
         ELSE dd = SubSeq(d, 1, Len(d) - Takes(w)) \o Gives(w, d, r, m)
      /\ IF w = ">R" THEN rr = Append(r, x)
         ELSE IF w \in {"R>", "RDROP"} THEN rr = Front(r)
         ELSE IF w = "RSP!" THEN Exposed(r, rr, StackSize - x)
         ELSE rr = r
      /\ mm = Stored(w, d, m)

\* A failing word may have popped, or pushed part of its result, but has stored
\* nothing and altered no item that was there.
Remains(d, r, m, dd, rr, mm) ==
  /\ IsPrefix(dd, d) \/ IsPrefix(d, dd)
  /\ IsPrefix(rr, r)
  /\ mm = m

Succeed(w) ==
  /\ status = "none"
  /\ Failure(w, data, returns, memory) = "none"
  /\ Becomes(w, data, returns, memory, data', returns', memory')
  /\ status' = "none"

Fail(w) ==
  /\ status = "none"
  /\ Failure(w, data, returns, memory) # "none"
  /\ Remains(data, returns, memory, data', returns', memory')
  /\ status' = Failure(w, data, returns, memory)

\* Seeds that overflow a stack end the scenario before any word runs.
Init == status \in {"none", "StackOverflow"} /\ word = "none"

Next == Succeed(word') \/ Fail(word')

Spec == Init /\ [][Next]_<<effect, word>>

=============================================================================
