-------------------------- MODULE StackKernels_proofs --------------------------
(***************************************************************************)
(* The raw and the kernelized words of the shared-stack-kernel lab agree   *)
(* and leave machines, for every size of the stacks, the memory, the byte  *)
(* and the cell, and whatever a scenario seeds.  From one machine a word   *)
(* and its kernel leave the same machine, with one exception: SWAP, which  *)
(* pops and pushes where its kernel rewrites a window, has moved the       *)
(* pointer when it underflows.  Hence the invariant: agreement until an    *)
(* exception, and the same exception and memory from then on.  Each word   *)
(* has the effect its docstring states, and so has its kernel: the side-   *)
(* by-side run implements StackEffects twice.                              *)
(***************************************************************************)
EXTENDS StackKernels, SetInduction, TLAPS

USE MachineAssumption

\* A cell's values: the two's complement numbers of its bits.
LEMMA CellFacts ==
  \E h \in Nat \ {0} :
    /\ CellMod = 2 * h /\ CellMod \div 2 = h
    /\ CellMod \in Nat \ {0} /\ Cell = -h .. h - 1
<1>1. PICK n \in Nat : CellBits = n + 1
  <2>1. CellBytes * ByteBits \in Nat \ {0}
    OBVIOUS
  <2>2. PICK b \in Nat \ {0} : CellBits = b
    BY <2>1 DEF CellBits
  <2> WITNESS b - 1 \in Nat
  <2> QED BY <2>2
<1>2. PICK h \in Nat \ {0} : CellMod = 2 * h
  BY <1>1, PowerOfTwo DEF CellMod
<1>3. CellMod \div 2 = h
  BY <1>2
<1> QED BY <1>2, <1>3 DEF Cell

\* to_cell takes any number to a cell with the same bits, and leaves cells alone.
LEMMA ToCell ==
  /\ \A v \in Int : to_cell(v) \in Cell /\ to_u32(to_cell(v)) = to_u32(v)
  /\ \A c \in Cell : to_cell(c) = c
  /\ Cell \subseteq Int
<1>1. PICK h \in Nat \ {0} :
        /\ CellMod = 2 * h /\ CellMod \div 2 = h
        /\ CellMod \in Nat \ {0} /\ Cell = -h .. h - 1
  BY CellFacts
<1>2. \A r \in 0 .. CellMod - 1 : r % CellMod = r /\ (r - CellMod) % CellMod = r
  <2> SUFFICES ASSUME NEW r \in 0 .. CellMod - 1
               PROVE  r % CellMod = r /\ (r - CellMod) % CellMod = r
    OBVIOUS
  <2>1. (CellMod * 0 + r) % CellMod = r /\ (CellMod * (-1) + r) % CellMod = r
    BY <1>1, RemainderUnique, 0 \in Int, -1 \in Int
  <2>2. CellMod * 0 + r = r /\ CellMod * (-1) + r = r - CellMod
    BY <1>1
  <2> QED BY <2>1, <2>2
<1>3. ASSUME NEW v \in Int
      PROVE  to_cell(v) \in Cell /\ to_u32(to_cell(v)) = to_u32(v)
  <2>1. v % CellMod \in 0 .. CellMod - 1
    BY <1>1
  <2>2. PICK r \in 0 .. CellMod - 1 : r = v % CellMod
    BY <2>1
  <2>3. to_cell(v) = IF r < h THEN r ELSE r - CellMod
    BY <1>1, <2>2 DEF to_cell, to_u32
  <2>4. to_cell(v) \in Cell
    BY <1>1, <2>3
  <2>5. to_cell(v) % CellMod = r
    BY <1>2, <2>3
  <2> QED BY <2>2, <2>4, <2>5 DEF to_u32
<1>4. ASSUME NEW c \in Cell
      PROVE  to_cell(c) = c
  <2>1. CASE c >= 0
    <3>1. c \in 0 .. CellMod - 1 /\ c < h
      BY <1>1, <2>1
    <3>2. c % CellMod = c
      BY <1>2, <3>1
    <3> QED BY <1>1, <3>1, <3>2 DEF to_cell, to_u32
  <2>2. CASE c < 0
    <3>1. c + CellMod \in 0 .. CellMod - 1 /\ c = (c + CellMod) - CellMod
      BY <1>1, <2>2
    <3>2. c % CellMod = c + CellMod
      BY <1>2, <3>1
    <3> QED BY <1>1, <2>2, <3>2 DEF to_cell, to_u32
  <2> QED BY <1>1, <2>1, <2>2
<1> QED BY <1>1, <1>3, <1>4

\* Any part of a number kept in a byte is a byte.
LEMMA ByteType ==
  ASSUME NEW v \in Int, NEW i \in Nat
  PROVE  ByteOf(v, i) \in 0 .. ByteMod - 1
<1>1. 2 ^ (ByteBits * i) \in Nat \ {0} /\ ByteMod \in Nat \ {0}
  BY PowerOfTwo, ByteBits * i \in Nat DEF ByteMod
<1>2. to_u32(v) \in Int
  BY CellFacts DEF to_u32
<1>3. to_u32(v) \div (2 ^ (ByteBits * i)) \in Int
  BY <1>1, <1>2
<1> HIDE DEF to_u32
<1> QED BY <1>1, <1>3 DEF ByteOf

\* The octets of two numbers that are the same cell are the same.
LEMMA ByteOfCell ==
  ASSUME NEW v \in Int, NEW i
  PROVE  ByteOf(to_cell(v), i) = ByteOf(v, i)
BY ToCell DEF ByteOf

\* h is the function that a sum of f over S is computed by (MapThenSumSet).
Sums(h, f, S) ==
  h = [s \in SUBSET S |-> IF s = {} THEN 0
                          ELSE f[CHOOSE x \in s : TRUE] + h[s \ {CHOOSE x \in s : TRUE}]]

\* The function that a sum over a finite set is computed by takes every subset
\* to a number (MapThenSumSet).
LEMMA SumType ==
  ASSUME NEW S, IsFiniteSet(S), NEW f \in [S -> Int], NEW g, Sums(g, f, S)
  PROVE  g[S] \in Int
<1> DEFINE N == {k \in Nat : \A s \in SUBSET S : Cardinality(s) = k => g[s] \in Int}
<1>1. \A s \in SUBSET S : g[s] = IF s = {} THEN 0
                                 ELSE f[CHOOSE x \in s : TRUE]
                                        + g[s \ {CHOOSE x \in s : TRUE}]
  BY DEF Sums
<1>2. \A s \in SUBSET S : IsFiniteSet(s) /\ Cardinality(s) \in Nat
  BY FS_Subset, FS_CardinalityType
<1>3. 0 \in N
  <2> SUFFICES ASSUME NEW s \in SUBSET S, Cardinality(s) = 0 PROVE g[s] \in Int
    OBVIOUS
  <2>1. s = {}
    BY <1>2, FS_EmptySet
  <2>2. g[s] = 0
    BY <1>1, <2>1
  <2> QED BY <2>2
<1>4. ASSUME NEW n \in Nat, n \in N PROVE n + 1 \in N
  <2>1. ASSUME NEW s \in SUBSET S, Cardinality(s) = n + 1 PROVE g[s] \in Int
    <3>1. s # {}
      <4>1. Cardinality(s) # 0
        BY <2>1
      <4> QED BY <4>1, FS_EmptySet
    <3>2. PICK x \in s : x = CHOOSE y \in s : TRUE
      BY <3>1
    <3>3. Cardinality(s \ {x}) = n
      <4>1. IsFiniteSet(s)
        BY <1>2
      <4>2. Cardinality(s \ {x}) = Cardinality(s) - 1
        BY <4>1, FS_RemoveElement
      <4> QED BY <2>1, <4>2
    <3>4. g[s \ {x}] \in Int
      <4>1. s \ {x} \in SUBSET S
        OBVIOUS
      <4> QED BY <1>4, <3>3, <4>1
    <3>5. g[s] = f[x] + g[s \ {x}]
      BY <1>1, <3>1, <3>2
    <3> HIDE <1>1
    <3> QED BY <3>4, <3>5
  <2>2. n + 1 \in Nat
    OBVIOUS
  <2> QED BY <2>1, <2>2, Zenon
<1> HIDE DEF N
<1>5. Nat \subseteq N
  BY <1>3, <1>4, NatSetInduction
<1>6. Cardinality(S) \in N /\ S \in SUBSET S
  BY <1>2, <1>5
<1> QED BY <1>6 DEF N

\* There is such a function.
LEMMA SumExists ==
  ASSUME NEW S, IsFiniteSet(S), NEW f \in [S -> Int]
  PROVE  \E g : Sums(g, f, S)
<1> DEFINE T(k) == {s \in SUBSET S : Cardinality(s) <= k}
           Upto(h, k) == h = [s \in T(k) |-> IF s = {} THEN 0
                                             ELSE f[CHOOSE x \in s : TRUE]
                                                    + h[s \ {CHOOSE x \in s : TRUE}]]
           N == {k \in Nat : \E h : Upto(h, k)}
<1>1. \A s \in SUBSET S : IsFiniteSet(s) /\ Cardinality(s) \in Nat
  BY FS_Subset, FS_CardinalityType
<1>2. \A s \in T(0) : s = {}
  <2> SUFFICES ASSUME NEW s \in T(0) PROVE s = {}
    OBVIOUS
  <2>1. Cardinality(s) = 0
    BY <1>1
  <2> QED BY <1>1, <2>1, FS_EmptySet
<1>3. 0 \in N
  <2> DEFINE h == [s \in T(0) |-> 0]
  <2>1. h = [s \in T(0) |-> IF s = {} THEN 0
                            ELSE f[CHOOSE x \in s : TRUE]
                                   + h[s \ {CHOOSE x \in s : TRUE}]]
    <3> HIDE DEF T
    <3> QED BY <1>2
  <2>2. Upto(h, 0)
    BY <2>1, Zenon
  <2> HIDE DEF Upto, h
  <2> QED BY <2>2
<1>4. ASSUME NEW n \in Nat, n \in N PROVE n + 1 \in N
  <2>1. PICK h : Upto(h, n)
    BY <1>4
  <2> DEFINE v(s) == IF s = {} THEN 0 ELSE f[CHOOSE x \in s : TRUE]
                                             + h[s \ {CHOOSE x \in s : TRUE}]
             g == [s \in T(n + 1) |-> v(s)]
  <2>2. \A s \in T(n) : s \in T(n + 1) /\ h[s] = v(s)
    <3>1. \A s \in T(n) : s \in T(n + 1)
      BY <1>1
    <3>2. \A s \in T(n) : h[s] = v(s)
      <4> HIDE DEF T
      <4> QED BY <2>1
    <3> QED BY <3>1, <3>2, Zenon
  <2>3. \A s \in T(n) : g[s] = h[s]
    <3> HIDE DEF T, v
    <3> QED BY <2>2
  <2>4. \A s \in T(n + 1) : s # {} => s \ {CHOOSE x \in s : TRUE} \in T(n)
    <3> SUFFICES ASSUME NEW s \in T(n + 1), s # {}
                 PROVE  s \ {CHOOSE x \in s : TRUE} \in T(n)
      OBVIOUS
    <3>1. PICK x \in s : x = CHOOSE y \in s : TRUE
      OBVIOUS
    <3>2. Cardinality(s \ {x}) = Cardinality(s) - 1
      BY <1>1, FS_RemoveElement
    <3>3. Cardinality(s) \in Nat /\ Cardinality(s) <= n + 1
      BY <1>1
    <3>4. s \ {x} \in SUBSET S /\ Cardinality(s \ {x}) <= n
      BY <3>2, <3>3
    <3> QED BY <3>1, <3>4
  <2>5. \A s \in T(n + 1) : v(s) = IF s = {} THEN 0
                                   ELSE f[CHOOSE x \in s : TRUE]
                                          + g[s \ {CHOOSE x \in s : TRUE}]
    <3> HIDE DEF T, g
    <3> QED BY <2>3, <2>4
  <2>6. Upto(g, n + 1)
    <3>1. g = [s \in T(n + 1) |-> IF s = {} THEN 0
                                  ELSE f[CHOOSE x \in s : TRUE]
                                         + g[s \ {CHOOSE x \in s : TRUE}]]
      <4>1. g = [s \in T(n + 1) |-> v(s)]
        OBVIOUS
      <4> HIDE DEF T, g, v
      <4> QED BY <2>5, <4>1
    <3> QED BY <3>1, Zenon
  <2>7. n + 1 \in Nat
    OBVIOUS
  <2> HIDE DEF Upto, g
  <2> QED BY <2>6, <2>7
<1> HIDE DEF N
<1>5. Nat \subseteq N
  BY <1>3, <1>4, NatSetInduction
<1>6. Cardinality(S) \in N /\ S \in SUBSET S
  BY <1>1, <1>5
<1>7. PICK h : Upto(h, Cardinality(S))
  BY <1>6 DEF N
<1>8. T(Cardinality(S)) = SUBSET S
  BY FS_Subset
<1> HIDE DEF T
<1>9. Sums(h, f, S)
  BY <1>7, <1>8 DEF Sums
<1> QED BY <1>9

\* A number put together from bits is a number.
LEMMA BitsType ==
  ASSUME NEW bits, bits \subseteq 0 .. CellBits - 1
  PROVE  FromBits(bits) \in Int
<1> DEFINE f == [i \in bits |-> 2 ^ i]
           Sum(g) == g = [s \in SUBSET bits |->
                            IF s = {} THEN 0
                            ELSE 2 ^ (CHOOSE x \in s : TRUE) + g[s \ {CHOOSE x \in s : TRUE}]]
<1>1. IsFiniteSet(bits) /\ f \in [bits -> Int]
  <2>1. CellBits \in Int
    BY DEF CellBits
  <2>2. IsFiniteSet(0 .. CellBits - 1)
    BY <2>1, FS_Interval
  <2>3. \A i \in bits : i \in Nat
    BY <2>1
  <2>4. \A i \in bits : 2 ^ i \in Int
    BY <2>3, PowerOfTwo
  <2> QED BY <2>2, <2>4, FS_Subset
<1>2. \A s \in SUBSET bits : s # {} => f[CHOOSE x \in s : TRUE] = 2 ^ (CHOOSE x \in s : TRUE)
  OBVIOUS
<1>3. \A g : Sum(g) <=> Sums(g, f, bits)
  <2> SUFFICES ASSUME NEW g PROVE Sum(g) <=> Sums(g, f, bits)
    OBVIOUS
  <2> DEFINE a(s) == IF s = {} THEN 0
                     ELSE 2 ^ (CHOOSE x \in s : TRUE) + g[s \ {CHOOSE x \in s : TRUE}]
             b(s) == IF s = {} THEN 0
                     ELSE f[CHOOSE x \in s : TRUE] + g[s \ {CHOOSE x \in s : TRUE}]
  <2>1. \A s \in SUBSET bits : a(s) = b(s)
    <3> HIDE DEF f
    <3> QED BY <1>2
  <2>2. Sum(g) <=> g = [s \in SUBSET bits |-> a(s)]
    OBVIOUS
  <2>3. Sums(g, f, bits) <=> g = [s \in SUBSET bits |-> b(s)]
    BY DEF Sums
  <2> HIDE DEF a, b
  <2> QED BY <2>1, <2>2, <2>3
<1>4. \E g : Sum(g)
  <2> HIDE DEF f, Sum
  <2>1. \E g : Sums(g, f, bits)
    BY <1>1, SumExists
  <2> QED BY <1>3, <2>1
<1>5. Sum(CHOOSE g : Sum(g))
  <2> HIDE DEF Sum
  <2> QED BY <1>4
<1>6. (CHOOSE g : Sum(g))[bits] \in Int
  <2> HIDE DEF f, Sum
  <2> QED BY <1>1, <1>3, <1>5, SumType
<1> QED BY <1>6, Zenon DEF FromBits, MapThenSumSet, MapThenFoldSet

\* The value of a one in byte i.
Place(i) == 2 ^ (ByteBits * i)

\* What is read from the bytes of a cell sums them in their places (read_cell).
LEMMA ReadCellSum ==
  ASSUME NEW s, s.memory \in [0 .. MemorySize - 1 -> 0 .. ByteMod - 1],
         NEW address \in Nat, address + CellBytes <= MemorySize
  PROVE  \E g, f : /\ f = [i \in 0 .. CellBytes - 1 |-> s.memory[address + i] * Place(i)]
                   /\ f \in [0 .. CellBytes - 1 -> Int] /\ Sums(g, f, 0 .. CellBytes - 1)
                   /\ read_cell(s, address) = to_cell(g[0 .. CellBytes - 1])
<1> DEFINE Octets == 0 .. CellBytes - 1
           f == [i \in Octets |-> s.memory[address + i] * 2 ^ (ByteBits * i)]
           Sum(g) == g = [t \in SUBSET Octets |->
                            IF t = {} THEN 0
                            ELSE s.memory[address + (CHOOSE x \in t : TRUE)]
                                   * 2 ^ (ByteBits * (CHOOSE x \in t : TRUE))
                                   + g[t \ {CHOOSE x \in t : TRUE}]]
<1>1. IsFiniteSet(Octets) /\ f \in [Octets -> Int]
  <2>1. IsFiniteSet(Octets)
    BY FS_Interval
  <2>2. ASSUME NEW i \in Octets PROVE s.memory[address + i] * 2 ^ (ByteBits * i) \in Int
    <3>1. address + i \in 0 .. MemorySize - 1
      OBVIOUS
    <3>2. s.memory[address + i] \in 0 .. ByteMod - 1
      BY <3>1
    <3>3. ByteMod \in Int
      BY PowerOfTwo DEF ByteMod
    <3>4. s.memory[address + i] \in Int
      BY <3>2, <3>3
    <3>5. ByteBits * i \in Nat
      OBVIOUS
    <3>6. 2 ^ (ByteBits * i) \in Int
      BY <3>5, PowerOfTwo
    <3> QED BY <3>4, <3>6
  <2> QED BY <2>1, <2>2
<1>2. \A t \in SUBSET Octets : t # {} =>
        f[CHOOSE x \in t : TRUE] = s.memory[address + (CHOOSE x \in t : TRUE)]
                                     * 2 ^ (ByteBits * (CHOOSE x \in t : TRUE))
  <2>1. \A t \in SUBSET Octets : t # {} => (CHOOSE x \in t : TRUE) \in Octets
    OBVIOUS
  <2> HIDE DEF Octets
  <2> QED BY <2>1
<1> HIDE DEF Octets
<1>3. \A g : Sum(g) <=> Sums(g, f, Octets)
  <2> SUFFICES ASSUME NEW g PROVE Sum(g) <=> Sums(g, f, Octets)
    OBVIOUS
  <2> DEFINE a(t) == IF t = {} THEN 0
                     ELSE s.memory[address + (CHOOSE x \in t : TRUE)]
                            * 2 ^ (ByteBits * (CHOOSE x \in t : TRUE))
                            + g[t \ {CHOOSE x \in t : TRUE}]
             b(t) == IF t = {} THEN 0
                     ELSE f[CHOOSE x \in t : TRUE] + g[t \ {CHOOSE x \in t : TRUE}]
  <2>1. \A t \in SUBSET Octets : a(t) = b(t)
    <3> HIDE DEF f
    <3> QED BY <1>2
  <2>2. Sum(g) <=> g = [t \in SUBSET Octets |-> a(t)]
    OBVIOUS
  <2>3. Sums(g, f, Octets) <=> g = [t \in SUBSET Octets |-> b(t)]
    BY DEF Sums
  <2> HIDE DEF a, b, Sum
  <2> QED BY <2>1, <2>2, <2>3
<1>4. \E g : Sum(g)
  <2> HIDE DEF f, Sum
  <2>1. \E g : Sums(g, f, Octets)
    BY <1>1, SumExists
  <2> QED BY <1>3, <2>1
<1>5. Sum(CHOOSE g : Sum(g))
  <2> HIDE DEF Sum
  <2> QED BY <1>4
<1>6. Sums(CHOOSE g : Sum(g), f, Octets)
  <2> HIDE DEF f, Sum
  <2> QED BY <1>3, <1>5
<1>7. read_cell(s, address) = to_cell((CHOOSE g : Sum(g))[Octets])
  BY Zenon DEF read_cell, MapThenSumSet, MapThenFoldSet, Octets
<1>8. f = [i \in 0 .. CellBytes - 1 |-> s.memory[address + i] * Place(i)]
  BY Zenon DEF Place, Octets
<1> HIDE DEF f, Sum
<1> QED BY <1>1, <1>6, <1>7, <1>8 DEF Octets

\* It is a cell.
LEMMA ReadCellType ==
  ASSUME NEW s, s.memory \in [0 .. MemorySize - 1 -> 0 .. ByteMod - 1],
         NEW address \in Nat, address + CellBytes <= MemorySize
  PROVE  read_cell(s, address) \in Cell
<1>1. PICK g, f : /\ f \in [0 .. CellBytes - 1 -> Int] /\ Sums(g, f, 0 .. CellBytes - 1)
                  /\ read_cell(s, address) = to_cell(g[0 .. CellBytes - 1])
  BY ReadCellSum
<1>2. IsFiniteSet(0 .. CellBytes - 1)
  BY FS_Interval
<1>3. g[0 .. CellBytes - 1] \in Int
  BY <1>1, <1>2, SumType
<1> QED BY <1>1, <1>3, ToCell

\* The fields of a machine.
LEMMA MachineFields ==
  ASSUME NEW s \in Machine
  PROVE  /\ s.dsp \in 0 .. StackSize /\ s.rsp \in 0 .. StackSize
         /\ s.data_stack \in [0 .. StackSize - 1 -> Cell]
         /\ s.return_stack \in [0 .. StackSize - 1 -> Cell]
         /\ s.memory \in [0 .. MemorySize - 1 -> 0 .. ByteMod - 1]
         /\ s.err \in Errors
BY DEF Machine

\* A machine with a field replaced by another of its type is a machine.
LEMMA DspReplaced ==
  ASSUME NEW s \in Machine, NEW p \in 0 .. StackSize
  PROVE  [s EXCEPT !.dsp = p] \in Machine
BY DEF Machine

\* The same of the other fields.
LEMMA RspReplaced ==
  ASSUME NEW s \in Machine, NEW p \in 0 .. StackSize
  PROVE  [s EXCEPT !.rsp = p] \in Machine
BY DEF Machine

\* Likewise of the array of the data stack.
LEMMA StackReplaced ==
  ASSUME NEW s \in Machine, NEW d \in [0 .. StackSize - 1 -> Cell]
  PROVE  [s EXCEPT !.data_stack = d] \in Machine
BY DEF Machine

\* Likewise of the array of the return stack.
LEMMA ReturnStackReplaced ==
  ASSUME NEW s \in Machine, NEW d \in [0 .. StackSize - 1 -> Cell]
  PROVE  [s EXCEPT !.return_stack = d] \in Machine
BY DEF Machine

\* Likewise of the memory.
LEMMA MemoryReplaced ==
  ASSUME NEW s \in Machine, NEW m \in [0 .. MemorySize - 1 -> 0 .. ByteMod - 1]
  PROVE  [s EXCEPT !.memory = m] \in Machine
BY DEF Machine

\* An exception ends what a machine does, and changes nothing else.
LEMMA ErrorRaised ==
  ASSUME NEW s \in Machine, NEW e \in Errors
  PROVE  [s EXCEPT !.err = e] \in Machine /\ (e # "none" => ~Running([s EXCEPT !.err = e]))
BY DEF Machine, Running

\* Pushing, popping and moving pointers leave a machine.
LEMMA PushType ==
  ASSUME NEW s \in Machine, NEW value, Running(s) /\ s.dsp > 0 => value \in Int
  PROVE  push_data(s, value) \in Machine
<1> DEFINE t == Require(s, s.dsp > 0, "StackOverflow")
<1>1. t \in Machine /\ (Running(t) <=> Running(s) /\ s.dsp > 0) /\ (Running(t) => t = s)
  BY ErrorRaised DEF Require, Errors
<1>2. CASE ~Running(t)
  BY <1>1, <1>2 DEF push_data
<1>3. CASE Running(t)
  <2>1. PICK c \in Cell : c = to_cell(value)
    BY <1>1, <1>3, ToCell
  <2>2. PICK p \in 0 .. StackSize : p = s.dsp - 1
    BY <1>1, <1>3, MachineFields
  <2>3. PICK stack \in [0 .. StackSize - 1 -> Cell] : stack = [s.data_stack EXCEPT ![p] = c]
    BY MachineFields
  <2>4. PICK u \in Machine : u = [s EXCEPT !.dsp = p]
    BY DspReplaced
  <2>5. push_data(s, value) = [u EXCEPT !.data_stack = stack]
    BY <1>1, <1>3, <2>1, <2>2, <2>3, <2>4 DEF push_data
  <2> QED BY <2>5, StackReplaced
<1> QED BY <1>2, <1>3

\* The same of the return stack.
LEMMA PushReturnType ==
  ASSUME NEW s \in Machine, NEW value, Running(s) /\ s.rsp > 0 => value \in Int
  PROVE  push_return(s, value) \in Machine
<1> DEFINE t == Require(s, s.rsp > 0, "StackOverflow")
<1>1. t \in Machine /\ (Running(t) <=> Running(s) /\ s.rsp > 0) /\ (Running(t) => t = s)
  BY ErrorRaised DEF Require, Errors
<1>2. CASE ~Running(t)
  BY <1>1, <1>2 DEF push_return
<1>3. CASE Running(t)
  <2>1. PICK c \in Cell : c = to_cell(value)
    BY <1>1, <1>3, ToCell
  <2>2. PICK p \in 0 .. StackSize : p = s.rsp - 1
    BY <1>1, <1>3, MachineFields
  <2>3. PICK stack \in [0 .. StackSize - 1 -> Cell] : stack = [s.return_stack EXCEPT ![p] = c]
    BY MachineFields
  <2>4. PICK u \in Machine : u = [s EXCEPT !.rsp = p]
    BY RspReplaced
  <2>5. push_return(s, value) = [u EXCEPT !.return_stack = stack]
    BY <1>1, <1>3, <2>1, <2>2, <2>3, <2>4 DEF push_return
  <2> QED BY <2>5, ReturnStackReplaced
<1> QED BY <1>2, <1>3

\* A pop succeeds where there is an item, and then only moves the pointer (pop_data).
LEMMA PopFacts ==
  ASSUME NEW s \in Machine
  PROVE  /\ pop_data(s) \in Machine
         /\ Running(pop_data(s)) <=> Running(s) /\ s.dsp < StackSize
         /\ Running(pop_data(s)) => pop_data(s) = [s EXCEPT !.dsp = @ + 1]
<1> DEFINE t == peekable(s, 0)
<1>1. t \in Machine /\ (Running(t) <=> Running(s) /\ s.dsp < StackSize) /\ (Running(t) => t = s)
  <2>1. s.dsp + 0 = s.dsp
    BY DEF Machine
  <2> QED BY <2>1, ErrorRaised DEF Require, Errors, peekable
<1>2. CASE ~Running(t)
  BY <1>1, <1>2 DEF pop_data
<1>3. CASE Running(t)
  <2>1. PICK p \in 0 .. StackSize : p = s.dsp + 1
    BY <1>1, <1>3, MachineFields
  <2>2. pop_data(s) = [s EXCEPT !.dsp = p]
    BY <1>1, <1>3, <2>1 DEF pop_data
  <2>3. [s EXCEPT !.dsp = p].err = s.err
    BY DEF Machine
  <2>4. Running(pop_data(s))
    BY <1>1, <1>3, <2>2, <2>3 DEF Running
  <2>5. pop_data(s) \in Machine
    BY <2>2, DspReplaced
  <2> QED BY <1>1, <1>3, <2>1, <2>2, <2>4, <2>5
<1> QED BY <1>2, <1>3

\* A pop of the return stack succeeds where it has an item (pop_return).
LEMMA PopReturnType ==
  ASSUME NEW s \in Machine
  PROVE  /\ pop_return(s) \in Machine
         /\ Running(pop_return(s)) <=> Running(s) /\ s.rsp < StackSize
<1> DEFINE t == Require(s, s.rsp < StackSize, "StackUnderflow")
<1>1. t \in Machine /\ (Running(t) <=> Running(s) /\ s.rsp < StackSize) /\ (Running(t) => t = s)
  BY ErrorRaised DEF Require, Errors
<1>2. CASE ~Running(t)
  BY <1>1, <1>2 DEF pop_return
<1>3. CASE Running(t)
  <2>1. PICK p \in 0 .. StackSize : p = s.rsp + 1
    BY <1>1, <1>3, MachineFields
  <2>2. pop_return(s) = [s EXCEPT !.rsp = p]
    BY <1>1, <1>3, <2>1 DEF pop_return
  <2>3. [s EXCEPT !.rsp = p].err = s.err
    BY DEF Machine
  <2>4. Running(pop_return(s))
    BY <1>1, <1>3, <2>2, <2>3 DEF Running
  <2>5. pop_return(s) \in Machine
    BY <2>2, RspReplaced
  <2> QED BY <1>1, <1>3, <2>1, <2>2, <2>4, <2>5
<1> QED BY <1>2, <1>3

\* A pointer is set only to where a pointer may be (set_dsp, set_rsp).
LEMMA PointerTypes ==
  ASSUME NEW s \in Machine, NEW pointer
  PROVE  set_dsp(s, pointer) \in Machine /\ set_rsp(s, pointer) \in Machine
<1> DEFINE t == Require(s, pointer \in 0 .. StackSize, "StackOverflow")
<1>1. t \in Machine /\ (Running(t) <=> Running(s) /\ pointer \in 0 .. StackSize) /\ (Running(t) => t = s)
  BY ErrorRaised DEF Require, Errors
<1>2. CASE ~Running(t)
  BY <1>1, <1>2 DEF set_dsp, set_rsp
<1>3. CASE Running(t)
  <2>1. /\ set_dsp(s, pointer) = [s EXCEPT !.dsp = pointer]
        /\ set_rsp(s, pointer) = [s EXCEPT !.rsp = pointer]
    BY <1>1, <1>3 DEF set_dsp, set_rsp
  <2> QED BY <1>1, <1>3, <2>1, DspReplaced, RspReplaced
<1> QED BY <1>2, <1>3

\* Memory is checked before it is written, and is written with bytes.
LEMMA CheckFacts ==
  ASSUME NEW s \in Machine, NEW address \in Int, NEW length \in Int
  PROVE  /\ check_memory(s, address, length) \in Machine
         /\ Running(check_memory(s, address, length)) <=>
              Running(s) /\ address >= 0 /\ length >= 0 /\ address + length <= MemorySize
         /\ Running(check_memory(s, address, length)) => check_memory(s, address, length) = s
BY ErrorRaised DEF Require, Errors, check_memory

\* A cell is written as bytes (write_cell).
LEMMA WriteCellType ==
  ASSUME NEW s \in Machine, NEW address \in Int, NEW value,
         Running(check_memory(s, address, CellBytes)) => value \in Int
  PROVE  write_cell(s, address, value) \in Machine
<1> DEFINE t == check_memory(s, address, CellBytes)
<1>1. t \in Machine /\ (Running(t) => t = s /\ address >= 0 /\ address + CellBytes <= MemorySize)
  BY CheckFacts
<1>2. CASE ~Running(t)
  BY <1>1, <1>2 DEF write_cell
<1>3. CASE Running(t)
  <2> DEFINE m == [a \in 0 .. MemorySize - 1 |-> IF a \in address .. address + CellBytes - 1
                                                 THEN ByteOf(value, a - address) ELSE s.memory[a]]
  <2>1. m \in [0 .. MemorySize - 1 -> 0 .. ByteMod - 1]
    <3>1. \A a \in address .. address + CellBytes - 1 : ByteOf(value, a - address) \in 0 .. ByteMod - 1
      <4>1. \A a \in address .. address + CellBytes - 1 : a - address \in Nat
        OBVIOUS
      <4> QED BY <1>3, <4>1, ByteType
    <3>2. s.memory \in [0 .. MemorySize - 1 -> 0 .. ByteMod - 1]
      BY DEF Machine
    <3> QED BY <3>1, <3>2
  <2>2. write_cell(s, address, value) = [s EXCEPT !.memory = m]
    <3>1. DOMAIN s.memory = 0 .. MemorySize - 1
      BY DEF Machine
    <3> QED BY <1>1, <1>3, <3>1 DEF write_cell
  <2> HIDE DEF m
  <2> QED BY <2>1, <2>2, MemoryReplaced
<1> QED BY <1>2, <1>3

\* A byte is written as a byte (write_byte).
LEMMA WriteByteType ==
  ASSUME NEW s \in Machine, NEW address \in Int, NEW value,
         Running(check_memory(s, address, 1)) => value \in Int
  PROVE  write_byte(s, address, value) \in Machine
<1> DEFINE t == check_memory(s, address, 1)
<1>1. t \in Machine /\ (Running(t) => t = s /\ address >= 0 /\ address + 1 <= MemorySize)
  BY CheckFacts
<1>2. CASE ~Running(t)
  BY <1>1, <1>2 DEF write_byte
<1>3. CASE Running(t)
  <2>1. PICK b \in 0 .. ByteMod - 1 : b = ByteOf(value, 0)
    BY <1>3, ByteType
  <2>2. PICK m \in [0 .. MemorySize - 1 -> 0 .. ByteMod - 1] : m = [s.memory EXCEPT ![address] = b]
    BY MachineFields
  <2>3. write_byte(s, address, value) = [s EXCEPT !.memory = m]
    BY <1>1, <1>3, <2>1, <2>2 DEF write_byte
  <2> QED BY <2>3, MemoryReplaced
<1> QED BY <1>2, <1>3

\* A block is copied from memory to memory (copy_bytes).
LEMMA CopyBytesType ==
  ASSUME NEW s \in Machine, NEW src \in Int, NEW dst \in Int, NEW length \in Int
  PROVE  copy_bytes(s, src, dst, length) \in Machine
<1> DEFINE t == check_memory(check_memory(s, src, length), dst, length)
<1>1. /\ t \in Machine
      /\ Running(t) => /\ t = s /\ length >= 0
                       /\ src >= 0 /\ src + length <= MemorySize
                       /\ dst >= 0 /\ dst + length <= MemorySize
  BY CheckFacts
<1>2. CASE ~Running(t)
  BY <1>1, <1>2 DEF copy_bytes
<1>3. CASE Running(t)
  <2> DEFINE m == [a \in 0 .. MemorySize - 1 |-> IF a \in dst .. dst + length - 1
                                                 THEN s.memory[a - dst + src] ELSE s.memory[a]]
  <2>1. m \in [0 .. MemorySize - 1 -> 0 .. ByteMod - 1]
    <3>1. \A a \in dst .. dst + length - 1 : a - dst + src \in 0 .. MemorySize - 1
      BY <1>1, <1>3
    <3>2. s.memory \in [0 .. MemorySize - 1 -> 0 .. ByteMod - 1]
      BY DEF Machine
    <3> QED BY <3>1, <3>2
  <2>2. copy_bytes(s, src, dst, length) = [s EXCEPT !.memory = m]
    <3>1. DOMAIN s.memory = 0 .. MemorySize - 1
      BY DEF Machine
    <3> QED BY <1>1, <1>3, <3>1 DEF copy_bytes
  <2> HIDE DEF m
  <2> QED BY <2>1, <2>2, MemoryReplaced
<1> QED BY <1>2, <1>3

\* A window is replaced by as many cells as it had.
LEMMA WindowType ==
  ASSUME NEW s \in Machine, NEW width \in Nat, NEW values,
         Running(windowed(s, width)) => \A i \in 1 .. width : values[i] \in Int
  PROVE  replace_data_window(s, width, values) \in Machine
<1> DEFINE t == windowed(s, width)
<1>1. /\ t \in Machine /\ (Running(t) <=> Running(s) /\ s.dsp + width <= StackSize)
      /\ (Running(t) => t = s)
  BY ErrorRaised DEF Require, Errors, windowed
<1>2. CASE ~Running(t)
  BY <1>1, <1>2 DEF replace_data_window
<1>3. CASE Running(t)
  <2> DEFINE d == [i \in 0 .. StackSize - 1 |-> IF i \in s.dsp .. s.dsp + width - 1
                                                THEN to_cell(values[width - (i - s.dsp)])
                                                ELSE s.data_stack[i]]
  <2>1. d \in [0 .. StackSize - 1 -> Cell]
    <3>1. \A i \in s.dsp .. s.dsp + width - 1 : width - (i - s.dsp) \in 1 .. width
      BY DEF Machine
    <3>2. \A i \in s.dsp .. s.dsp + width - 1 : to_cell(values[width - (i - s.dsp)]) \in Cell
      BY <1>3, <3>1, ToCell
    <3>3. s.data_stack \in [0 .. StackSize - 1 -> Cell]
      BY DEF Machine
    <3> QED BY <3>2, <3>3
  <2>2. replace_data_window(s, width, values) = [s EXCEPT !.data_stack = d]
    <3>1. DOMAIN s.data_stack = 0 .. StackSize - 1
      BY DEF Machine
    <3> QED BY <1>1, <1>3, <3>1 DEF replace_data_window
  <2> HIDE DEF d
  <2> QED BY <2>1, <2>2, StackReplaced
<1> QED BY <1>2, <1>3

\* Once an exception is raised, nothing is pushed, popped or stored.
LEMMA Stopped ==
  ASSUME NEW t, ~Running(t)
  PROVE  /\ \A v : push_data(t, v) = t /\ push_return(t, v) = t
         /\ pop_data(t) = t /\ pop_return(t) = t
         /\ \A p : set_dsp(t, p) = t /\ set_rsp(t, p) = t
         /\ \A a, v : write_cell(t, a, v) = t /\ write_byte(t, a, v) = t
         /\ \A a, n : check_memory(t, a, n) = t
         /\ \A n, values : replace_data_window(t, n, values) = t
         /\ \A n : windowed(t, n) = t /\ peekable(t, n) = t
         /\ \A a, b, n : copy_bytes(t, a, b, n) = t
BY DEF Require, peekable, windowed, push_data, push_return, pop_data, pop_return, set_dsp, set_rsp,
       check_memory, write_cell, write_byte, replace_data_window, copy_bytes

\* What is near enough to the top of the stack is a cell.
LEMMA PeekType ==
  ASSUME NEW s \in Machine, NEW depth \in Nat, s.dsp + depth < StackSize
  PROVE  peek_data(s, depth) \in Cell /\ peek_data(s, depth) \in Int
<1>1. s.dsp + depth \in 0 .. StackSize - 1
  BY MachineFields
<1>2. s.data_stack[s.dsp + depth] \in Cell
  BY <1>1, MachineFields
<1> QED BY <1>2, ToCell DEF peek_data

\* Two pops, and three.
LEMMA PopTwo ==
  ASSUME NEW s \in Machine
  PROVE  /\ pop2(s) \in Machine
         /\ Running(pop2(s)) <=> Running(s) /\ s.dsp + 2 <= StackSize
         /\ Running(pop2(s)) => pop2(s).memory = s.memory
<1> DEFINE t == pop_data(s)
<1>1. /\ t \in Machine /\ (Running(t) <=> Running(s) /\ s.dsp < StackSize)
      /\ Running(t) => t.dsp = s.dsp + 1 /\ t.memory = s.memory
  <2>1. s.dsp \in 0 .. StackSize /\ [s EXCEPT !.dsp = @ + 1].dsp = s.dsp + 1
        /\ [s EXCEPT !.dsp = @ + 1].memory = s.memory
    BY DEF Machine
  <2> QED BY <2>1, PopFacts
<1>2. s.dsp \in 0 .. StackSize /\ t.dsp \in 0 .. StackSize
  BY <1>1, MachineFields
<1>3. Running(pop_data(t)) => pop_data(t).memory = t.memory
  <2>1. [t EXCEPT !.dsp = @ + 1].memory = t.memory
    BY <1>1 DEF Machine
  <2> QED BY <1>1, <2>1, PopFacts
<1>4. ~Running(t) => pop_data(t) = t
  BY Stopped
<1>5. pop_data(t) \in Machine /\ (Running(pop_data(t)) <=> Running(t) /\ t.dsp < StackSize)
  BY <1>1, PopFacts
<1> HIDE DEF t
<1>6. Running(pop_data(t)) <=> Running(s) /\ s.dsp + 2 <= StackSize
  BY <1>1, <1>2, <1>5
<1> QED BY <1>1, <1>3, <1>5, <1>6 DEF pop2, t

\* What three pops need.
LEMMA PopThree ==
  ASSUME NEW s \in Machine
  PROVE  /\ pop3(s) \in Machine
         /\ Running(pop3(s)) => Running(s) /\ s.dsp + 3 <= StackSize
<1> DEFINE t == pop2(s)
<1>1. t \in Machine /\ (Running(t) <=> Running(s) /\ s.dsp + 2 <= StackSize)
  BY PopTwo
<1>2. Running(t) => t.dsp = s.dsp + 2
  <2>1. SUFFICES ASSUME Running(t) PROVE t.dsp = s.dsp + 2
    OBVIOUS
  <2>2. Running(pop_data(s))
    <3>1. ~Running(pop_data(s)) => t = pop_data(s)
      BY Stopped DEF pop2
    <3> QED BY <2>1, <3>1
  <2>3. pop_data(s) \in Machine /\ pop_data(s).dsp = s.dsp + 1
    <3>1. [s EXCEPT !.dsp = @ + 1].dsp = s.dsp + 1
      BY DEF Machine
    <3> QED BY <2>2, <3>1, PopFacts
  <2>4. [pop_data(s) EXCEPT !.dsp = @ + 1].dsp = pop_data(s).dsp + 1
    BY <2>3 DEF Machine
  <2>5. t.dsp = pop_data(s).dsp + 1
    BY <2>1, <2>3, <2>4, PopFacts DEF pop2
  <2> QED BY <2>3, <2>5, MachineFields
<1>3. pop_data(t) \in Machine /\ (Running(pop_data(t)) <=> Running(t) /\ t.dsp < StackSize)
  BY <1>1, PopFacts
<1>4. s.dsp \in 0 .. StackSize
  BY MachineFields
<1> HIDE DEF t
<1> QED BY <1>1, <1>2, <1>3, <1>4 DEF pop3, t

\* Keeping a result as a cell before it is pushed changes nothing: the push does.
LEMMA PushCell ==
  ASSUME NEW t \in Machine, NEW u, NEW v, Running(t) => u \in Int /\ v = to_cell(u)
  PROVE  push_data(t, v) = push_data(t, u) /\ push_data(t, u) \in Machine
<1>1. CASE ~Running(t)
  <2>1. push_data(t, v) = t /\ push_data(t, u) = t
    BY <1>1, Stopped
  <2> QED BY <2>1
<1>2. CASE Running(t)
  <2>1. to_cell(v) = to_cell(u)
    BY <1>2, ToCell
  <2>2. push_data(t, v) = push_data(t, u)
    BY <2>1 DEF push_data
  <2> QED BY <1>2, <2>2, PushType
<1> QED BY <1>1, <1>2

\* Bits of numbers, taken together, are a number.
LEMMA BitwiseType ==
  ASSUME NEW x, NEW y
  PROVE  bit_and(x, y) \in Int /\ bit_or(x, y) \in Int /\ bit_xor(x, y) \in Int
<1>1. BitsOf(x) \subseteq 0 .. CellBits - 1 /\ BitsOf(y) \subseteq 0 .. CellBits - 1
  BY DEF BitsOf
<1>2. /\ BitsOf(x) \cap BitsOf(y) \subseteq 0 .. CellBits - 1
      /\ BitsOf(x) \cup BitsOf(y) \subseteq 0 .. CellBits - 1
      /\ (BitsOf(x) \cup BitsOf(y)) \ (BitsOf(x) \cap BitsOf(y)) \subseteq 0 .. CellBits - 1
  BY <1>1
<1> QED BY <1>2, BitsType DEF bit_and, bit_or, bit_xor

\* A division by anything but zero gives cells.
LEMMA DivisionType ==
  ASSUME NEW x \in Int, NEW y \in Int \ {0}
  PROVE  trunc_divmod(x, y)[1] \in Cell /\ trunc_divmod(x, y)[2] \in Cell
<1>1. abs(x) \in Nat /\ abs(y) \in Nat \ {0}
  BY DEF abs
<1>2. PICK size \in Int : size = abs(x) \div abs(y)
  BY <1>1
<1>3. PICK q \in Int : q = IF (x < 0) # (y < 0) THEN -size ELSE size
  BY <1>2
<1>4. x - q * y \in Int
  OBVIOUS
<1>5. trunc_divmod(x, y) = <<to_cell(x - q * y), to_cell(q)>>
  BY <1>2, <1>3 DEF trunc_divmod
<1> QED BY <1>4, <1>5, ToCell

\* A raw word leaves a machine, and its kernel the same one.
WordAgrees(w, s) == RawWord(w, s) \in Machine /\ KernelWord(w, s) = RawWord(w, s)

\* The word pushes u, a function of the top item, and the kernel v, which is u as a cell.
Unary(w, s) ==
  \E u, v : /\ s.dsp < StackSize => u \in Int /\ v = to_cell(u)
            /\ RawWord(w, s) = push_data(pop_data(s), u)
            /\ KernelWord(w, s) = push_data(pop_data(s), v)

\* The same of a function of the two topmost items.
Binary(w, s) ==
  \E u, v : /\ s.dsp + 2 <= StackSize => u \in Int /\ v = to_cell(u)
            /\ RawWord(w, s) = push_data(pop2(s), u)
            /\ KernelWord(w, s) = push_data(pop2(s), v)

\* Such words agree with their kernels: a push keeps what it is given as a cell.
LEMMA ReductionAgrees ==
  ASSUME NEW s \in Machine, NEW w, Unary(w, s) \/ Binary(w, s)
  PROVE  WordAgrees(w, s)
<1>1. CASE Unary(w, s)
  <2>1. PICK u, v : /\ s.dsp < StackSize => u \in Int /\ v = to_cell(u)
                    /\ RawWord(w, s) = push_data(pop_data(s), u)
                    /\ KernelWord(w, s) = push_data(pop_data(s), v)
    BY <1>1 DEF Unary
  <2>2. PICK t \in Machine : t = pop_data(s) /\ (Running(t) => u \in Int /\ v = to_cell(u))
    BY <2>1, PopFacts
  <2>3. push_data(t, v) = push_data(t, u) /\ push_data(t, u) \in Machine
    BY <2>2, PushCell
  <2> QED BY <2>1, <2>2, <2>3 DEF WordAgrees
<1>2. CASE Binary(w, s)
  <2>1. PICK u, v : /\ s.dsp + 2 <= StackSize => u \in Int /\ v = to_cell(u)
                    /\ RawWord(w, s) = push_data(pop2(s), u)
                    /\ KernelWord(w, s) = push_data(pop2(s), v)
    BY <1>2 DEF Binary
  <2>2. PICK t \in Machine : t = pop2(s) /\ (Running(t) => u \in Int /\ v = to_cell(u))
    BY <2>1, PopTwo
  <2>3. push_data(t, v) = push_data(t, u) /\ push_data(t, u) \in Machine
    BY <2>2, PushCell
  <2> QED BY <2>1, <2>2, <2>3 DEF WordAgrees
<1> QED BY <1>1, <1>2

\* Which family a word is of.
LEMMA Families ==
  ASSUME NEW w, NEW s
  PROVE  /\ w \in StackWords => RawWord(w, s) = raw_stack(w, s)
                                /\ KernelWord(w, s) = kernel_stack(w, s)
         /\ w \in ArithmeticWords => RawWord(w, s) = raw_arithmetic(w, s)
                                     /\ KernelWord(w, s) = kernel_arithmetic(w, s)
         /\ w \in ComparisonWords => RawWord(w, s) = raw_comparison(w, s)
                                     /\ KernelWord(w, s) = kernel_comparison(w, s)
         /\ w \in ZeroTests => RawWord(w, s) = raw_zero_test(w, s)
                               /\ KernelWord(w, s) = kernel_zero_test(w, s)
         /\ w \in BitwiseWords => RawWord(w, s) = raw_bitwise(w, s)
                                  /\ KernelWord(w, s) = kernel_bitwise(w, s)
         /\ w \in MemoryWords => RawWord(w, s) = raw_memory(w, s)
                                 /\ KernelWord(w, s) = kernel_memory(w, s)
         /\ w \in ReturnWords => RawWord(w, s) = raw_return(w, s)
                                 /\ KernelWord(w, s) = kernel_return(w, s)
BY DEF RawWord, KernelWord, StackWords, ArithmeticWords, ComparisonWords, ZeroTests, BitwiseWords,
       MemoryWords, ReturnWords

\* One and two items from the top, as the words read them.
LEMMA TopType ==
  ASSUME NEW s \in Machine
  PROVE  /\ s.dsp < StackSize => top(s) \in Cell /\ top(s) \in Int
         /\ s.dsp + 2 <= StackSize => second(s) \in Cell /\ second(s) \in Int /\ s.dsp < StackSize
         /\ s.dsp + 3 <= StackSize => third(s) \in Cell /\ third(s) \in Int /\ s.dsp + 2 <= StackSize
<1>1. s.dsp \in 0 .. StackSize /\ s.dsp + 0 = s.dsp
  BY MachineFields
<1> QED BY <1>1, PeekType DEF top, second, third

\* The arithmetic words agree with their kernels.
LEMMA ArithmeticAgrees ==
  ASSUME NEW s \in Machine, NEW w \in ArithmeticWords
  PROVE  WordAgrees(w, s)
<1>1. RawWord(w, s) = raw_arithmetic(w, s) /\ KernelWord(w, s) = kernel_arithmetic(w, s)
  BY Families
<1>2. /\ s.dsp < StackSize => top(s) \in Cell /\ top(s) \in Int
      /\ s.dsp + 2 <= StackSize => /\ second(s) \in Cell /\ second(s) \in Int
                                   /\ top(s) \in Cell /\ top(s) \in Int
  BY TopType
<1>3. CASE w = "1+"
  <2> DEFINE fn == [value \in Cell |-> value + 1]
             u == top(s) + 1
             v == to_cell(fn[top(s)])
  <2>1. s.dsp < StackSize => u \in Int /\ v = to_cell(u)
    BY <1>2
  <2>2. raw_arithmetic(w, s) = push_data(pop_data(s), u)
    BY <1>3 DEF raw_arithmetic
  <2>3. kernel_arithmetic(w, s) = push_data(pop_data(s), v)
    BY <1>3 DEF kernel_arithmetic, unary_transform, top
  <2> HIDE DEF u, v
  <2> QED BY <1>1, <2>1, <2>2, <2>3, ReductionAgrees DEF Unary
<1>4. CASE w = "1-"
  <2> DEFINE fn == [value \in Cell |-> value - 1]
             u == top(s) - 1
             v == to_cell(fn[top(s)])
  <2>1. s.dsp < StackSize => u \in Int /\ v = to_cell(u)
    BY <1>2
  <2>2. raw_arithmetic(w, s) = push_data(pop_data(s), u)
    BY <1>4 DEF raw_arithmetic
  <2>3. kernel_arithmetic(w, s) = push_data(pop_data(s), v)
    BY <1>4 DEF kernel_arithmetic, unary_transform, top
  <2> HIDE DEF u, v
  <2> QED BY <1>1, <2>1, <2>2, <2>3, ReductionAgrees DEF Unary
<1>5. CASE w = "4+"
  <2> DEFINE fn == [value \in Cell |-> value + 4]
             u == top(s) + 4
             v == to_cell(fn[top(s)])
  <2>1. s.dsp < StackSize => u \in Int /\ v = to_cell(u)
    BY <1>2
  <2>2. raw_arithmetic(w, s) = push_data(pop_data(s), u)
    BY <1>5 DEF raw_arithmetic
  <2>3. kernel_arithmetic(w, s) = push_data(pop_data(s), v)
    BY <1>5 DEF kernel_arithmetic, unary_transform, top
  <2> HIDE DEF u, v
  <2> QED BY <1>1, <2>1, <2>2, <2>3, ReductionAgrees DEF Unary
<1>6. CASE w = "4-"
  <2> DEFINE fn == [value \in Cell |-> value - 4]
             u == top(s) - 4
             v == to_cell(fn[top(s)])
  <2>1. s.dsp < StackSize => u \in Int /\ v = to_cell(u)
    BY <1>2
  <2>2. raw_arithmetic(w, s) = push_data(pop_data(s), u)
    BY <1>6 DEF raw_arithmetic
  <2>3. kernel_arithmetic(w, s) = push_data(pop_data(s), v)
    BY <1>6 DEF kernel_arithmetic, unary_transform, top
  <2> HIDE DEF u, v
  <2> QED BY <1>1, <2>1, <2>2, <2>3, ReductionAgrees DEF Unary
<1>7. CASE w = "+"
  <2> DEFINE fn == [lhs \in Cell |-> [rhs \in Cell |-> lhs + rhs]]
             u == second(s) + top(s)
             v == to_cell(fn[second(s)][top(s)])
  <2>1. s.dsp + 2 <= StackSize => u \in Int /\ v = to_cell(u)
    BY <1>2
  <2>2. raw_arithmetic(w, s) = push_data(pop2(s), u)
    BY <1>7 DEF raw_arithmetic
  <2>3. kernel_arithmetic(w, s) = push_data(pop2(s), v)
    BY <1>7 DEF kernel_arithmetic, binary_reduce
  <2> HIDE DEF u, v
  <2> QED BY <1>1, <2>1, <2>2, <2>3, ReductionAgrees DEF Binary
<1>8. CASE w = "-"
  <2> DEFINE fn == [lhs \in Cell |-> [rhs \in Cell |-> lhs - rhs]]
             u == second(s) - top(s)
             v == to_cell(fn[second(s)][top(s)])
  <2>1. s.dsp + 2 <= StackSize => u \in Int /\ v = to_cell(u)
    BY <1>2
  <2>2. raw_arithmetic(w, s) = push_data(pop2(s), u)
    BY <1>8 DEF raw_arithmetic
  <2>3. kernel_arithmetic(w, s) = push_data(pop2(s), v)
    BY <1>8 DEF kernel_arithmetic, binary_reduce
  <2> HIDE DEF u, v
  <2> QED BY <1>1, <2>1, <2>2, <2>3, ReductionAgrees DEF Binary
<1>9. CASE w = "*"
  <2> DEFINE fn == [lhs \in Cell |-> [rhs \in Cell |-> lhs * rhs]]
             u == second(s) * top(s)
             v == to_cell(fn[second(s)][top(s)])
  <2>1. s.dsp + 2 <= StackSize => u \in Int /\ v = to_cell(u)
    BY <1>2
  <2>2. raw_arithmetic(w, s) = push_data(pop2(s), u)
    BY <1>9 DEF raw_arithmetic
  <2>3. kernel_arithmetic(w, s) = push_data(pop2(s), v)
    BY <1>9 DEF kernel_arithmetic, binary_reduce
  <2> HIDE DEF u, v
  <2> QED BY <1>1, <2>1, <2>2, <2>3, ReductionAgrees DEF Binary
<1>10. CASE w = "/MOD"
  <2> DEFINE t == Require(pop2(s), top(s) # 0, "ZeroDivisionError")
             r == trunc_divmod(second(s), top(s))
             fn == [lhs \in Cell |-> [rhs \in Cell |-> trunc_divmod(lhs, rhs)]]
             k == fn[second(s)][top(s)]
  <2>1. /\ raw_arithmetic(w, s) = push_data(push_data(t, r[1]), r[2])
        /\ kernel_arithmetic(w, s) = push_data(push_data(t, k[1]), k[2])
    BY <1>10 DEF raw_arithmetic, kernel_arithmetic, binary_multi_result
  <2>2. t \in Machine /\ (Running(t) => s.dsp + 2 <= StackSize /\ top(s) # 0)
    BY PopTwo, ErrorRaised DEF Require, Errors
  <2>3. Running(t) => r[1] \in Int /\ r[2] \in Int
    BY <1>2, <2>2, DivisionType, ToCell
  <2>4. Running(t) => k = r
    BY <1>2, <2>2
  <2> HIDE DEF t, r, k
  <2>5. push_data(push_data(t, k[1]), k[2]) = push_data(push_data(t, r[1]), r[2])
    BY <2>4, Stopped
  <2>6. push_data(t, r[1]) \in Machine /\ (Running(push_data(t, r[1])) => Running(t))
    BY <2>2, <2>3, PushType, Stopped
  <2>7. push_data(push_data(t, r[1]), r[2]) \in Machine
    BY <2>3, <2>6, PushType
  <2> QED BY <1>1, <2>1, <2>5, <2>7 DEF WordAgrees
<1> QED BY <1>3, <1>4, <1>5, <1>6, <1>7, <1>8, <1>9, <1>10 DEF ArithmeticWords

\* The comparisons agree with their kernels.
LEMMA ComparisonAgrees ==
  ASSUME NEW s \in Machine, NEW w \in ComparisonWords
  PROVE  WordAgrees(w, s)
<1>1. RawWord(w, s) = raw_comparison(w, s) /\ KernelWord(w, s) = kernel_comparison(w, s)
  BY Families
<1>2. /\ s.dsp < StackSize => top(s) \in Cell /\ top(s) \in Int
      /\ s.dsp + 2 <= StackSize => /\ second(s) \in Cell /\ second(s) \in Int
                                   /\ top(s) \in Cell /\ top(s) \in Int
  BY TopType
<1>3. CASE w = "="
  <2> DEFINE fn == [lhs \in Cell |-> [rhs \in Cell |-> bool_cell(lhs = rhs)]]
             u == bool_cell(second(s) = top(s))
             v == to_cell(fn[second(s)][top(s)])
  <2>1. s.dsp + 2 <= StackSize => u \in Int /\ v = to_cell(u)
    BY <1>2 DEF bool_cell
  <2>2. raw_comparison(w, s) = push_data(pop2(s), u)
    BY <1>3 DEF raw_comparison
  <2>3. kernel_comparison(w, s) = push_data(pop2(s), v)
    BY <1>3 DEF kernel_comparison, binary_reduce
  <2> HIDE DEF u, v
  <2> QED BY <1>1, <2>1, <2>2, <2>3, ReductionAgrees DEF Binary
<1>4. CASE w = "<>"
  <2> DEFINE fn == [lhs \in Cell |-> [rhs \in Cell |-> bool_cell(lhs # rhs)]]
             u == bool_cell(second(s) # top(s))
             v == to_cell(fn[second(s)][top(s)])
  <2>1. s.dsp + 2 <= StackSize => u \in Int /\ v = to_cell(u)
    BY <1>2 DEF bool_cell
  <2>2. raw_comparison(w, s) = push_data(pop2(s), u)
    BY <1>4 DEF raw_comparison
  <2>3. kernel_comparison(w, s) = push_data(pop2(s), v)
    BY <1>4 DEF kernel_comparison, binary_reduce
  <2> HIDE DEF u, v
  <2> QED BY <1>1, <2>1, <2>2, <2>3, ReductionAgrees DEF Binary
<1>5. CASE w = "<"
  <2> DEFINE fn == [lhs \in Cell |-> [rhs \in Cell |-> bool_cell(lhs < rhs)]]
             u == bool_cell(second(s) < top(s))
             v == to_cell(fn[second(s)][top(s)])
  <2>1. s.dsp + 2 <= StackSize => u \in Int /\ v = to_cell(u)
    BY <1>2 DEF bool_cell
  <2>2. raw_comparison(w, s) = push_data(pop2(s), u)
    BY <1>5 DEF raw_comparison
  <2>3. kernel_comparison(w, s) = push_data(pop2(s), v)
    BY <1>5 DEF kernel_comparison, binary_reduce
  <2> HIDE DEF u, v
  <2> QED BY <1>1, <2>1, <2>2, <2>3, ReductionAgrees DEF Binary
<1>6. CASE w = ">"
  <2> DEFINE fn == [lhs \in Cell |-> [rhs \in Cell |-> bool_cell(lhs > rhs)]]
             u == bool_cell(second(s) > top(s))
             v == to_cell(fn[second(s)][top(s)])
  <2>1. s.dsp + 2 <= StackSize => u \in Int /\ v = to_cell(u)
    BY <1>2 DEF bool_cell
  <2>2. raw_comparison(w, s) = push_data(pop2(s), u)
    BY <1>6 DEF raw_comparison
  <2>3. kernel_comparison(w, s) = push_data(pop2(s), v)
    BY <1>6 DEF kernel_comparison, binary_reduce
  <2> HIDE DEF u, v
  <2> QED BY <1>1, <2>1, <2>2, <2>3, ReductionAgrees DEF Binary
<1>7. CASE w = "<="
  <2> DEFINE fn == [lhs \in Cell |-> [rhs \in Cell |-> bool_cell(lhs <= rhs)]]
             u == bool_cell(second(s) <= top(s))
             v == to_cell(fn[second(s)][top(s)])
  <2>1. s.dsp + 2 <= StackSize => u \in Int /\ v = to_cell(u)
    BY <1>2 DEF bool_cell
  <2>2. raw_comparison(w, s) = push_data(pop2(s), u)
    BY <1>7 DEF raw_comparison
  <2>3. kernel_comparison(w, s) = push_data(pop2(s), v)
    BY <1>7 DEF kernel_comparison, binary_reduce
  <2> HIDE DEF u, v
  <2> QED BY <1>1, <2>1, <2>2, <2>3, ReductionAgrees DEF Binary
<1>8. CASE w = ">="
  <2> DEFINE fn == [lhs \in Cell |-> [rhs \in Cell |-> bool_cell(lhs >= rhs)]]
             u == bool_cell(second(s) >= top(s))
             v == to_cell(fn[second(s)][top(s)])
  <2>1. s.dsp + 2 <= StackSize => u \in Int /\ v = to_cell(u)
    BY <1>2 DEF bool_cell
  <2>2. raw_comparison(w, s) = push_data(pop2(s), u)
    BY <1>8 DEF raw_comparison
  <2>3. kernel_comparison(w, s) = push_data(pop2(s), v)
    BY <1>8 DEF kernel_comparison, binary_reduce
  <2> HIDE DEF u, v
  <2> QED BY <1>1, <2>1, <2>2, <2>3, ReductionAgrees DEF Binary
<1> QED BY <1>3, <1>4, <1>5, <1>6, <1>7, <1>8 DEF ComparisonWords

\* So do words that push the same number.
LEMMA SamePush ==
  ASSUME NEW s \in Machine, NEW w, NEW u \in Int, NEW v, s.dsp < StackSize => v = u,
         RawWord(w, s) = push_data(pop_data(s), u), KernelWord(w, s) = push_data(pop_data(s), v)
  PROVE  WordAgrees(w, s)
<1>1. PICK t \in Machine : t = pop_data(s) /\ (Running(t) => v = u)
  BY PopFacts
<1>2. push_data(t, v) = push_data(t, u) /\ push_data(t, u) \in Machine
  BY <1>1, Stopped, PushType
<1> QED BY <1>1, <1>2 DEF WordAgrees

\* The tests of the top item agree with their kernels.
LEMMA ZeroTestAgrees ==
  ASSUME NEW s \in Machine, NEW w \in ZeroTests
  PROVE  WordAgrees(w, s)
<1>1. RawWord(w, s) = raw_zero_test(w, s) /\ KernelWord(w, s) = kernel_zero_test(w, s)
  BY Families
<1>2. /\ s.dsp < StackSize => top(s) \in Cell /\ top(s) \in Int
      /\ s.dsp + 2 <= StackSize => /\ second(s) \in Cell /\ second(s) \in Int
                                   /\ top(s) \in Cell /\ top(s) \in Int
  BY TopType
<1>3. CASE w = "0="
  <2> DEFINE fn == [value \in Cell |-> value = 0]
             u == bool_cell(top(s) = 0)
             v == bool_cell(fn[top(s)])
  <2>1. u \in Int /\ (s.dsp < StackSize => v = u)
    <3>1. u \in Int
      BY DEF bool_cell
    <3>2. s.dsp < StackSize => fn[top(s)] = (top(s) = 0)
      BY <1>2, Zenon
    <3> QED BY <3>1, <3>2, Zenon
  <2>2. raw_zero_test(w, s) = push_data(pop_data(s), u)
    BY <1>3 DEF raw_zero_test
  <2>3. kernel_zero_test(w, s) = push_data(pop_data(s), v)
    BY <1>3 DEF kernel_zero_test, unary_predicate, top
  <2> HIDE DEF u, v
  <2> QED BY <1>1, <2>1, <2>2, <2>3, SamePush
<1>4. CASE w = "0<>"
  <2> DEFINE fn == [value \in Cell |-> value # 0]
             u == bool_cell(top(s) # 0)
             v == bool_cell(fn[top(s)])
  <2>1. u \in Int /\ (s.dsp < StackSize => v = u)
    <3>1. u \in Int
      BY DEF bool_cell
    <3>2. s.dsp < StackSize => fn[top(s)] = (top(s) # 0)
      BY <1>2, Zenon
    <3> QED BY <3>1, <3>2, Zenon
  <2>2. raw_zero_test(w, s) = push_data(pop_data(s), u)
    BY <1>4 DEF raw_zero_test
  <2>3. kernel_zero_test(w, s) = push_data(pop_data(s), v)
    BY <1>4 DEF kernel_zero_test, unary_predicate, top
  <2> HIDE DEF u, v
  <2> QED BY <1>1, <2>1, <2>2, <2>3, SamePush
<1>5. CASE w = "0<"
  <2> DEFINE fn == [value \in Cell |-> value < 0]
             u == bool_cell(top(s) < 0)
             v == bool_cell(fn[top(s)])
  <2>1. u \in Int /\ (s.dsp < StackSize => v = u)
    <3>1. u \in Int
      BY DEF bool_cell
    <3>2. s.dsp < StackSize => fn[top(s)] = (top(s) < 0)
      BY <1>2, Zenon
    <3> QED BY <3>1, <3>2, Zenon
  <2>2. raw_zero_test(w, s) = push_data(pop_data(s), u)
    BY <1>5 DEF raw_zero_test
  <2>3. kernel_zero_test(w, s) = push_data(pop_data(s), v)
    BY <1>5 DEF kernel_zero_test, unary_predicate, top
  <2> HIDE DEF u, v
  <2> QED BY <1>1, <2>1, <2>2, <2>3, SamePush
<1>6. CASE w = "0>"
  <2> DEFINE fn == [value \in Cell |-> value > 0]
             u == bool_cell(top(s) > 0)
             v == bool_cell(fn[top(s)])
  <2>1. u \in Int /\ (s.dsp < StackSize => v = u)
    <3>1. u \in Int
      BY DEF bool_cell
    <3>2. s.dsp < StackSize => fn[top(s)] = (top(s) > 0)
      BY <1>2, Zenon
    <3> QED BY <3>1, <3>2, Zenon
  <2>2. raw_zero_test(w, s) = push_data(pop_data(s), u)
    BY <1>6 DEF raw_zero_test
  <2>3. kernel_zero_test(w, s) = push_data(pop_data(s), v)
    BY <1>6 DEF kernel_zero_test, unary_predicate, top
  <2> HIDE DEF u, v
  <2> QED BY <1>1, <2>1, <2>2, <2>3, SamePush
<1>7. CASE w = "0<="
  <2> DEFINE fn == [value \in Cell |-> value <= 0]
             u == bool_cell(top(s) <= 0)
             v == bool_cell(fn[top(s)])
  <2>1. u \in Int /\ (s.dsp < StackSize => v = u)
    <3>1. u \in Int
      BY DEF bool_cell
    <3>2. s.dsp < StackSize => fn[top(s)] = (top(s) <= 0)
      BY <1>2, Zenon
    <3> QED BY <3>1, <3>2, Zenon
  <2>2. raw_zero_test(w, s) = push_data(pop_data(s), u)
    BY <1>7 DEF raw_zero_test
  <2>3. kernel_zero_test(w, s) = push_data(pop_data(s), v)
    BY <1>7 DEF kernel_zero_test, unary_predicate, top
  <2> HIDE DEF u, v
  <2> QED BY <1>1, <2>1, <2>2, <2>3, SamePush
<1>8. CASE w = "0>="
  <2> DEFINE fn == [value \in Cell |-> value >= 0]
             u == bool_cell(top(s) >= 0)
             v == bool_cell(fn[top(s)])
  <2>1. u \in Int /\ (s.dsp < StackSize => v = u)
    <3>1. u \in Int
      BY DEF bool_cell
    <3>2. s.dsp < StackSize => fn[top(s)] = (top(s) >= 0)
      BY <1>2, Zenon
    <3> QED BY <3>1, <3>2, Zenon
  <2>2. raw_zero_test(w, s) = push_data(pop_data(s), u)
    BY <1>8 DEF raw_zero_test
  <2>3. kernel_zero_test(w, s) = push_data(pop_data(s), v)
    BY <1>8 DEF kernel_zero_test, unary_predicate, top
  <2> HIDE DEF u, v
  <2> QED BY <1>1, <2>1, <2>2, <2>3, SamePush
<1> QED BY <1>3, <1>4, <1>5, <1>6, <1>7, <1>8 DEF ZeroTests

\* The words on bits agree with their kernels.
LEMMA BitwiseAgrees ==
  ASSUME NEW s \in Machine, NEW w \in BitwiseWords
  PROVE  WordAgrees(w, s)
<1>1. RawWord(w, s) = raw_bitwise(w, s) /\ KernelWord(w, s) = kernel_bitwise(w, s)
  BY Families
<1>2. /\ s.dsp < StackSize => top(s) \in Cell /\ top(s) \in Int
      /\ s.dsp + 2 <= StackSize => /\ second(s) \in Cell /\ second(s) \in Int
                                   /\ top(s) \in Cell /\ top(s) \in Int
  BY TopType
<1>3. CASE w = "AND"
  <2> DEFINE fn == [lhs \in Cell |-> [rhs \in Cell |-> bit_and(lhs, rhs)]]
             u == bit_and(second(s), top(s))
             v == to_cell(fn[second(s)][top(s)])
  <2>1. s.dsp + 2 <= StackSize => u \in Int /\ v = to_cell(u)
    BY <1>2, BitwiseType
  <2>2. raw_bitwise(w, s) = push_data(pop2(s), u)
    BY <1>3 DEF raw_bitwise
  <2>3. kernel_bitwise(w, s) = push_data(pop2(s), v)
    BY <1>3 DEF kernel_bitwise, binary_reduce
  <2> HIDE DEF u, v
  <2> QED BY <1>1, <2>1, <2>2, <2>3, ReductionAgrees DEF Binary
<1>4. CASE w = "OR"
  <2> DEFINE fn == [lhs \in Cell |-> [rhs \in Cell |-> bit_or(lhs, rhs)]]
             u == bit_or(second(s), top(s))
             v == to_cell(fn[second(s)][top(s)])
  <2>1. s.dsp + 2 <= StackSize => u \in Int /\ v = to_cell(u)
    BY <1>2, BitwiseType
  <2>2. raw_bitwise(w, s) = push_data(pop2(s), u)
    BY <1>4 DEF raw_bitwise
  <2>3. kernel_bitwise(w, s) = push_data(pop2(s), v)
    BY <1>4 DEF kernel_bitwise, binary_reduce
  <2> HIDE DEF u, v
  <2> QED BY <1>1, <2>1, <2>2, <2>3, ReductionAgrees DEF Binary
<1>5. CASE w = "XOR"
  <2> DEFINE fn == [lhs \in Cell |-> [rhs \in Cell |-> bit_xor(lhs, rhs)]]
             u == bit_xor(second(s), top(s))
             v == to_cell(fn[second(s)][top(s)])
  <2>1. s.dsp + 2 <= StackSize => u \in Int /\ v = to_cell(u)
    BY <1>2, BitwiseType
  <2>2. raw_bitwise(w, s) = push_data(pop2(s), u)
    BY <1>5 DEF raw_bitwise
  <2>3. kernel_bitwise(w, s) = push_data(pop2(s), v)
    BY <1>5 DEF kernel_bitwise, binary_reduce
  <2> HIDE DEF u, v
  <2> QED BY <1>1, <2>1, <2>2, <2>3, ReductionAgrees DEF Binary
<1>6. CASE w = "INVERT"
  <2> DEFINE fn == [value \in Cell |-> -value - 1]
             u == -top(s) - 1
             v == to_cell(fn[top(s)])
  <2>1. s.dsp < StackSize => u \in Int /\ v = to_cell(u)
    BY <1>2
  <2>2. raw_bitwise(w, s) = push_data(pop_data(s), u)
    BY <1>6 DEF raw_bitwise
  <2>3. kernel_bitwise(w, s) = push_data(pop_data(s), v)
    BY <1>6 DEF kernel_bitwise, unary_transform, top
  <2> HIDE DEF u, v
  <2> QED BY <1>1, <2>1, <2>2, <2>3, ReductionAgrees DEF Unary
<1> QED BY <1>3, <1>4, <1>5, <1>6 DEF BitwiseWords

\* The words of the return stack and of the pointers agree with their kernels.
LEMMA ReturnAgrees ==
  ASSUME NEW s \in Machine, NEW w \in ReturnWords
  PROVE  WordAgrees(w, s)
<1>1. RawWord(w, s) = raw_return(w, s) /\ KernelWord(w, s) = kernel_return(w, s)
  BY Families
<1>2. pop_data(s) \in Machine /\ (Running(pop_data(s)) => top(s) \in Int)
  BY PopFacts, TopType
<1>3. CASE w = ">R"
  <2>1. /\ raw_return(w, s) = push_return(pop_data(s), top(s))
        /\ kernel_return(w, s) = push_return(pop_data(s), top(s))
    BY <1>3 DEF raw_return, kernel_return, move_between_stacks
  <2> QED BY <1>1, <1>2, <2>1, PushReturnType DEF WordAgrees
<1>4. CASE w = "R>"
  <2>1. /\ raw_return(w, s) = push_data(pop_return(s), peek_return(s))
        /\ kernel_return(w, s) = push_data(pop_return(s), peek_return(s))
    BY <1>4 DEF raw_return, kernel_return, move_between_stacks
  <2>2. Running(pop_return(s)) => peek_return(s) \in Int
    <3>1. Running(pop_return(s)) => s.rsp \in 0 .. StackSize - 1
      BY PopReturnType, MachineFields
    <3>2. Running(pop_return(s)) => s.return_stack[s.rsp] \in Cell
      BY <3>1, MachineFields
    <3> QED BY <3>2, ToCell DEF peek_return
  <2> QED BY <1>1, <2>1, <2>2, PopReturnType, PushType DEF WordAgrees
<1>5. CASE w = "RSP@" \/ w = "DSP@"
  <2>1. s.rsp \in Int /\ s.dsp \in Int
    BY MachineFields
  <2>2. /\ raw_return(w, s) = push_data(s, IF w = "RSP@" THEN s.rsp ELSE s.dsp)
        /\ kernel_return(w, s) = push_data(s, IF w = "RSP@" THEN s.rsp ELSE s.dsp)
    BY <1>5 DEF raw_return, kernel_return, get_stack_pointer
  <2> QED BY <1>1, <2>1, <2>2, PushType DEF WordAgrees
<1>6. CASE w = "RSP!"
  <2>1. raw_return(w, s) = set_rsp(pop_data(s), top(s)) /\ kernel_return(w, s) = set_rsp(pop_data(s), top(s))
    BY <1>6 DEF raw_return, kernel_return, set_stack_pointer
  <2> QED BY <1>1, <1>2, <2>1, PointerTypes DEF WordAgrees
<1>7. CASE w = "DSP!"
  <2>1. raw_return(w, s) = set_dsp(pop_data(s), top(s)) /\ kernel_return(w, s) = set_dsp(pop_data(s), top(s))
    BY <1>7 DEF raw_return, kernel_return, set_stack_pointer
  <2> QED BY <1>1, <1>2, <2>1, PointerTypes DEF WordAgrees
<1>8. CASE w = "RDROP"
  <2>1. raw_return(w, s) = pop_return(s) /\ kernel_return(w, s) = pop_return(s)
    BY <1>8 DEF raw_return, kernel_return, drop_return
  <2> QED BY <1>1, <2>1, PopReturnType DEF WordAgrees
<1> QED BY <1>3, <1>4, <1>5, <1>6, <1>7, <1>8 DEF ReturnWords

\* The two topmost items as a window holds them.
LEMMA WindowItems ==
  ASSUME NEW s \in Machine
  PROVE  data_window(s, 2)[1] = second(s) /\ data_window(s, 2)[2] = top(s)
<1>1. s.dsp + 2 - 1 = s.dsp + 1 /\ s.dsp + 2 - 2 = s.dsp + 0
  BY MachineFields
<1> QED BY <1>1 DEF data_window, second, top, peek_data

\* A cell is stored as the same bytes, kept as a cell before or not.
LEMMA StoreCell ==
  ASSUME NEW s \in Machine, NEW t \in Machine, NEW address \in Int, NEW u,
         Running(check_memory(t, address, CellBytes)) => u \in Int
  PROVE  /\ write_cell(t, address, to_cell(u)) = write_cell(t, address, u)
         /\ write_cell(t, address, u) \in Machine
<1> DEFINE r == check_memory(t, address, CellBytes)
<1>1. CASE Running(r)
  <2>1. \A i : ByteOf(to_cell(u), i) = ByteOf(u, i)
    BY <1>1, ByteOfCell
  <2>2. write_cell(t, address, to_cell(u)) = write_cell(t, address, u)
    BY <2>1 DEF write_cell
  <2> QED BY <2>2, WriteCellType
<1>2. CASE ~Running(r)
  <2>1. write_cell(t, address, to_cell(u)) = r /\ write_cell(t, address, u) = r
    BY <1>2 DEF write_cell
  <2> QED BY <2>1, CheckFacts
<1> QED BY <1>1, <1>2

\* The words that store and fetch agree with their kernels.
LEMMA MemoryAgrees ==
  ASSUME NEW s \in Machine, NEW w \in MemoryWords
  PROVE  WordAgrees(w, s)
<1> DEFINE x == top(s)
           y == second(s)
           t == pop2(s)
<1>1. RawWord(w, s) = raw_memory(w, s) /\ KernelWord(w, s) = kernel_memory(w, s)
  BY Families
<1>2. t \in Machine /\ (Running(t) => x \in Int /\ y \in Int)
  BY PopTwo, TopType
<1>3. pop_data(s) \in Machine /\ (Running(pop_data(s)) => x \in Int)
  BY PopFacts, TopType
<1>4. CASE w = "!"
  <2>1. raw_memory(w, s) = write_cell(t, x, y) /\ kernel_memory(w, s) = write_cell(t, x, y)
    BY <1>4 DEF raw_memory, kernel_memory, memory_store
  <2> HIDE DEF t, x, y
  <2>2. write_cell(t, x, y) \in Machine
    <3>1. CASE Running(t)
      BY <1>2, <3>1, WriteCellType
    <3>2. CASE ~Running(t)
      BY <1>2, <3>2, Stopped
    <3> QED BY <3>1, <3>2
  <2> QED BY <1>1, <2>1, <2>2 DEF WordAgrees
<1>5. CASE w = "C!"
  <2>1. raw_memory(w, s) = write_byte(t, x, y) /\ kernel_memory(w, s) = write_byte(t, x, y)
    BY <1>5 DEF raw_memory, kernel_memory, memory_store
  <2> HIDE DEF t, x, y
  <2>2. write_byte(t, x, y) \in Machine
    <3>1. CASE Running(t)
      BY <1>2, <3>1, WriteByteType
    <3>2. CASE ~Running(t)
      BY <1>2, <3>2, Stopped
    <3> QED BY <3>1, <3>2
  <2> QED BY <1>1, <2>1, <2>2 DEF WordAgrees
<1>6. CASE w = "@"
  <2> DEFINE c == check_memory(pop_data(s), x, CellBytes)
  <2>1. raw_memory(w, s) = push_data(c, read_cell(s, x)) /\ kernel_memory(w, s) = push_data(c, read_cell(s, x))
    BY <1>6 DEF raw_memory, kernel_memory, memory_fetch
  <2>2. c \in Machine /\ (Running(c) => read_cell(s, x) \in Int)
    <3>1. CASE Running(pop_data(s))
      <4>1. c \in Machine /\ (Running(c) => x >= 0 /\ x + CellBytes <= MemorySize /\ x \in Nat)
        BY <1>3, <3>1, CheckFacts
      <4>2. Running(c) => read_cell(s, x) \in Cell
        BY <4>1, MachineFields, ReadCellType
      <4> QED BY <4>1, <4>2, ToCell
    <3>2. CASE ~Running(pop_data(s))
      BY <1>3, <3>2, Stopped
    <3> QED BY <3>1, <3>2
  <2> HIDE DEF c, x
  <2> QED BY <1>1, <2>1, <2>2, PushType DEF WordAgrees
<1>7. CASE w = "C@"
  <2> DEFINE c == check_memory(pop_data(s), x, 1)
  <2>1. raw_memory(w, s) = push_data(c, read_byte(s, x)) /\ kernel_memory(w, s) = push_data(c, read_byte(s, x))
    BY <1>7 DEF raw_memory, kernel_memory, memory_fetch
  <2>2. c \in Machine /\ (Running(c) => read_byte(s, x) \in Int)
    <3>1. CASE Running(pop_data(s))
      <4>1. c \in Machine /\ (Running(c) => x \in 0 .. MemorySize - 1)
        BY <1>3, <3>1, CheckFacts
      <4>2. Running(c) => s.memory[x] \in 0 .. ByteMod - 1
        BY <4>1, MachineFields
      <4>3. ByteMod \in Int
        BY PowerOfTwo DEF ByteMod
      <4> QED BY <4>1, <4>2, <4>3 DEF read_byte
    <3>2. CASE ~Running(pop_data(s))
      BY <1>3, <3>2, Stopped
    <3> QED BY <3>1, <3>2
  <2> HIDE DEF c, x
  <2> QED BY <1>1, <2>1, <2>2, PushType DEF WordAgrees
<1>8. CASE w = "+!" \/ w = "-!"
  <2> DEFINE c == check_memory(t, x, CellBytes)
             m == read_cell(s, x)
             u == IF w = "+!" THEN m + y ELSE m - y
             fn == IF w = "+!" THEN [current \in Cell |-> [delta \in Cell |-> current + delta]]
                               ELSE [current \in Cell |-> [delta \in Cell |-> current - delta]]
             v == to_cell(fn[m][y])
  <2>1. raw_memory(w, s) = write_cell(c, x, u) /\ kernel_memory(w, s) = write_cell(c, x, v)
    BY <1>8 DEF raw_memory, kernel_memory, memory_update
  <2>2. CASE Running(c)
    <3>1. Running(t)
      BY <2>2, Stopped
    <3>2. x \in Nat /\ x + CellBytes <= MemorySize /\ c = t
      BY <1>2, <2>2, <3>1, CheckFacts
    <3>3. m \in Cell /\ m \in Int
      BY <3>2, MachineFields, ReadCellType, ToCell
    <3>4. y \in Cell /\ y \in Int
      BY <3>1, PopTwo, TopType
    <3> HIDE DEF m, y
    <3>5. u \in Int /\ v = to_cell(u)
      BY <3>3, <3>4
    <3> HIDE DEF c, u, v, x, t
    <3>6. write_cell(c, x, to_cell(u)) = write_cell(c, x, u) /\ write_cell(c, x, u) \in Machine
      BY <1>2, <3>2, <3>5, StoreCell
    <3> QED BY <1>1, <2>1, <3>5, <3>6 DEF WordAgrees
  <2>3. CASE ~Running(c)
    <3>1. c \in Machine
      BY <1>2, CheckFacts, Stopped
    <3> HIDE DEF c, u, v, x
    <3>2. write_cell(c, x, u) = c /\ write_cell(c, x, v) = c
      BY <2>3, Stopped
    <3> QED BY <1>1, <2>1, <3>1, <3>2 DEF WordAgrees
  <2> QED BY <2>2, <2>3
<1>9. CASE w = "C@C!"
  <2> DEFINE v == windowed(s, 2)
             c == copy_byte(v, y, x)
             r == replace_data_window(c, 2, <<y + 1, x + 1>>)
  <2>1. raw_memory(w, s) = r /\ kernel_memory(w, s) = r
    BY <1>9, WindowItems DEF raw_memory, kernel_memory, copy_byte_and_advance
  <2>2. v \in Machine /\ (Running(v) => v = s /\ s.dsp + 2 <= StackSize)
    BY ErrorRaised DEF windowed, Require, Errors
  <2>3. CASE ~Running(v)
    <3>1. c = v
      BY <2>3, Stopped DEF copy_byte
    <3>2. r = v
      BY <2>3, <3>1, Stopped
    <3> QED BY <1>1, <2>1, <2>2, <3>2 DEF WordAgrees
  <2>4. CASE Running(v)
    <3>1. x \in Int /\ y \in Int
      BY <2>2, <2>4, TopType
    <3> DEFINE k == check_memory(v, y, 1)
    <3>2. k \in Machine /\ (Running(k) => y \in 0 .. MemorySize - 1)
      BY <2>2, <3>1, CheckFacts
    <3>3. Running(k) => read_byte(v, y) \in Int
      <4>1. Running(k) => v.memory[y] \in 0 .. ByteMod - 1
        BY <2>2, <3>2, MachineFields
      <4>2. ByteMod \in Int
        BY PowerOfTwo DEF ByteMod
      <4> QED BY <4>1, <4>2 DEF read_byte
    <3>4. Running(check_memory(k, x, 1)) => read_byte(v, y) \in Int
      BY <3>3, Stopped
    <3>5. c \in Machine
      BY <3>1, <3>2, <3>4, WriteByteType DEF copy_byte
    <3>6. \A i \in 1 .. 2 : <<y + 1, x + 1>>[i] \in Int
      BY <3>1
    <3> HIDE DEF c, v, x, y
    <3>7. r \in Machine
      BY <3>5, <3>6, 2 \in Nat, WindowType
    <3> HIDE DEF r
    <3> QED BY <1>1, <2>1, <3>7 DEF WordAgrees
  <2> QED BY <2>3, <2>4
<1>10. CASE w = "CMOVE"
  <2> DEFINE p == pop3(s)
             r == copy_bytes(p, third(s), y, x)
  <2>1. raw_memory(w, s) = r /\ kernel_memory(w, s) = r
    BY <1>10 DEF raw_memory, kernel_memory, copy_block
  <2>2. p \in Machine /\ (Running(p) => third(s) \in Int /\ y \in Int /\ x \in Int)
    BY PopThree, TopType
  <2> HIDE DEF p
  <2>3. r \in Machine
    BY <2>2, Stopped, CopyBytesType
  <2> HIDE DEF r
  <2> QED BY <1>1, <2>1, <2>3 DEF WordAgrees
<1> QED BY <1>4, <1>5, <1>6, <1>7, <1>8, <1>9, <1>10 DEF MemoryWords

\* Dropping one item is a pop, dropping two are two pops.
LEMMA DropFacts ==
  ASSUME NEW s
  PROVE  drop_n(s, 1) = pop_data(s) /\ drop_n(s, 2) = pop2(s)
<1> DEFINE After(n, g) == g = [k \in 0 .. n |-> IF k = 0 THEN s ELSE pop_data(g[k - 1])]
           one == [k \in 0 .. 1 |-> IF k = 0 THEN s ELSE pop_data(s)]
           two == [k \in 0 .. 2 |-> IF k = 0 THEN s ELSE IF k = 1 THEN pop_data(s) ELSE pop2(s)]
<1>1. After(1, one)
  <2>1. \A k \in 0 .. 1 : one[k] = IF k = 0 THEN s ELSE pop_data(one[k - 1])
    OBVIOUS
  <2>2. one = [k \in 0 .. 1 |-> one[k]]
    OBVIOUS
  <2> HIDE DEF one
  <2> QED BY <2>1, <2>2
<1>2. After(2, two)
  <2>1. \A k \in 0 .. 2 : two[k] = IF k = 0 THEN s ELSE pop_data(two[k - 1])
    BY DEF pop2
  <2>2. two = [k \in 0 .. 2 |-> two[k]]
    OBVIOUS
  <2> HIDE DEF two
  <2> QED BY <2>1, <2>2
<1>3. After(1, CHOOSE g : After(1, g)) /\ After(2, CHOOSE g : After(2, g))
  <2> HIDE DEF After, one, two
  <2> QED BY <1>1, <1>2
<1>4. \A g : After(1, g) => g[1] = pop_data(s)
  <2> SUFFICES ASSUME NEW g, After(1, g) PROVE g[1] = pop_data(s)
    OBVIOUS
  <2>1. g[0] = s /\ g[1] = pop_data(g[0])
    <3>1. \A k \in 0 .. 1 : g[k] = IF k = 0 THEN s ELSE pop_data(g[k - 1])
      BY Zenon
    <3> HIDE DEF After
    <3> QED BY <3>1
  <2> QED BY <2>1
<1>5. \A g : After(2, g) => g[2] = pop2(s)
  <2> SUFFICES ASSUME NEW g, After(2, g) PROVE g[2] = pop2(s)
    OBVIOUS
  <2>1. g[0] = s /\ g[1] = pop_data(g[0]) /\ g[2] = pop_data(g[1])
    <3>1. \A k \in 0 .. 2 : g[k] = IF k = 0 THEN s ELSE pop_data(g[k - 1])
      BY Zenon
    <3> HIDE DEF After
    <3> QED BY <3>1
  <2> QED BY <2>1 DEF pop2
<1>6. (CHOOSE g : After(1, g))[1] = pop_data(s) /\ (CHOOSE g : After(2, g))[2] = pop2(s)
  <2> HIDE DEF After
  <2> QED BY <1>3, <1>4, <1>5
<1> QED BY <1>6, Zenon DEF drop_n

\* Duplicating a segment of two pushes its two items, the deeper one first.
LEMMA SegmentFacts ==
  ASSUME NEW s
  PROVE  dup_segment(s, 2) = push_data(push_data(windowed(s, 2), data_window(s, 2)[1]),
                                       data_window(s, 2)[2])
<1> DEFINE a == windowed(s, 2)
           b == push_data(a, data_window(s, 2)[1])
           c == push_data(b, data_window(s, 2)[2])
           After(g) == g = [k \in 0 .. 2 |-> IF k = 0 THEN windowed(s, 2)
                                             ELSE push_data(g[k - 1], data_window(s, 2)[k])]
           two == [k \in 0 .. 2 |-> IF k = 0 THEN a ELSE IF k = 1 THEN b ELSE c]
<1>1. After(two)
  <2>1. \A k \in 0 .. 2 : two[k] = IF k = 0 THEN windowed(s, 2)
                                   ELSE push_data(two[k - 1], data_window(s, 2)[k])
    OBVIOUS
  <2>2. two = [k \in 0 .. 2 |-> two[k]]
    OBVIOUS
  <2> HIDE DEF two
  <2> QED BY <2>1, <2>2
<1>2. After(CHOOSE g : After(g))
  <2> HIDE DEF After, two
  <2> QED BY <1>1
<1>3. \A g : After(g) => g[2] = c
  <2> SUFFICES ASSUME NEW g, After(g) PROVE g[2] = c
    OBVIOUS
  <2>1. \A k \in 0 .. 2 : g[k] = IF k = 0 THEN windowed(s, 2)
                                 ELSE push_data(g[k - 1], data_window(s, 2)[k])
    BY Zenon
  <2> HIDE DEF After
  <2> QED BY <2>1
<1>4. (CHOOSE g : After(g))[2] = c
  <2> HIDE DEF After, c
  <2> QED BY <1>2, <1>3
<1> QED BY <1>4, Zenon DEF dup_segment

\* A window of a stack that has it holds cells.
LEMMA WindowCells ==
  ASSUME NEW s \in Machine, NEW width \in Nat
  PROVE  /\ windowed(s, width) \in Machine
         /\ Running(windowed(s, width)) <=> Running(s) /\ s.dsp + width <= StackSize
         /\ Running(windowed(s, width)) => windowed(s, width) = s
         /\ Running(windowed(s, width)) => \A i \in 1 .. width : data_window(s, width)[i] \in Int
<1>1. /\ windowed(s, width) \in Machine
      /\ Running(windowed(s, width)) <=> Running(s) /\ s.dsp + width <= StackSize
      /\ Running(windowed(s, width)) => windowed(s, width) = s
  BY ErrorRaised DEF windowed, Require, Errors
<1>2. ASSUME Running(windowed(s, width)), NEW i \in 1 .. width
      PROVE  data_window(s, width)[i] \in Int
  <2>1. s.dsp + width - i \in 0 .. StackSize - 1
    BY <1>1, <1>2, MachineFields
  <2>2. s.data_stack[s.dsp + width - i] \in Cell
    BY <2>1, MachineFields
  <2> QED BY <2>2, ToCell DEF data_window
<1> QED BY <1>1, <1>2

\* What a window is replaced by depends on its items only, and leaves a machine.
LEMMA WindowAgrees ==
  ASSUME NEW s \in Machine, NEW width \in Nat, NEW v, NEW u,
         Running(windowed(s, width)) => \A i \in 1 .. width : v[i] \in Int /\ u[i] = v[i]
  PROVE  /\ replace_data_window(windowed(s, width), width, u)
              = replace_data_window(windowed(s, width), width, v)
         /\ replace_data_window(windowed(s, width), width, v) \in Machine
<1> DEFINE t == windowed(s, width)
<1>1. t \in Machine /\ (Running(t) => t = s)
  BY WindowCells
<1>2. CASE ~Running(t)
  <2>1. replace_data_window(t, width, u) = t /\ replace_data_window(t, width, v) = t
    BY <1>2, Stopped
  <2> QED BY <1>1, <2>1
<1>3. CASE Running(t)
  <2>1. windowed(t, width) = s /\ t = s
    BY <1>1, <1>3
  <2>2. replace_data_window(s, width, v) \in Machine
    BY <1>3, WindowType
  <2>3. \A i \in s.dsp .. s.dsp + width - 1 : width - (i - s.dsp) \in 1 .. width
    BY MachineFields
  <2>4. \A i \in s.dsp .. s.dsp + width - 1 : u[width - (i - s.dsp)] = v[width - (i - s.dsp)]
    BY <1>3, <2>3
  <2>5. DOMAIN s.data_stack = 0 .. StackSize - 1
    BY MachineFields
  <2>6. replace_data_window(s, width, u) = replace_data_window(s, width, v)
    BY <1>3, <2>1, <2>4 DEF replace_data_window
  <2> QED BY <2>1, <2>2, <2>6
<1> QED BY <1>2, <1>3

\* What is required of a stack before one of its items is read.
LEMMA PeekableFacts ==
  ASSUME NEW s \in Machine, NEW depth \in {0, 1}
  PROVE  /\ peekable(s, depth) \in Machine
         /\ Running(peekable(s, depth)) => peekable(s, depth) = s /\ peek_data(s, depth) \in Int
<1>1. /\ peekable(s, depth) \in Machine
      /\ Running(peekable(s, depth)) => peekable(s, depth) = s /\ s.dsp + depth < StackSize
  BY ErrorRaised DEF peekable, Require, Errors
<1> QED BY <1>1, PeekType

\* Machines that agree in every field are the same.
LEMMA SameMachine ==
  ASSUME NEW s \in Machine, NEW t \in Machine,
         s.dsp = t.dsp, s.rsp = t.rsp, s.data_stack = t.data_stack,
         s.return_stack = t.return_stack, s.memory = t.memory, s.err = t.err
  PROVE  s = t
<1>1. s = [dsp |-> s.dsp, rsp |-> s.rsp, data_stack |-> s.data_stack,
           return_stack |-> s.return_stack, memory |-> s.memory, err |-> s.err]
  BY DEF Machine
<1>2. t = [dsp |-> t.dsp, rsp |-> t.rsp, data_stack |-> t.data_stack,
           return_stack |-> t.return_stack, memory |-> t.memory, err |-> t.err]
  BY DEF Machine
<1> QED BY <1>1, <1>2, Zenon

\* What a push and a pop that succeed change.
LEMMA PushFields ==
  ASSUME NEW s \in Machine, NEW x \in Cell, Running(s), s.dsp > 0
  PROVE  \E t \in Machine :
           /\ t = push_data(s, x)
           /\ t.dsp = s.dsp - 1
           /\ t.data_stack = [s.data_stack EXCEPT ![s.dsp - 1] = x]
           /\ t.rsp = s.rsp /\ t.return_stack = s.return_stack
           /\ t.memory = s.memory /\ t.err = s.err
<1>1. x \in Int /\ to_cell(x) = x
  BY ToCell
<1>2. push_data(s, x) = [s EXCEPT !.dsp = s.dsp - 1,
                                  !.data_stack = [s.data_stack EXCEPT ![s.dsp - 1] = x]]
  BY <1>1 DEF push_data, Require, Machine
<1>3. PICK d : d = [s.data_stack EXCEPT ![s.dsp - 1] = x]
  OBVIOUS
<1>4. push_data(s, x) = [s EXCEPT !.dsp = s.dsp - 1, !.data_stack = d]
  BY <1>2, <1>3
<1>5. push_data(s, x) \in Machine
  BY <1>1, PushType
<1>6. /\ push_data(s, x).dsp = s.dsp - 1 /\ push_data(s, x).data_stack = d
      /\ push_data(s, x).rsp = s.rsp /\ push_data(s, x).return_stack = s.return_stack
      /\ push_data(s, x).memory = s.memory /\ push_data(s, x).err = s.err
  BY <1>4 DEF Machine
<1> QED BY <1>3, <1>5, <1>6

\* The same of a pop.
LEMMA PopFields ==
  ASSUME NEW s \in Machine, Running(s), s.dsp < StackSize
  PROVE  \E t \in Machine :
           /\ t = pop_data(s)
           /\ t.dsp = s.dsp + 1
           /\ t.data_stack = s.data_stack
           /\ t.rsp = s.rsp /\ t.return_stack = s.return_stack
           /\ t.memory = s.memory /\ t.err = s.err
<1>1. pop_data(s) \in Machine /\ pop_data(s) = [s EXCEPT !.dsp = s.dsp + 1]
  BY PopFacts
<1>2. LET t == [s EXCEPT !.dsp = s.dsp + 1]
      IN  /\ t.dsp = s.dsp + 1 /\ t.data_stack = s.data_stack
          /\ t.rsp = s.rsp /\ t.return_stack = s.return_stack
          /\ t.memory = s.memory /\ t.err = s.err
  BY DEF Machine
<1> QED BY <1>1, <1>2

\* The words that rearrange the stack agree with their kernels, SWAP apart.
LEMMA StackAgrees ==
  ASSUME NEW s \in Machine, NEW w \in StackWords \ {"SWAP"}
  PROVE  WordAgrees(w, s)
<1>1. RawWord(w, s) = raw_stack(w, s) /\ KernelWord(w, s) = kernel_stack(w, s)
  BY Families
<1>2. CASE w = "DROP"
  <2>1. raw_stack(w, s) = pop_data(s) /\ kernel_stack(w, s) = drop_n(s, 1)
    BY <1>2 DEF raw_stack, kernel_stack
  <2> QED BY <1>1, <2>1, DropFacts, PopFacts DEF WordAgrees
<1>3. CASE w = "2DROP"
  <2>1. raw_stack(w, s) = pop2(s) /\ kernel_stack(w, s) = drop_n(s, 2)
    BY <1>3 DEF raw_stack, kernel_stack
  <2> QED BY <1>1, <2>1, DropFacts, PopTwo DEF WordAgrees
<1>4. CASE w = "DUP"
  <2>1. raw_stack(w, s) = push_data(peekable(s, 0), top(s)) /\ kernel_stack(w, s) = dup_top(s)
    BY <1>4 DEF raw_stack, kernel_stack
  <2>2. dup_top(s) = push_data(peekable(s, 0), top(s))
    BY DEF dup_top, top
  <2>3. push_data(peekable(s, 0), top(s)) \in Machine
    BY PeekableFacts, PushType DEF top
  <2> QED BY <1>1, <2>1, <2>2, <2>3 DEF WordAgrees
<1>5. CASE w = "OVER"
  <2>1. raw_stack(w, s) = push_data(peekable(s, 1), second(s)) /\ kernel_stack(w, s) = copy_from_depth(s, 1)
    BY <1>5 DEF raw_stack, kernel_stack
  <2>2. copy_from_depth(s, 1) = push_data(peekable(s, 1), second(s))
    BY DEF copy_from_depth, second
  <2>3. push_data(peekable(s, 1), second(s)) \in Machine
    BY PeekableFacts, PushType DEF second
  <2> QED BY <1>1, <2>1, <2>2, <2>3 DEF WordAgrees
<1>6. CASE w = "?DUP"
  <2> DEFINE t == peekable(s, 0)
             r == IF Running(t) /\ peek_data(t, 0) # 0 THEN push_data(t, peek_data(t, 0)) ELSE t
  <2>1. raw_stack(w, s) = r /\ kernel_stack(w, s) = dup_top_if_nonzero(s)
    BY <1>6 DEF raw_stack, kernel_stack, top
  <2>2. dup_top_if_nonzero(s) = r
    BY DEF dup_top_if_nonzero
  <2>3. t \in Machine /\ (Running(t) => peek_data(t, 0) \in Int)
    BY PeekableFacts
  <2> HIDE DEF t
  <2>4. r \in Machine
    BY <2>3, PushType
  <2> HIDE DEF r
  <2> QED BY <1>1, <2>1, <2>2, <2>4 DEF WordAgrees
<1>7. CASE w = "2DUP"
  <2> DEFINE t == windowed(s, 2)
             r == push_data(push_data(t, second(s)), top(s))
  <2>1. raw_stack(w, s) = r /\ kernel_stack(w, s) = dup_segment(s, 2)
    BY <1>7 DEF raw_stack, kernel_stack
  <2>2. dup_segment(s, 2) = r
    BY SegmentFacts, WindowItems
  <2>3. t \in Machine /\ (Running(t) => top(s) \in Int /\ second(s) \in Int)
    BY WindowCells, TopType
  <2> HIDE DEF t
  <2>4. push_data(t, second(s)) \in Machine /\ (Running(push_data(t, second(s))) => Running(t))
    BY <2>3, PushType, Stopped
  <2>5. r \in Machine
    BY <2>3, <2>4, PushType
  <2> HIDE DEF r
  <2> QED BY <1>1, <2>1, <2>2, <2>5 DEF WordAgrees
<1>8. CASE w = "ROT"
  <2> DEFINE d == data_window(s, 3)
             v == <<d[2], d[3], d[1]>>
             u == [i \in 1 .. 3 |-> d[<<2, 3, 1>>[i]]]
             r == replace_data_window(windowed(s, 3), 3, v)
  <2>1. raw_stack(w, s) = r
    BY <1>8 DEF raw_stack, RawRotate
  <2>2. kernel_stack(w, s) = replace_data_window(windowed(s, 3), 3, u)
    BY <1>8 DEF kernel_stack, permute
  <2>3. Running(windowed(s, 3)) => \A i \in 1 .. 3 : d[i] \in Int
    BY WindowCells
  <2> HIDE DEF d
  <2>4. Running(windowed(s, 3)) => \A i \in 1 .. 3 : v[i] \in Int /\ u[i] = v[i]
    BY <2>3
  <2> HIDE DEF u, v
  <2>5. replace_data_window(windowed(s, 3), 3, u) = r /\ r \in Machine
    <3>1. PICK vv, uu : vv = v /\ uu = u
      OBVIOUS
    <3>2. PICK n \in Nat : n = 3
      OBVIOUS
    <3>3. Running(windowed(s, n)) => \A i \in 1 .. n : vv[i] \in Int /\ uu[i] = vv[i]
      BY <2>4, <3>1, <3>2
    <3>4. /\ replace_data_window(windowed(s, n), n, uu) = replace_data_window(windowed(s, n), n, vv)
          /\ replace_data_window(windowed(s, n), n, vv) \in Machine
      <4> HIDE MachineAssumption
      <4> QED BY <3>3, WindowAgrees
    <3> QED BY <3>1, <3>2, <3>4
  <2> HIDE DEF r
  <2> QED BY <1>1, <2>1, <2>2, <2>5 DEF WordAgrees
<1>9. CASE w = "-ROT"
  <2> DEFINE d == data_window(s, 3)
             v == <<d[3], d[1], d[2]>>
             u == [i \in 1 .. 3 |-> d[<<3, 1, 2>>[i]]]
             r == replace_data_window(windowed(s, 3), 3, v)
  <2>1. raw_stack(w, s) = r
    BY <1>9 DEF raw_stack, RawRotate
  <2>2. kernel_stack(w, s) = replace_data_window(windowed(s, 3), 3, u)
    BY <1>9 DEF kernel_stack, permute
  <2>3. Running(windowed(s, 3)) => \A i \in 1 .. 3 : d[i] \in Int
    BY WindowCells
  <2> HIDE DEF d
  <2>4. Running(windowed(s, 3)) => \A i \in 1 .. 3 : v[i] \in Int /\ u[i] = v[i]
    BY <2>3
  <2> HIDE DEF u, v
  <2>5. replace_data_window(windowed(s, 3), 3, u) = r /\ r \in Machine
    <3>1. PICK vv, uu : vv = v /\ uu = u
      OBVIOUS
    <3>2. PICK n \in Nat : n = 3
      OBVIOUS
    <3>3. Running(windowed(s, n)) => \A i \in 1 .. n : vv[i] \in Int /\ uu[i] = vv[i]
      BY <2>4, <3>1, <3>2
    <3>4. /\ replace_data_window(windowed(s, n), n, uu) = replace_data_window(windowed(s, n), n, vv)
          /\ replace_data_window(windowed(s, n), n, vv) \in Machine
      <4> HIDE MachineAssumption
      <4> QED BY <3>3, WindowAgrees
    <3> QED BY <3>1, <3>2, <3>4
  <2> HIDE DEF r
  <2> QED BY <1>1, <2>1, <2>2, <2>5 DEF WordAgrees
<1>10. CASE w = "2SWAP"
  <2> DEFINE d == data_window(s, 4)
             v == <<d[3], d[4], d[1], d[2]>>
             u == [i \in 1 .. 4 |-> d[<<3, 4, 1, 2>>[i]]]
             r == replace_data_window(windowed(s, 4), 4, v)
  <2>1. raw_stack(w, s) = r
    BY <1>10 DEF raw_stack
  <2>2. kernel_stack(w, s) = replace_data_window(windowed(s, 4), 4, u)
    BY <1>10 DEF kernel_stack, permute
  <2>3. Running(windowed(s, 4)) => \A i \in 1 .. 4 : d[i] \in Int
    BY WindowCells
  <2> HIDE DEF d
  <2>4. Running(windowed(s, 4)) => \A i \in 1 .. 4 : v[i] \in Int /\ u[i] = v[i]
    BY <2>3
  <2> HIDE DEF u, v
  <2>5. replace_data_window(windowed(s, 4), 4, u) = r /\ r \in Machine
    <3>1. PICK vv, uu : vv = v /\ uu = u
      OBVIOUS
    <3>2. PICK n \in Nat : n = 4
      OBVIOUS
    <3>3. Running(windowed(s, n)) => \A i \in 1 .. n : vv[i] \in Int /\ uu[i] = vv[i]
      BY <2>4, <3>1, <3>2
    <3>4. /\ replace_data_window(windowed(s, n), n, uu) = replace_data_window(windowed(s, n), n, vv)
          /\ replace_data_window(windowed(s, n), n, vv) \in Machine
      <4> HIDE MachineAssumption
      <4> QED BY <3>3, WindowAgrees
    <3> QED BY <3>1, <3>2, <3>4
  <2> HIDE DEF r
  <2> QED BY <1>1, <2>1, <2>2, <2>5 DEF WordAgrees
<1> QED BY <1>2, <1>3, <1>4, <1>5, <1>6, <1>7, <1>8, <1>9, <1>10 DEF StackWords

\* SWAP pops twice and pushes twice where its kernel rewrites a window.  Where
\* there are two items they leave the same machine; where there are not, both
\* have underflowed, and only the raw word has moved its pointer.
LEMMA SwapAgrees ==
  ASSUME NEW s \in Machine, Running(s)
  PROVE  /\ RawWord("SWAP", s) \in Machine /\ KernelWord("SWAP", s) \in Machine
         /\ RawWord("SWAP", s).err = KernelWord("SWAP", s).err
         /\ RawWord("SWAP", s).memory = KernelWord("SWAP", s).memory
         /\ Running(RawWord("SWAP", s)) => KernelWord("SWAP", s) = RawWord("SWAP", s)
<1> DEFINE d == data_window(s, 2)
           v == <<d[2], d[1]>>
           u == [i \in 1 .. 2 |-> d[<<2, 1>>[i]]]
           t == windowed(s, 2)
           p == pop2(s)
           raw_swap == push_data(push_data(p, top(s)), second(s))
           new == replace_data_window(t, 2, v)
<1>1. RawWord("SWAP", s) = raw_swap
  <2>1. RawWord("SWAP", s) = raw_stack("SWAP", s)
    BY Families DEF StackWords
  <2> QED BY <2>1 DEF raw_stack
<1>2. KernelWord("SWAP", s) = replace_data_window(t, 2, u)
  <2>1. KernelWord("SWAP", s) = kernel_stack("SWAP", s)
    BY Families DEF StackWords
  <2> QED BY <2>1 DEF kernel_stack, permute
<1>3. replace_data_window(t, 2, u) = new /\ new \in Machine
  <2>1. Running(t) => \A i \in 1 .. 2 : d[i] \in Int
    BY WindowCells
  <2> HIDE DEF d
  <2>2. Running(t) => \A i \in 1 .. 2 : v[i] \in Int /\ u[i] = v[i]
    BY <2>1
  <2> HIDE DEF u, v
  <2>3. PICK vv, uu : vv = v /\ uu = u
    OBVIOUS
  <2>4. PICK n \in Nat : n = 2
    OBVIOUS
  <2>5. Running(windowed(s, n)) => \A i \in 1 .. n : vv[i] \in Int /\ uu[i] = vv[i]
    BY <2>2, <2>3, <2>4
  <2>6. /\ replace_data_window(windowed(s, n), n, uu) = replace_data_window(windowed(s, n), n, vv)
        /\ replace_data_window(windowed(s, n), n, vv) \in Machine
    BY <2>5, WindowAgrees
  <2> QED BY <2>3, <2>4, <2>6
<1>4. s.dsp \in 0 .. StackSize
  BY MachineFields
<1>5. CASE s.dsp + 2 > StackSize
  <2>1. ~Running(t) /\ t = [s EXCEPT !.err = "StackUnderflow"]
    BY <1>4, <1>5 DEF windowed, Require, Running, Machine
  <2>2. p \in Machine /\ ~Running(p)
    BY <1>5, PopTwo, <1>4
  <2>3. p.err = "StackUnderflow" /\ p.memory = s.memory
    <3>1. CASE s.dsp = StackSize
      <4>1. pop_data(s) = [s EXCEPT !.err = "StackUnderflow"]
        BY <1>4, <3>1 DEF pop_data, peekable, Require, Running, Machine
      <4>2. pop_data(s).err = "StackUnderflow" /\ pop_data(s).memory = s.memory
        BY <4>1 DEF Machine
      <4>3. p = pop_data(s)
        BY <4>2, Stopped DEF pop2, Running
      <4> QED BY <4>2, <4>3
    <3>2. CASE s.dsp = StackSize - 1
      <4>1. PICK q \in Machine : q = pop_data(s)
        BY PopFacts
      <4>2. Running(q) /\ q = [s EXCEPT !.dsp = @ + 1]
        BY <3>2, <4>1, PopFacts
      <4>3. q.dsp = StackSize /\ q.memory = s.memory
        BY <3>2, <4>2 DEF Machine
      <4>4. pop_data(q) = [q EXCEPT !.err = "StackUnderflow"]
        BY <4>2, <4>3 DEF pop_data, peekable, Require, Running, Machine
      <4>5. [q EXCEPT !.err = "StackUnderflow"].err = "StackUnderflow"
            /\ [q EXCEPT !.err = "StackUnderflow"].memory = q.memory
        BY DEF Machine
      <4> QED BY <4>1, <4>3, <4>4, <4>5 DEF pop2
    <3> QED BY <1>4, <1>5, <3>1, <3>2
  <2>4. t.err = "StackUnderflow" /\ t.memory = s.memory
    BY <2>1 DEF Machine
  <2> HIDE DEF p, t
  <2>5. raw_swap = p
    BY <2>2, Stopped
  <2>6. new = t
    BY <2>1, Stopped
  <2> HIDE DEF raw_swap, new
  <2> QED BY <1>1, <1>2, <1>3, <2>2, <2>3, <2>4, <2>5, <2>6
<1>6. CASE s.dsp + 2 <= StackSize
  <2>1. t = s /\ top(s) \in Cell /\ second(s) \in Cell /\ top(s) \in Int /\ second(s) \in Int
        /\ d[2] = top(s) /\ d[1] = second(s)
    BY <1>6, WindowCells, TopType, WindowItems
  <2>2. PICK x \in Cell : x = top(s) /\ to_cell(x) = x
    BY <2>1, ToCell
  <2>3. PICK y \in Cell : y = second(s) /\ to_cell(y) = y
    BY <2>1, ToCell
  <2> DEFINE swapped == [s.data_stack EXCEPT ![s.dsp + 1] = x, ![s.dsp] = y]
  <2>4. raw_swap = [s EXCEPT !.data_stack = swapped]
    <3>1. s.dsp < StackSize /\ s.dsp + 1 < StackSize /\ s.dsp + 2 > 0 /\ s.dsp + 1 > 0
          /\ s.dsp + 1 + 1 = s.dsp + 2 /\ s.dsp + 2 - 1 = s.dsp + 1 /\ s.dsp + 1 - 1 = s.dsp
      BY <1>4, <1>6
    <3>2. PICK q \in Machine :
            /\ q = pop_data(s) /\ q.dsp = s.dsp + 1 /\ q.data_stack = s.data_stack
            /\ q.rsp = s.rsp /\ q.return_stack = s.return_stack
            /\ q.memory = s.memory /\ q.err = s.err
      BY <3>1, PopFields
    <3>3. PICK z \in Machine :
            /\ z = pop_data(q) /\ z.dsp = s.dsp + 2 /\ z.data_stack = s.data_stack
            /\ z.rsp = s.rsp /\ z.return_stack = s.return_stack
            /\ z.memory = s.memory /\ z.err = s.err
      <4>1. Running(q) /\ q.dsp < StackSize
        BY <3>1, <3>2 DEF Running
      <4> QED BY <3>1, <3>2, <4>1, PopFields
    <3>4. p = z
      BY <3>2, <3>3 DEF pop2
    <3>5. PICK a \in Machine :
            /\ a = push_data(z, x) /\ a.dsp = s.dsp + 1
            /\ a.data_stack = [s.data_stack EXCEPT ![s.dsp + 1] = x]
            /\ a.rsp = s.rsp /\ a.return_stack = s.return_stack
            /\ a.memory = s.memory /\ a.err = s.err
      <4>1. Running(z) /\ z.dsp > 0
        BY <3>1, <3>3 DEF Running
      <4>2. z.dsp - 1 = s.dsp + 1
        BY <1>4, <3>3
      <4> HIDE DEF swapped
      <4>3. PICK a \in Machine :
              /\ a = push_data(z, x) /\ a.dsp = z.dsp - 1
              /\ a.data_stack = [z.data_stack EXCEPT ![z.dsp - 1] = x]
              /\ a.rsp = z.rsp /\ a.return_stack = z.return_stack
              /\ a.memory = z.memory /\ a.err = z.err
        BY <4>1, PushFields
      <4> QED BY <3>3, <4>2, <4>3
    <3>6. PICK c \in Machine :
            /\ c = push_data(a, y) /\ c.dsp = s.dsp
            /\ c.data_stack = [a.data_stack EXCEPT ![s.dsp] = y]
            /\ c.rsp = s.rsp /\ c.return_stack = s.return_stack
            /\ c.memory = s.memory /\ c.err = s.err
      <4>1. Running(a) /\ a.dsp > 0
        BY <3>1, <3>5 DEF Running
      <4>2. a.dsp - 1 = s.dsp
        BY <1>4, <3>5
      <4> HIDE DEF swapped
      <4>3. PICK c \in Machine :
              /\ c = push_data(a, y) /\ c.dsp = a.dsp - 1
              /\ c.data_stack = [a.data_stack EXCEPT ![a.dsp - 1] = y]
              /\ c.rsp = a.rsp /\ c.return_stack = a.return_stack
              /\ c.memory = a.memory /\ c.err = a.err
        BY <4>1, PushFields
      <4> QED BY <3>5, <4>2, <4>3
    <3>7. raw_swap = c
      BY <2>2, <2>3, <3>4, <3>5, <3>6
    <3>8. c.data_stack = swapped
      BY <3>5, <3>6
    <3>9. swapped \in [0 .. StackSize - 1 -> Cell]
      BY <3>6, <3>8, MachineFields
    <3> HIDE DEF swapped
    <3>10. PICK m \in Machine : m = [s EXCEPT !.data_stack = swapped]
      BY <3>9, StackReplaced
    <3>11. /\ m.dsp = s.dsp /\ m.rsp = s.rsp /\ m.data_stack = swapped
           /\ m.return_stack = s.return_stack /\ m.memory = s.memory /\ m.err = s.err
      BY <3>10 DEF Machine
    <3>12. c = m
      BY <3>6, <3>8, <3>11, SameMachine
    <3> QED BY <3>7, <3>10, <3>12
  <2>5. new = [s EXCEPT !.data_stack = swapped]
    <3>1. windowed(s, 2) = s /\ DOMAIN s.data_stack = 0 .. StackSize - 1
      BY <2>1, MachineFields
    <3> DEFINE rewritten == [i \in 0 .. StackSize - 1 |-> IF i \in s.dsp .. s.dsp + 2 - 1
                                                         THEN to_cell(v[2 - (i - s.dsp)])
                                                         ELSE s.data_stack[i]]
    <3>2. new = [s EXCEPT !.data_stack = rewritten]
      BY <2>1, <3>1 DEF replace_data_window
    <3>3. v[2 - (s.dsp - s.dsp)] = y /\ v[2 - (s.dsp + 1 - s.dsp)] = x
      <4>1. 2 - (s.dsp - s.dsp) = 2 /\ 2 - (s.dsp + 1 - s.dsp) = 1
        BY <1>4
      <4>2. v[1] = x /\ v[2] = y
        BY <2>1, <2>2, <2>3
      <4> HIDE DEF v
      <4> QED BY <4>1, <4>2
    <3> HIDE DEF v
    <3>4. \A i \in 0 .. StackSize - 1 : rewritten[i] = swapped[i]
      <4>1. SUFFICES ASSUME NEW i \in 0 .. StackSize - 1 PROVE rewritten[i] = swapped[i]
        OBVIOUS
      <4>2. swapped[i] = IF i = s.dsp THEN y ELSE IF i = s.dsp + 1 THEN x ELSE s.data_stack[i]
        BY <1>4, <3>1
      <4>3. rewritten[i] = IF i \in s.dsp .. s.dsp + 2 - 1 THEN to_cell(v[2 - (i - s.dsp)])
                           ELSE s.data_stack[i]
        OBVIOUS
      <4> HIDE DEF rewritten, swapped
      <4>4. i \in s.dsp .. s.dsp + 2 - 1 <=> i = s.dsp \/ i = s.dsp + 1
        BY <1>4
      <4>5. s.dsp # s.dsp + 1
        BY <1>4
      <4>6. CASE i = s.dsp
        BY <2>3, <3>3, <4>2, <4>3, <4>4, <4>6
      <4>7. CASE i = s.dsp + 1
        <5>1. i \in s.dsp .. s.dsp + 2 - 1 /\ i # s.dsp
          BY <4>4, <4>5, <4>7
        <5>2. rewritten[i] = to_cell(v[2 - (s.dsp + 1 - s.dsp)])
          <6>1. i - s.dsp = s.dsp + 1 - s.dsp
            BY <1>4, <4>7
          <6> QED BY <4>3, <5>1, <6>1, Zenon
        <5>3. swapped[i] = x
          BY <4>2, <4>7, <5>1, Zenon
        <5> QED BY <2>2, <3>3, <5>2, <5>3, Zenon
      <4>8. CASE i # s.dsp /\ i # s.dsp + 1
        <5>1. ~(i \in s.dsp .. s.dsp + 2 - 1)
          BY <4>4, <4>8
        <5>2. rewritten[i] = s.data_stack[i]
          BY <4>3, <5>1, Zenon
        <5> QED BY <4>2, <4>8, <5>2, Zenon
      <4> QED BY <4>6, <4>7, <4>8
    <3>5. rewritten = swapped
      <4>1. swapped = [i \in 0 .. StackSize - 1 |-> swapped[i]]
        BY <3>1
      <4>2. rewritten = [i \in 0 .. StackSize - 1 |-> rewritten[i]]
        OBVIOUS
      <4> HIDE DEF rewritten, swapped
      <4> QED BY <3>4, <4>1, <4>2
    <3> QED BY <3>2, <3>5
  <2> HIDE DEF raw_swap, new, swapped
  <2> QED BY <1>1, <1>2, <1>3, <2>4, <2>5
<1> QED BY <1>4, <1>5, <1>6

\* What a scenario pushes, on the stack named.
Pushes(stack, s, value) == IF stack = "data" THEN push_data(s, value) ELSE push_return(s, value)

\* g takes k to the machine after the first k values are pushed, of n.
Seeding(stack, s, values, n, g) ==
  g = [k \in 0 .. n |-> IF k = 0 THEN s ELSE Pushes(stack, g[k - 1], values[k])]

\* The function that a scenario's seeding is computed by (Seeded) exists.
LEMMA SeedingExists ==
  ASSUME NEW stack, NEW s, NEW values
  PROVE  \A n \in Nat : \E g : Seeding(stack, s, values, n, g)
<1> DEFINE N == {n \in Nat : \E g : Seeding(stack, s, values, n, g)}
<1>1. 0 \in N
  <2> DEFINE g == [k \in 0 .. 0 |-> s]
  <2>1. g = [k \in 0 .. 0 |-> IF k = 0 THEN s ELSE Pushes(stack, g[k - 1], values[k])]
    OBVIOUS
  <2> HIDE DEF g
  <2>2. Seeding(stack, s, values, 0, g)
    BY <2>1, Zenon DEF Seeding
  <2> QED BY <2>2
<1>2. ASSUME NEW n \in Nat, n \in N PROVE n + 1 \in N
  <2>1. PICK h : Seeding(stack, s, values, n, h)
    BY <1>2
  <2>2. \A k \in 0 .. n : h[k] = IF k = 0 THEN s ELSE Pushes(stack, h[k - 1], values[k])
    <3>1. h = [k \in 0 .. n |-> IF k = 0 THEN s ELSE Pushes(stack, h[k - 1], values[k])]
      BY <2>1 DEF Seeding
    <3> QED BY <3>1, Zenon
  <2> DEFINE g == [k \in 0 .. n + 1 |-> IF k = n + 1 THEN Pushes(stack, h[n], values[n + 1])
                                        ELSE h[k]]
  <2>3. g[n + 1] = Pushes(stack, h[n], values[n + 1]) /\ \A k \in 0 .. n : g[k] = h[k]
    OBVIOUS
  <2>4. g = [k \in 0 .. n + 1 |-> g[k]]
    OBVIOUS
  <2> HIDE DEF g
  <2>5. \A k \in 0 .. n + 1 : g[k] = IF k = 0 THEN s ELSE Pushes(stack, g[k - 1], values[k])
    <3> SUFFICES ASSUME NEW k \in 0 .. n + 1
                 PROVE  g[k] = IF k = 0 THEN s ELSE Pushes(stack, g[k - 1], values[k])
      OBVIOUS
    <3>1. CASE k = 0
      BY <2>2, <2>3, <3>1
    <3>2. CASE k = n + 1
      <4>1. k # 0 /\ k - 1 = n /\ n \in 0 .. n
        BY <3>2
      <4> QED BY <2>3, <3>2, <4>1
    <3>3. CASE k \in 1 .. n
      <4>1. k # 0 /\ k \in 0 .. n /\ k - 1 \in 0 .. n
        BY <3>3
      <4> QED BY <2>2, <2>3, <4>1
    <3> QED BY <3>1, <3>2, <3>3
  <2>6. Seeding(stack, s, values, n + 1, g)
    BY <2>4, <2>5 DEF Seeding
  <2>7. n + 1 \in Nat
    OBVIOUS
  <2> QED BY <2>6, <2>7
<1> HIDE DEF N
<1>3. Nat \subseteq N
  BY <1>1, <1>2, NatSetInduction
<1> QED BY <1>3 DEF N

\* The machines that words may start from: seeding raises nothing but an overflow.
Seedlings == {s \in Machine : s.err \in {"none", "StackOverflow"}}

\* A push leaves such a machine.
LEMMA PushSeeds ==
  ASSUME NEW s \in Seedlings, NEW v \in Int
  PROVE  push_data(s, v) \in Seedlings /\ push_return(s, v) \in Seedlings
<1>1. s \in Machine /\ s.err \in {"none", "StackOverflow"}
  BY DEF Seedlings
<1>2. push_data(s, v) \in Machine /\ push_return(s, v) \in Machine
  BY <1>1, PushType, PushReturnType
<1>3. push_data(s, v).err \in {"none", "StackOverflow"}
  BY <1>1 DEF push_data, Require, Machine, Running
<1>4. push_return(s, v).err \in {"none", "StackOverflow"}
  BY <1>1 DEF push_return, Require, Machine, Running
<1> QED BY <1>2, <1>3, <1>4 DEF Seedlings

\* Whatever a scenario pushes leaves such a machine.
LEMMA SeedingType ==
  ASSUME NEW stack, NEW s \in Seedlings, NEW values \in Seq(Int), NEW g,
         Seeding(stack, s, values, Len(values), g)
  PROVE  g[Len(values)] \in Seedlings
<1> DEFINE N == {n \in Nat : n <= Len(values) => g[n] \in Seedlings}
<1>1. Len(values) \in Nat /\ \A k \in 1 .. Len(values) : values[k] \in Int
  OBVIOUS
<1>2. \A k \in 0 .. Len(values) : g[k] = IF k = 0 THEN s ELSE Pushes(stack, g[k - 1], values[k])
  <2>1. g = [k \in 0 .. Len(values) |-> IF k = 0 THEN s ELSE Pushes(stack, g[k - 1], values[k])]
    BY DEF Seeding
  <2> QED BY <2>1, Zenon
<1>3. 0 \in N
  <2>1. 0 \in 0 .. Len(values)
    BY <1>1
  <2>2. g[0] = s
    BY <1>2, <2>1
  <2> QED BY <2>2
<1>4. ASSUME NEW n \in Nat, n \in N PROVE n + 1 \in N
  <2> SUFFICES ASSUME n + 1 <= Len(values) PROVE g[n + 1] \in Seedlings
    OBVIOUS
  <2>1. n + 1 \in 0 .. Len(values) /\ n + 1 \in 1 .. Len(values) /\ n + 1 # 0 /\ n + 1 - 1 = n
    BY <1>1
  <2>2. g[n] \in Seedlings
    BY <1>1, <1>4
  <2>3. values[n + 1] \in Int
    BY <1>1, <2>1
  <2>4. g[n + 1] = Pushes(stack, g[n], values[n + 1])
    BY <1>2, <2>1
  <2> HIDE DEF N
  <2>5. push_data(g[n], values[n + 1]) \in Seedlings /\ push_return(g[n], values[n + 1]) \in Seedlings
    BY <2>2, <2>3, PushSeeds
  <2> QED BY <2>4, <2>5 DEF Pushes
<1> HIDE DEF N
<1>5. Nat \subseteq N
  BY <1>3, <1>4, NatSetInduction
<1>6. Len(values) <= Len(values)
  BY <1>1
<1> QED BY <1>1, <1>5, <1>6 DEF N

\* The machine that scenarios start from.
LEMMA StartType == MachineState \in Machine
<1>1. 0 \in Cell
  BY CellFacts
<1>2. 0 \in 0 .. ByteMod - 1
  BY PowerOfTwo DEF ByteMod
<1> QED BY <1>1, <1>2 DEF MachineState, Machine, Errors

\* A seeded machine is one of them.
LEMMA SeededType ==
  ASSUME NEW values \in Seq(Int), NEW returns \in Seq(Int)
  PROVE  Seeded(values, returns) \in Seedlings
<1> DEFINE s == [MachineState EXCEPT !.memory = SeedMemory]
           Data(g) == g = [k \in 0 .. Len(values) |->
                             IF k = 0 THEN s ELSE push_data(g[k - 1], values[k])]
           t == (CHOOSE g : Data(g))[Len(values)]
           Ret(g) == g = [k \in 0 .. Len(returns) |->
                            IF k = 0 THEN t ELSE push_return(g[k - 1], returns[k])]
<1>1. s \in Seedlings
  <2>1. s \in Machine
    BY SeedAssumption, StartType, MemoryReplaced
  <2>2. s.err = "none"
    BY DEF MachineState
  <2> QED BY <2>1, <2>2 DEF Seedlings
<1>2. \A g : Data(g) <=> Seeding("data", s, values, Len(values), g)
  BY DEF Seeding, Pushes
<1>3. \A g : Ret(g) <=> Seeding("return", t, returns, Len(returns), g)
  BY DEF Seeding, Pushes
<1>4. Len(values) \in Nat /\ Len(returns) \in Nat
  OBVIOUS
<1> HIDE DEF s
<1>5. t \in Seedlings
  <2>1. Data(CHOOSE g : Data(g))
    <3>1. \E g : Data(g)
      BY <1>2, <1>4, SeedingExists
    <3> HIDE DEF Data
    <3> QED BY <3>1
  <2> DEFINE d == CHOOSE g : Data(g)
  <2>2. Seeding("data", s, values, Len(values), d)
    BY <1>2, <2>1
  <2> HIDE DEF d
  <2>3. d[Len(values)] \in Seedlings
    BY <1>1, <2>2, SeedingType
  <2> QED BY <2>3 DEF d
<1> HIDE DEF t
<1>6. (CHOOSE g : Ret(g))[Len(returns)] \in Seedlings
  <2>1. Ret(CHOOSE g : Ret(g))
    <3>1. \E g : Ret(g)
      BY <1>3, <1>4, SeedingExists
    <3> HIDE DEF Ret
    <3> QED BY <3>1
  <2> DEFINE d == CHOOSE g : Ret(g)
  <2>2. Seeding("return", t, returns, Len(returns), d)
    BY <1>3, <2>1
  <2> HIDE DEF d
  <2>3. d[Len(returns)] \in Seedlings
    BY <1>5, <2>2, SeedingType
  <2> QED BY <2>3 DEF d
<1> QED BY <1>6, Zenon DEF Seeded, s, t

\* Every word, run on one machine by both variants, agrees: the machines both
\* leave are machines, with the same exception and memory, and the same
\* altogether while nothing is raised.
LEMMA WordsAgree ==
  ASSUME NEW s \in Machine, Running(s), NEW w \in Words
  PROVE  /\ RawWord(w, s) \in Machine /\ KernelWord(w, s) \in Machine
         /\ RawWord(w, s).err = KernelWord(w, s).err
         /\ RawWord(w, s).memory = KernelWord(w, s).memory
         /\ Running(RawWord(w, s)) => RawWord(w, s) = KernelWord(w, s)
<1>1. CASE w = "SWAP"
  BY <1>1, SwapAgrees
<1>2. CASE w # "SWAP"
  <2>1. WordAgrees(w, s)
    <3>1. w \in (StackWords \ {"SWAP"}) \cup ArithmeticWords \cup ComparisonWords \cup ZeroTests
                  \cup BitwiseWords \cup MemoryWords \cup ReturnWords
      BY <1>2 DEF Words
    <3> QED BY <3>1, StackAgrees, ArithmeticAgrees, ComparisonAgrees, ZeroTestAgrees,
               BitwiseAgrees, MemoryAgrees, ReturnAgrees
  <2> QED BY <2>1 DEF WordAgrees
<1> QED BY <1>1, <1>2

\* The inductive invariant: the two variants agree, on machines.
KernelInv == TypeOK /\ VariantsAgree

\* Both machines are seeded alike.
LEMMA KernelInvInit == Init => KernelInv
<1> SUFFICES ASSUME Init PROVE KernelInv
  OBVIOUS
<1>1. PICK values \in DataSeeds, returns \in ReturnSeeds : raw = Seeded(values, returns)
  BY DEF Init
<1>2. values \in Seq(Int) /\ returns \in Seq(Int)
  BY SeedAssumption
<1>3. raw \in Machine
  BY <1>1, <1>2, SeededType DEF Seedlings
<1>4. kernel = raw /\ word = "none" /\ count = 0
  BY DEF Init
<1>5. count \in 0 .. MaxWords
  BY <1>4, SeedAssumption
<1> QED BY <1>3, <1>4, <1>5 DEF KernelInv, TypeOK, VariantsAgree

\* A word runs only while both machines run, so from one and the same machine.
LEMMA KernelInvNext == KernelInv /\ [Next]_vars => KernelInv'
<1> SUFFICES ASSUME KernelInv, [Next]_vars PROVE KernelInv'
  OBVIOUS
<1>1. CASE Next
  <2>1. PICK w \in Words : Execute(w)
    BY <1>1 DEF Next
  <2>2. raw \in Machine /\ Running(raw) /\ kernel = raw /\ count \in 0 .. MaxWords
    BY <2>1 DEF KernelInv, TypeOK, VariantsAgree, Execute
  <2>3. raw' = RawWord(w, raw) /\ kernel' = KernelWord(w, raw)
    BY <2>1, <2>2 DEF Execute
  <2>4. /\ raw' \in Machine /\ kernel' \in Machine
        /\ raw'.err = kernel'.err /\ raw'.memory = kernel'.memory
        /\ Running(raw') => raw' = kernel'
    BY <2>2, <2>3, WordsAgree
  <2>5. word' \in Words \cup {"none"} /\ count' \in 0 .. MaxWords
    <3>1. word' = w /\ count' = count + 1 /\ count < MaxWords
      BY <2>1 DEF Execute
    <3> QED BY <2>2, <3>1, SeedAssumption
  <2>6. Running(raw)' => (raw = kernel)'
    BY <2>4 DEF Running
  <2> QED BY <2>4, <2>5, <2>6 DEF KernelInv, TypeOK, VariantsAgree
<1>2. CASE UNCHANGED vars
  BY <1>2 DEF KernelInv, TypeOK, VariantsAgree, vars, Running
<1> QED BY <1>1, <1>2

\* The invariant holds throughout.
LEMMA KernelInvCorrect == Spec => []KernelInv
BY KernelInvInit, KernelInvNext, PTL DEF Spec

\* Whatever is seeded and whatever words run, overflowing, underflowing and
\* out of memory included, both variants keep their machines well-formed.
THEOREM TypeCorrect == Spec => []TypeOK
<1>1. KernelInv => TypeOK
  BY DEF KernelInv
<1> QED BY <1>1, KernelInvCorrect, PTL

\* The words built from the shared kernels are the raw words: for every size of
\* the stacks, the memory and the cell, they raise the same exception at the
\* same word and store the same bytes, and leave the same machine until then.
THEOREM VariantsCorrect == Spec => []VariantsAgree
<1>1. KernelInv => VariantsAgree
  BY DEF KernelInv
<1> QED BY <1>1, KernelInvCorrect, PTL

(***************************************************************************)
(* The words implement their effects (StackEffects): what a word does to a *)
(* machine, seen as two sequences of items and the bytes, is what its      *)
(* docstring states.  The stacks' items, and what Succeed and Fail say of  *)
(* a step, come first; then what each operation does to the items; then    *)
(* the words, family by family.                                            *)
(***************************************************************************)
\* The items of a machine's stacks, top last.
DataItems(s) == Items(s.data_stack, s.dsp)
ReturnItems(s) == Items(s.return_stack, s.rsp)

\* The exception a word raises on a machine.
FailureOf(w, s) == RawEffects!Failure(w, DataItems(s), ReturnItems(s), s.memory)

\* What Succeed and Fail say of a step from s to t.
Effects(w, s, t) ==
  /\ t.err = FailureOf(w, s)
  /\ IF t.err = "none"
     THEN RawEffects!Becomes(w, DataItems(s), ReturnItems(s), s.memory,
                                DataItems(t), ReturnItems(t), t.memory)
     ELSE RawEffects!Remains(DataItems(s), ReturnItems(s), s.memory,
                             DataItems(t), ReturnItems(t), t.memory)

\* The arithmetic of the effects is the machine's.
LEMMA RawArithmetic ==
  /\ RawEffects!CellMod = CellMod /\ RawEffects!ByteMod = ByteMod /\ RawEffects!Cell = Cell
  /\ \A v : RawEffects!to_u32(v) = to_u32(v) /\ RawEffects!to_cell(v) = to_cell(v) /\ RawEffects!abs(v) = abs(v)
  /\ \A a, b : /\ RawEffects!bit_and(a, b) = bit_and(a, b)
               /\ RawEffects!bit_or(a, b) = bit_or(a, b)
               /\ RawEffects!bit_xor(a, b) = bit_xor(a, b)
<1>1. RawEffects!CellMod = CellMod /\ RawEffects!ByteMod = ByteMod /\ RawEffects!CellBits = CellBits
  BY Zenon DEF RawEffects!CellMod, CellMod, RawEffects!ByteMod, ByteMod, RawEffects!CellBits, CellBits
<1>2. RawEffects!Cell = Cell
  BY <1>1, Zenon DEF RawEffects!Cell, Cell
<1>3. \A v : RawEffects!to_u32(v) = to_u32(v) /\ RawEffects!abs(v) = abs(v)
  BY <1>1, Zenon DEF RawEffects!to_u32, to_u32, RawEffects!abs, abs
<1>4. \A v : RawEffects!to_cell(v) = to_cell(v)
  BY <1>1, <1>3, Zenon DEF RawEffects!to_cell, to_cell
<1>5. \A v : RawEffects!BitsOf(v) = BitsOf(v)
  BY <1>1, Zenon DEF RawEffects!BitsOf, BitsOf
<1>6. \A b : RawEffects!FromBits(b) = FromBits(b)
  BY Zenon DEF RawEffects!FromBits, FromBits, RawEffects!MapThenSumSet, MapThenSumSet,
     RawEffects!MapThenFoldSet, MapThenFoldSet
<1>7. \A a, b : /\ RawEffects!bit_and(a, b) = bit_and(a, b)
                /\ RawEffects!bit_or(a, b) = bit_or(a, b)
                /\ RawEffects!bit_xor(a, b) = bit_xor(a, b)
  BY <1>5, <1>6, Zenon DEF RawEffects!bit_and, bit_and, RawEffects!bit_or, bit_or, RawEffects!bit_xor, bit_xor
<1> QED BY <1>1, <1>2, <1>3, <1>4, <1>7


\* Likewise in the effects of the kernelized words.
LEMMA KernelArithmetic ==
  /\ KernelEffects!CellMod = CellMod /\ KernelEffects!ByteMod = ByteMod /\ KernelEffects!Cell = Cell
  /\ \A v : KernelEffects!to_u32(v) = to_u32(v) /\ KernelEffects!to_cell(v) = to_cell(v) /\ KernelEffects!abs(v) = abs(v)
  /\ \A a, b : /\ KernelEffects!bit_and(a, b) = bit_and(a, b)
               /\ KernelEffects!bit_or(a, b) = bit_or(a, b)
               /\ KernelEffects!bit_xor(a, b) = bit_xor(a, b)
<1>1. KernelEffects!CellMod = CellMod /\ KernelEffects!ByteMod = ByteMod /\ KernelEffects!CellBits = CellBits
  BY Zenon DEF KernelEffects!CellMod, CellMod, KernelEffects!ByteMod, ByteMod, KernelEffects!CellBits, CellBits
<1>2. KernelEffects!Cell = Cell
  BY <1>1, Zenon DEF KernelEffects!Cell, Cell
<1>3. \A v : KernelEffects!to_u32(v) = to_u32(v) /\ KernelEffects!abs(v) = abs(v)
  BY <1>1, Zenon DEF KernelEffects!to_u32, to_u32, KernelEffects!abs, abs
<1>4. \A v : KernelEffects!to_cell(v) = to_cell(v)
  BY <1>1, <1>3, Zenon DEF KernelEffects!to_cell, to_cell
<1>5. \A v : KernelEffects!BitsOf(v) = BitsOf(v)
  BY <1>1, Zenon DEF KernelEffects!BitsOf, BitsOf
<1>6. \A b : KernelEffects!FromBits(b) = FromBits(b)
  BY Zenon DEF KernelEffects!FromBits, FromBits, KernelEffects!MapThenSumSet, MapThenSumSet,
     KernelEffects!MapThenFoldSet, MapThenFoldSet
<1>7. \A a, b : /\ KernelEffects!bit_and(a, b) = bit_and(a, b)
                /\ KernelEffects!bit_or(a, b) = bit_or(a, b)
                /\ KernelEffects!bit_xor(a, b) = bit_xor(a, b)
  BY <1>5, <1>6, Zenon DEF KernelEffects!bit_and, bit_and, KernelEffects!bit_or, bit_or, KernelEffects!bit_xor, bit_xor
<1> QED BY <1>1, <1>2, <1>3, <1>4, <1>7



\* The effects of the raw and of the kernelized words are the same.
LEMMA SameEffects ==
  ASSUME NEW w, NEW d, NEW r, NEW m, NEW dd, NEW rr, NEW mm
  PROVE  /\ RawEffects!Failure(w, d, r, m) = KernelEffects!Failure(w, d, r, m)
         /\ RawEffects!Becomes(w, d, r, m, dd, rr, mm) <=> KernelEffects!Becomes(w, d, r, m, dd, rr, mm)
         /\ RawEffects!Remains(d, r, m, dd, rr, mm) <=> KernelEffects!Remains(d, r, m, dd, rr, mm)
<1>1. RawEffects!Takes(w) = KernelEffects!Takes(w)
  BY Zenon DEF RawEffects!Takes, KernelEffects!Takes
<1>a. /\ RawEffects!CellMod = KernelEffects!CellMod /\ RawEffects!ByteMod = KernelEffects!ByteMod
      /\ RawEffects!Cell = KernelEffects!Cell
      /\ \A v : /\ RawEffects!to_u32(v) = KernelEffects!to_u32(v)
                /\ RawEffects!to_cell(v) = KernelEffects!to_cell(v)
                /\ RawEffects!abs(v) = KernelEffects!abs(v)
      /\ \A a, b : /\ RawEffects!bit_and(a, b) = KernelEffects!bit_and(a, b)
                   /\ RawEffects!bit_or(a, b) = KernelEffects!bit_or(a, b)
                   /\ RawEffects!bit_xor(a, b) = KernelEffects!bit_xor(a, b)
  BY RawArithmetic, KernelArithmetic, Zenon
<1>b. \A a, v : /\ RawEffects!CellAt(m, a) = KernelEffects!CellAt(m, a)
                /\ RawEffects!CellStored(m, a, v) = KernelEffects!CellStored(m, a, v)
  BY <1>a, Zenon DEF RawEffects!CellAt, KernelEffects!CellAt, RawEffects!CellStored, KernelEffects!CellStored
<1>c. \A y, x : RawEffects!Quotient(y, x) = KernelEffects!Quotient(y, x)
  BY <1>a, Zenon DEF RawEffects!Quotient, KernelEffects!Quotient
<1>2. RawEffects!Gives(w, d, r, m) = KernelEffects!Gives(w, d, r, m)
  BY <1>a, <1>b, <1>c DEF RawEffects!Gives, KernelEffects!Gives,
     RawEffects!bool_cell, KernelEffects!bool_cell
<1>3. RawEffects!Stored(w, d, m) = KernelEffects!Stored(w, d, m)
  BY <1>a, <1>b, Zenon DEF RawEffects!Stored, KernelEffects!Stored
<1>4. RawEffects!Blocks(w, d) = KernelEffects!Blocks(w, d)
  BY Zenon DEF RawEffects!Blocks, KernelEffects!Blocks
<1>5. \A b : RawEffects!Outside(b) = KernelEffects!Outside(b)
  BY Zenon DEF RawEffects!Outside, KernelEffects!Outside
<1>6. \A a, b, n : RawEffects!Exposed(a, b, n) = KernelEffects!Exposed(a, b, n)
  BY Zenon DEF RawEffects!Exposed, KernelEffects!Exposed
<1>d. \A a, b : RawEffects!Front(a) = KernelEffects!Front(a) /\ (RawEffects!IsPrefix(a, b) <=> KernelEffects!IsPrefix(a, b))
  BY Zenon DEF RawEffects!Front, KernelEffects!Front, RawEffects!IsPrefix, KernelEffects!IsPrefix
<1>7. RawEffects!Failure(w, d, r, m) = KernelEffects!Failure(w, d, r, m)
  BY <1>1, <1>2, <1>4, <1>5, Zenon DEF RawEffects!Failure, KernelEffects!Failure
<1>8. RawEffects!Becomes(w, d, r, m, dd, rr, mm) <=> KernelEffects!Becomes(w, d, r, m, dd, rr, mm)
  BY <1>1, <1>2, <1>3, <1>6, <1>d, Zenon DEF RawEffects!Becomes, KernelEffects!Becomes
<1>9. RawEffects!Remains(d, r, m, dd, rr, mm) <=> KernelEffects!Remains(d, r, m, dd, rr, mm)
  BY <1>d, Zenon DEF RawEffects!Remains, KernelEffects!Remains
<1> QED BY <1>7, <1>8, <1>9

\* A step of the raw machine with a word's effects is a step of that word.
LEMMA RawStep ==
  ASSUME Running(raw), NEW w, Effects(w, raw, raw')
  PROVE  RawEffects!Succeed(w) \/ RawEffects!Fail(w)
<1>1. Effects(w, raw, raw') <=>
  /\ raw'.err = FailureOf(w, raw)
  /\ IF raw'.err = "none"
     THEN RawEffects!Becomes(w, DataItems(raw), ReturnItems(raw), raw.memory,
                                DataItems(raw'), ReturnItems(raw'), raw'.memory)
     ELSE RawEffects!Remains(DataItems(raw), ReturnItems(raw), raw.memory,
                             DataItems(raw'), ReturnItems(raw'), raw'.memory)
  BY Zenon DEF Effects
<1> QED BY <1>1, Zenon DEF FailureOf, DataItems, ReturnItems, Running, RawEffects!Succeed, RawEffects!Fail

\* So is one of the kernel's.
LEMMA KernelStep ==
  ASSUME Running(kernel), NEW w, Effects(w, kernel, kernel')
  PROVE  KernelEffects!Succeed(w) \/ KernelEffects!Fail(w)
<1>1. Effects(w, kernel, kernel') <=>
  /\ kernel'.err = FailureOf(w, kernel)
  /\ IF kernel'.err = "none"
     THEN RawEffects!Becomes(w, DataItems(kernel), ReturnItems(kernel), kernel.memory,
                                DataItems(kernel'), ReturnItems(kernel'), kernel'.memory)
     ELSE RawEffects!Remains(DataItems(kernel), ReturnItems(kernel), kernel.memory,
                             DataItems(kernel'), ReturnItems(kernel'), kernel'.memory)
  BY Zenon DEF Effects
<1>2. /\ FailureOf(w, kernel) = KernelEffects!Failure(w, Items(kernel.data_stack, kernel.dsp),
                                                      Items(kernel.return_stack, kernel.rsp), kernel.memory)
      /\ RawEffects!Becomes(w, DataItems(kernel), ReturnItems(kernel), kernel.memory,
                               DataItems(kernel'), ReturnItems(kernel'), kernel'.memory)
           <=> KernelEffects!Becomes(w, Items(kernel.data_stack, kernel.dsp),
                                        Items(kernel.return_stack, kernel.rsp), kernel.memory,
                                        Items(kernel'.data_stack, kernel'.dsp),
                                        Items(kernel'.return_stack, kernel'.rsp), kernel'.memory)
      /\ RawEffects!Remains(DataItems(kernel), ReturnItems(kernel), kernel.memory,
                            DataItems(kernel'), ReturnItems(kernel'), kernel'.memory)
           <=> KernelEffects!Remains(Items(kernel.data_stack, kernel.dsp),
                                     Items(kernel.return_stack, kernel.rsp), kernel.memory,
                                     Items(kernel'.data_stack, kernel'.dsp),
                                     Items(kernel'.return_stack, kernel'.rsp), kernel'.memory)
  <2>1. PICK d, r, m, dd, rr, mm :
          /\ d = Items(kernel.data_stack, kernel.dsp) /\ r = Items(kernel.return_stack, kernel.rsp)
          /\ m = kernel.memory
          /\ dd = Items(kernel'.data_stack, kernel'.dsp) /\ rr = Items(kernel'.return_stack, kernel'.rsp)
          /\ mm = kernel'.memory
    BY Zenon
  <2> QED BY <2>1, SameEffects, Zenon DEF FailureOf, DataItems, ReturnItems
<1> QED BY <1>1, <1>2, Zenon DEF Running, KernelEffects!Succeed, KernelEffects!Fail

\* The items of a machine's stacks are cells, the top one last.
LEMMA ItemsFacts ==
  ASSUME NEW s \in Machine
  PROVE  /\ DataItems(s) \in Seq(Cell) /\ Len(DataItems(s)) = StackSize - s.dsp
         /\ \A i \in 1 .. StackSize - s.dsp : DataItems(s)[i] = s.data_stack[StackSize - i]
         /\ ReturnItems(s) \in Seq(Cell) /\ Len(ReturnItems(s)) = StackSize - s.rsp
         /\ \A i \in 1 .. StackSize - s.rsp : ReturnItems(s)[i] = s.return_stack[StackSize - i]
<1>1. /\ s.dsp \in 0 .. StackSize /\ s.rsp \in 0 .. StackSize
      /\ s.data_stack \in [0 .. StackSize - 1 -> Cell]
      /\ s.return_stack \in [0 .. StackSize - 1 -> Cell]
  BY MachineFields
<1>2. \A p \in 0 .. StackSize, stack \in [0 .. StackSize - 1 -> Cell] :
        /\ Items(stack, p) \in Seq(Cell) /\ Len(Items(stack, p)) = StackSize - p
        /\ \A i \in 1 .. StackSize - p : Items(stack, p)[i] = stack[StackSize - i]
  <2> SUFFICES ASSUME NEW p \in 0 .. StackSize, NEW stack \in [0 .. StackSize - 1 -> Cell]
               PROVE  /\ Items(stack, p) \in Seq(Cell) /\ Len(Items(stack, p)) = StackSize - p
                      /\ \A i \in 1 .. StackSize - p : Items(stack, p)[i] = stack[StackSize - i]
    OBVIOUS
  <2>1. PICK n \in Nat : n = StackSize - p
    OBVIOUS
  <2>2. \A i \in 1 .. n : StackSize - i \in 0 .. StackSize - 1
    BY <2>1
  <2>3. Items(stack, p) = [i \in 1 .. n |-> stack[StackSize - i]]
    BY <2>1 DEF Items
  <2>4. Items(stack, p) \in [1 .. n -> Cell]
    BY <2>2, <2>3
  <2>5. Items(stack, p) \in Seq(Cell) /\ Len(Items(stack, p)) = n
    BY <2>4
  <2> QED BY <2>1, <2>3, <2>5
<1> QED BY <1>1, <1>2 DEF DataItems, ReturnItems

\* What is peeked at is an item counted from the top.
LEMMA PeekItem ==
  ASSUME NEW s \in Machine, NEW k \in Nat, s.dsp + k < StackSize
  PROVE  DataItems(s)[Len(DataItems(s)) - k] = peek_data(s, k)
<1>1. s.dsp \in 0 .. StackSize
  BY MachineFields
<1>2. Len(DataItems(s)) - k \in 1 .. StackSize - s.dsp
  BY <1>1, ItemsFacts
<1>3. StackSize - (Len(DataItems(s)) - k) = s.dsp + k
  BY <1>1, ItemsFacts
<1> QED BY <1>2, <1>3, ItemsFacts DEF peek_data

\* A sequence with its last k items replaced by g.
Spliced(D, k, g) == SubSeq(D, 1, Len(D) - k) \o g

\* What the items of such a sequence E are.
IsSplice(E, D, k, g) ==
  /\ Len(E) = Len(D) - k + Len(g)
  /\ \A i \in 1 .. Len(D) - k : E[i] = D[i]
  /\ \A i \in 1 .. Len(g) : E[Len(D) - k + i] = g[i]

\* It has these items.
LEMMA SpliceItems ==
  ASSUME NEW S, NEW D \in Seq(S), NEW k \in Nat, k <= Len(D), NEW g \in Seq(S)
  PROVE  Spliced(D, k, g) \in Seq(S) /\ IsSplice(Spliced(D, k, g), D, k, g)
<1>1. PICK n, l : n = Len(D) - k /\ l = Len(g)
  OBVIOUS
<1>2. n \in Nat /\ l \in Nat /\ \A i \in 1 .. n : D[i] \in S
  BY <1>1
<1>3. PICK F : F = SubSeq(D, 1, n)
  OBVIOUS
<1>4. F \in Seq(S) /\ Len(F) = n /\ \A i \in 1 .. n : F[i] = D[i]
  <2>1. /\ F \in Seq(S) /\ Len(F) = IF 1 <= n THEN n - 1 + 1 ELSE 0
        /\ \A i \in 1 .. n - 1 + 1 : F[i] = D[1 + i - 1]
    BY <1>2, <1>3, SubSeqProperties
  <2>2. n - 1 + 1 = n /\ \A i \in 1 .. n : 1 + i - 1 = i
    BY <1>2
  <2> QED BY <1>2, <2>1, <2>2
<1>5. PICK E : E = F \o g
  OBVIOUS
<1>6. /\ E \in Seq(S) /\ Len(E) = Len(F) + Len(g)
      /\ \A i \in 1 .. Len(F) + Len(g) : E[i] = IF i <= Len(F) THEN F[i] ELSE g[i - Len(F)]
  <2>1. F \in Seq(S) /\ g \in Seq(S)
    BY <1>4
  <2>2. /\ F \o g \in Seq(S)
        /\ Len(F \o g) = Len(F) + Len(g)
        /\ \A i \in 1 .. Len(F) + Len(g) :
             (F \o g)[i] = IF i <= Len(F) THEN F[i] ELSE g[i - Len(F)]
    BY <2>1, ConcatProperties, Zenon
  <2> QED BY <1>5, <2>2, Zenon
<1>7. E = Spliced(D, k, g)
  BY <1>1, <1>3, <1>5, Zenon DEF Spliced
<1> HIDE <1>5
<1>a. Len(F) = n /\ Len(g) = l
  BY <1>1, <1>4
<1>b. \A i \in 1 .. n + l : E[i] = IF i <= n THEN F[i] ELSE g[i - n]
  BY <1>6, <1>a, Zenon
<1>8. ASSUME NEW i \in 1 .. n PROVE E[i] = D[i]
  <2>1. i \in 1 .. n + l /\ i <= n
    BY <1>2
  <2> QED BY <1>b, <1>4, <2>1
<1>9. ASSUME NEW i \in 1 .. l PROVE E[n + i] = g[i]
  <2>1. n + i \in 1 .. n + l /\ ~(n + i <= n) /\ n + i - n = i
    BY <1>2
  <2>2. PICK j : j = n + i
    OBVIOUS
  <2>3. E[j] = g[j - n]
    BY <1>b, <2>1, <2>2
  <2> QED BY <1>2, <2>1, <2>2, <2>3
<1>c. IsSplice(E, D, k, g)
  BY <1>1, <1>2, <1>6, <1>8, <1>9, <1>a DEF IsSplice
<1> QED BY <1>6, <1>7, <1>c, Zenon

\* Conversely, a sequence with these items is that one.
LEMMA SpliceEqual ==
  ASSUME NEW S, NEW D \in Seq(S), NEW k \in Nat, k <= Len(D), NEW g \in Seq(S),
         NEW E \in Seq(S), IsSplice(E, D, k, g)
  PROVE  E = Spliced(D, k, g)
<1>1. PICK R : R = Spliced(D, k, g)
  OBVIOUS
<1>2. R \in Seq(S) /\ IsSplice(R, D, k, g)
  BY <1>1, SpliceItems, Zenon
<1>3. PICK n, l : n = Len(D) - k /\ l = Len(g)
  OBVIOUS
<1>4. n \in Nat /\ l \in Nat /\ Len(E) = n + l /\ Len(R) = n + l
  BY <1>2, <1>3 DEF IsSplice
<1>a. \A i \in 1 .. n : E[i] = D[i] /\ R[i] = D[i]
  BY <1>2, <1>3 DEF IsSplice
<1>b. \A i \in 1 .. l : E[n + i] = g[i] /\ R[n + i] = g[i]
  BY <1>2, <1>3, <1>4 DEF IsSplice
<1>5. ASSUME NEW i \in 1 .. n + l PROVE E[i] = R[i]
  <2>1. CASE i <= n
    <3>1. i \in 1 .. n
      BY <2>1, <1>4
    <3> QED BY <1>a, <3>1
  <2>2. CASE ~(i <= n)
    <3>1. i - n \in 1 .. l /\ i = n + (i - n)
      BY <1>4, <2>2
    <3>2. PICK j : j = i - n
      OBVIOUS
    <3>3. E[n + j] = g[j] /\ R[n + j] = g[j]
      BY <1>b, <3>1, <3>2
    <3> QED BY <1>4, <3>1, <3>2, <3>3
  <2> QED BY <2>1, <2>2
<1>6. Len(R) = Len(E) /\ \A i \in 1 .. Len(E) : E[i] = R[i]
  BY <1>4, <1>5
<1> QED BY <1>1, <1>2, <1>6, SeqEqual

\* A running machine t is s with the k topmost items replaced by g.
Replaced(s, t, k, g) ==
  /\ t \in Machine /\ Running(t)
  /\ t.rsp = s.rsp /\ t.return_stack = s.return_stack /\ t.memory = s.memory
  /\ k \in Nat /\ k <= Len(DataItems(s)) /\ g \in Seq(Cell)
  /\ DataItems(t) = Spliced(DataItems(s), k, g)

\* So many cells are in use then, and such are the items.
LEMMA ReplacedFacts ==
  ASSUME NEW s \in Machine, NEW t, NEW k, NEW g, Replaced(s, t, k, g)
  PROVE  /\ IsSplice(DataItems(t), DataItems(s), k, g)
         /\ t.dsp = StackSize - Len(DataItems(s)) + k - Len(g)
<1>1. PICK D, E : D = DataItems(s) /\ E = DataItems(t)
  OBVIOUS
<1>2. D \in Seq(Cell) /\ k \in Nat /\ k <= Len(D) /\ g \in Seq(Cell) /\ E = Spliced(D, k, g)
  BY <1>1, ItemsFacts DEF Replaced
<1>3. Len(E) = StackSize - t.dsp /\ t.dsp \in 0 .. StackSize
  BY <1>1, ItemsFacts, MachineFields DEF Replaced
<1>4. IsSplice(E, D, k, g)
  BY <1>2, SpliceItems, Zenon
<1>5. Len(E) = Len(D) - k + Len(g) /\ Len(D) \in Nat /\ Len(g) \in Nat
  BY <1>2, <1>4 DEF IsSplice
<1>6. t.dsp = StackSize - Len(D) + k - Len(g)
  BY <1>2, <1>3, <1>5
<1> QED BY <1>1, <1>4, <1>6, Zenon

\* Conversely.
LEMMA ReplacedIntro ==
  ASSUME NEW s \in Machine, NEW t \in Machine, Running(t),
         t.rsp = s.rsp, t.return_stack = s.return_stack, t.memory = s.memory,
         NEW k \in Nat, k <= Len(DataItems(s)), NEW g \in Seq(Cell),
         IsSplice(DataItems(t), DataItems(s), k, g)
  PROVE  Replaced(s, t, k, g)
<1>1. DataItems(s) \in Seq(Cell) /\ DataItems(t) \in Seq(Cell)
  BY ItemsFacts
<1>2. DataItems(t) = Spliced(DataItems(s), k, g)
  BY <1>1, SpliceEqual, Zenon
<1> QED BY <1>2 DEF Replaced

\* The item j below the top of a machine's data stack.
Item(s, j) == DataItems(s)[Len(DataItems(s)) - j]

\* A machine's topmost items, replaced by themselves.
LEMMA TopItems ==
  ASSUME NEW s \in Machine, Running(s)
  PROVE  /\ Replaced(s, s, 0, <<>>)
         /\ Len(DataItems(s)) >= 1 => Replaced(s, s, 1, <<Item(s, 0)>>)
         /\ Len(DataItems(s)) >= 2 => Replaced(s, s, 2, <<Item(s, 1), Item(s, 0)>>)
         /\ Len(DataItems(s)) >= 3 => Replaced(s, s, 3, <<Item(s, 2), Item(s, 1), Item(s, 0)>>)
         /\ Len(DataItems(s)) >= 4 =>
              Replaced(s, s, 4, <<Item(s, 3), Item(s, 2), Item(s, 1), Item(s, 0)>>)
<1>1. PICK D : D = DataItems(s)
  OBVIOUS
<1>2. D \in Seq(Cell) /\ Len(D) \in Nat
  BY <1>1, ItemsFacts
<1>3. \A k \in Nat, g \in Seq(Cell) : k <= Len(D) /\ IsSplice(D, D, k, g) => Replaced(s, s, k, g)
  BY <1>1, ReplacedIntro, Zenon
<1>4. Item(s, 0) = D[Len(D)] /\ Item(s, 1) = D[Len(D) - 1] /\ Item(s, 2) = D[Len(D) - 2] /\ Item(s, 3) = D[Len(D) - 3]
  BY <1>1, <1>2 DEF Item
<1>5. Replaced(s, s, 0, <<>>)
  <2>1. <<>> \in Seq(Cell) /\ IsSplice(D, D, 0, <<>>) /\ 0 <= Len(D)
    BY <1>2 DEF IsSplice
  <2> QED BY <1>3, <2>1
<1>6. ASSUME Len(D) >= 1 PROVE Replaced(s, s, 1, <<Item(s, 0)>>)
  <2>1. <<Item(s, 0)>> \in Seq(Cell) /\ IsSplice(D, D, 1, <<Item(s, 0)>>)
    BY <1>2, <1>4, <1>6 DEF IsSplice
  <2> QED BY <1>3, <1>6, <2>1
<1>7. ASSUME Len(D) >= 2 PROVE Replaced(s, s, 2, <<Item(s, 1), Item(s, 0)>>)
  <2>1. /\ <<Item(s, 1), Item(s, 0)>> \in Seq(Cell)
        /\ IsSplice(D, D, 2, <<Item(s, 1), Item(s, 0)>>)
    BY <1>2, <1>4, <1>7 DEF IsSplice
  <2> QED BY <1>3, <1>7, <2>1
<1>8. ASSUME Len(D) >= 3 PROVE Replaced(s, s, 3, <<Item(s, 2), Item(s, 1), Item(s, 0)>>)
  <2>1. /\ <<Item(s, 2), Item(s, 1), Item(s, 0)>> \in Seq(Cell)
        /\ IsSplice(D, D, 3, <<Item(s, 2), Item(s, 1), Item(s, 0)>>)
    BY <1>2, <1>4, <1>8 DEF IsSplice
  <2> QED BY <1>3, <1>8, <2>1
<1>9. ASSUME Len(D) >= 4 PROVE Replaced(s, s, 4, <<Item(s, 3), Item(s, 2), Item(s, 1), Item(s, 0)>>)
  <2>1. /\ <<Item(s, 3), Item(s, 2), Item(s, 1), Item(s, 0)>> \in Seq(Cell)
        /\ IsSplice(D, D, 4, <<Item(s, 3), Item(s, 2), Item(s, 1), Item(s, 0)>>)
    BY <1>2, <1>4, <1>9 DEF IsSplice
  <2> QED BY <1>3, <1>9, <2>1
<1> QED BY <1>1, <1>5, <1>6, <1>7, <1>8, <1>9, Zenon

\* A push that finds room adds an item.
LEMMA PushReplaced ==
  ASSUME NEW s \in Machine, NEW t, NEW k, NEW g, Replaced(s, t, k, g),
         NEW v \in Int, Len(DataItems(s)) - k + Len(g) < StackSize
  PROVE  Replaced(s, push_data(t, v), k, Append(g, to_cell(v)))
<1>1. PICK D, E, c : D = DataItems(s) /\ E = DataItems(t) /\ c = to_cell(v)
  OBVIOUS
<1>2. /\ t \in Machine /\ Running(t) /\ k \in Nat /\ k <= Len(D) /\ g \in Seq(Cell)
      /\ t.rsp = s.rsp /\ t.return_stack = s.return_stack /\ t.memory = s.memory
  BY <1>1 DEF Replaced
<1>3. IsSplice(E, D, k, g) /\ t.dsp = StackSize - Len(D) + k - Len(g)
  <2>1. /\ IsSplice(DataItems(t), DataItems(s), k, g)
        /\ t.dsp = StackSize - Len(DataItems(s)) + k - Len(g)
    BY ReplacedFacts
  <2> QED BY <1>1, <2>1
<1>4. D \in Seq(Cell) /\ E \in Seq(Cell) /\ c \in Cell
  BY <1>1, <1>2, ItemsFacts, ToCell
<1>5. t.dsp > 0
  <2>1. Len(D) \in Nat /\ Len(g) \in Nat
    BY <1>2, <1>4
  <2>2. Len(D) - k + Len(g) < StackSize
    BY <1>1, Zenon
  <2> QED BY <1>2, <1>3, <2>1, <2>2
<1>6. PICK p \in Machine :
        /\ p = push_data(t, c) /\ p.dsp = t.dsp - 1
        /\ p.data_stack = [t.data_stack EXCEPT ![t.dsp - 1] = c]
        /\ p.rsp = t.rsp /\ p.return_stack = t.return_stack
        /\ p.memory = t.memory /\ p.err = t.err
  BY <1>2, <1>4, <1>5, PushFields
<1>7. push_data(t, v) = p
  <2>1. to_cell(c) = c
    BY <1>4, ToCell
  <2> QED BY <1>1, <1>6, <2>1, Zenon DEF push_data
<1>8. PICK F : F = DataItems(p)
  OBVIOUS
<1>9. F \in Seq(Cell) /\ Len(F) = Len(E) + 1 /\ (\A i \in 1 .. Len(E) : F[i] = E[i]) /\ F[Len(E) + 1] = c
  <2>1. /\ Len(E) = StackSize - t.dsp /\ \A i \in 1 .. StackSize - t.dsp : E[i] = t.data_stack[StackSize - i]
        /\ F \in Seq(Cell) /\ Len(F) = StackSize - p.dsp
        /\ \A i \in 1 .. StackSize - p.dsp : F[i] = p.data_stack[StackSize - i]
    BY <1>1, <1>2, <1>8, ItemsFacts
  <2>2. t.dsp \in 1 .. StackSize /\ t.data_stack \in [0 .. StackSize - 1 -> Cell]
    BY <1>2, <1>5, MachineFields
  <2>3. Len(F) = Len(E) + 1
    BY <1>6, <2>1, <2>2
  <2>4. ASSUME NEW i \in 1 .. Len(E) PROVE F[i] = E[i]
    <3>1. i \in 1 .. StackSize - t.dsp /\ i \in 1 .. StackSize - p.dsp
      BY <1>6, <2>1, <2>2
    <3>2. StackSize - i \in 0 .. StackSize - 1 /\ StackSize - i # t.dsp - 1
      BY <2>2, <3>1
    <3>3. PICK j : j = StackSize - i
      OBVIOUS
    <3>4. p.data_stack[j] = t.data_stack[j]
      BY <1>6, <2>2, <3>2, <3>3
    <3>5. F[i] = p.data_stack[j] /\ E[i] = t.data_stack[j]
      BY <2>1, <3>1, <3>3
    <3> QED BY <3>4, <3>5
  <2>5. F[Len(E) + 1] = c
    <3>1. Len(E) + 1 \in 1 .. StackSize - p.dsp /\ StackSize - (Len(E) + 1) = t.dsp - 1
      BY <1>6, <2>1, <2>2
    <3>2. PICK i : i = Len(E) + 1
      OBVIOUS
    <3>3. F[i] = p.data_stack[t.dsp - 1]
      BY <2>1, <3>1, <3>2
    <3>4. p.data_stack[t.dsp - 1] = c
      BY <1>6, <2>2
    <3> QED BY <3>2, <3>3, <3>4
  <2> QED BY <2>1, <2>3, <2>4, <2>5
<1>10. PICK h : h = Append(g, c)
  OBVIOUS
<1>11. h \in Seq(Cell) /\ Len(h) = Len(g) + 1 /\ (\A i \in 1 .. Len(g) : h[i] = g[i]) /\ h[Len(g) + 1] = c
  BY <1>2, <1>4, <1>10
<1>12. IsSplice(F, D, k, h)
  <2>1. PICK n, l : n = Len(D) - k /\ l = Len(g)
    OBVIOUS
  <2>2. n \in Nat /\ l \in Nat /\ Len(E) = n + l /\ Len(F) = n + l + 1 /\ Len(h) = l + 1
    <3>1. Len(D) \in Nat /\ Len(g) \in Nat
      BY <1>2, <1>4
    <3>2. Len(E) = Len(D) - k + Len(g)
      BY <1>3, Zenon DEF IsSplice
    <3>3. k \in Nat /\ k <= Len(D) /\ Len(F) = Len(E) + 1 /\ Len(h) = Len(g) + 1
      BY <1>2, <1>9, <1>11, Zenon
    <3> QED BY <2>1, <3>1, <3>2, <3>3
  <2>3. ASSUME NEW i \in 1 .. n PROVE F[i] = D[i]
    <3>1. i \in 1 .. Len(E)
      BY <2>2
    <3>2. E[i] = D[i]
      BY <1>3, <2>1 DEF IsSplice
    <3> QED BY <1>9, <3>1, <3>2
  <2>4. ASSUME NEW i \in 1 .. l + 1 PROVE F[n + i] = h[i]
    <3>1. CASE i \in 1 .. l
      <4>1. n + i \in 1 .. Len(E)
        BY <2>2, <3>1
      <4>2. E[n + i] = g[i]
        BY <1>3, <2>1, <3>1 DEF IsSplice
      <4>3. h[i] = g[i]
        BY <1>11, <2>1, <3>1
      <4> QED BY <1>9, <4>1, <4>2, <4>3
    <3>2. CASE i = l + 1
      <4>1. n + i = Len(E) + 1 /\ i = Len(g) + 1
        BY <2>1, <2>2, <3>2
      <4> QED BY <1>9, <1>11, <4>1
    <3> QED BY <2>2, <3>1, <3>2
  <2>5. Len(F) = Len(D) - k + Len(h)
    BY <2>1, <2>2
  <2> QED BY <2>1, <2>2, <2>3, <2>4, <2>5 DEF IsSplice
<1>13. Running(p)
  BY <1>2, <1>6 DEF Running
<1>14. Replaced(s, p, k, h)
  BY <1>1, <1>2, <1>6, <1>8, <1>11, <1>12, <1>13, ReplacedIntro
<1> QED BY <1>1, <1>7, <1>10, <1>14, Zenon

\* Pops that find their items take the topmost ones away.
LEMMA PopReplaced ==
  ASSUME NEW s \in Machine, NEW t, NEW k, Replaced(s, t, k, <<>>), k < Len(DataItems(s))
  PROVE  Replaced(s, pop_data(t), k + 1, <<>>)
<1>1. PICK D, E : D = DataItems(s) /\ E = DataItems(t)
  OBVIOUS
<1>2. /\ t \in Machine /\ Running(t) /\ k \in Nat /\ k <= Len(D)
      /\ t.rsp = s.rsp /\ t.return_stack = s.return_stack /\ t.memory = s.memory
      /\ D \in Seq(Cell) /\ E \in Seq(Cell) /\ Len(D) \in Nat /\ k < Len(D)
  BY <1>1, ItemsFacts DEF Replaced
<1>3. IsSplice(E, D, k, <<>>) /\ t.dsp = StackSize - Len(D) + k - Len(<<>>)
  <2>1. /\ IsSplice(DataItems(t), DataItems(s), k, <<>>)
        /\ t.dsp = StackSize - Len(DataItems(s)) + k - Len(<<>>)
    BY ReplacedFacts
  <2> QED BY <1>1, <2>1
<1>4. t.dsp = StackSize - Len(D) + k /\ t.dsp < StackSize /\ Len(E) = Len(D) - k
  BY <1>2, <1>3 DEF IsSplice
<1>5. PICK p \in Machine :
        /\ p = pop_data(t) /\ p.dsp = t.dsp + 1 /\ p.data_stack = t.data_stack
        /\ p.rsp = t.rsp /\ p.return_stack = t.return_stack
        /\ p.memory = t.memory /\ p.err = t.err
  BY <1>2, <1>4, PopFields
<1>6. PICK F : F = DataItems(p)
  OBVIOUS
<1>7. /\ Len(E) = StackSize - t.dsp /\ \A i \in 1 .. StackSize - t.dsp : E[i] = t.data_stack[StackSize - i]
      /\ F \in Seq(Cell) /\ Len(F) = StackSize - p.dsp
      /\ \A i \in 1 .. StackSize - p.dsp : F[i] = p.data_stack[StackSize - i]
  BY <1>1, <1>2, <1>6, ItemsFacts
<1>8. t.dsp \in 0 .. StackSize
  BY <1>2, MachineFields
<1>9. ASSUME NEW i \in 1 .. Len(D) - (k + 1) PROVE F[i] = D[i]
  <2>1. i \in 1 .. StackSize - p.dsp /\ i \in 1 .. StackSize - t.dsp /\ i \in 1 .. Len(D) - k
    BY <1>2, <1>4, <1>5, <1>8
  <2>2. E[i] = D[i]
    BY <1>3, <2>1 DEF IsSplice
  <2> QED BY <1>5, <1>7, <2>1, <2>2
<1>10. Len(F) = Len(D) - (k + 1) + Len(<<>>)
  BY <1>2, <1>4, <1>5, <1>7, <1>8
<1>11. IsSplice(F, D, k + 1, <<>>)
  BY <1>9, <1>10 DEF IsSplice
<1>12. Running(p) /\ <<>> \in Seq(Cell) /\ k + 1 \in Nat /\ k + 1 <= Len(D)
  BY <1>2, <1>5 DEF Running
<1> QED BY <1>1, <1>2, <1>5, <1>6, <1>11, <1>12, ReplacedIntro

\* One pop, two and three.
LEMMA PopsReplaced ==
  ASSUME NEW s \in Machine, Running(s)
  PROVE  /\ Len(DataItems(s)) >= 1 => Replaced(s, pop_data(s), 1, <<>>)
         /\ Len(DataItems(s)) >= 2 => Replaced(s, pop2(s), 2, <<>>)
         /\ Len(DataItems(s)) >= 3 => Replaced(s, pop3(s), 3, <<>>)
<1>1. Replaced(s, s, 0, <<>>) /\ Len(DataItems(s)) \in Nat
  <2>1. DataItems(s) \in Seq(Cell)
    BY ItemsFacts
  <2>2. Len(DataItems(s)) \in Nat
    BY <2>1
  <2>3. Replaced(s, s, 0, <<>>)
    BY TopItems, Zenon
  <2> QED BY <2>2, <2>3
<1>2. Len(DataItems(s)) >= 1 => Replaced(s, pop_data(s), 1, <<>>)
  <2>1. 0 < Len(DataItems(s)) => Replaced(s, pop_data(s), 0 + 1, <<>>)
    BY <1>1, PopReplaced
  <2> QED BY <1>1, <2>1
<1>3. Len(DataItems(s)) >= 2 => Replaced(s, pop2(s), 2, <<>>)
  <2>1. 1 < Len(DataItems(s)) => Replaced(s, pop2(s), 1 + 1, <<>>)
    BY <1>1, <1>2, PopReplaced DEF pop2
  <2> QED BY <1>1, <2>1
<1>4. Len(DataItems(s)) >= 3 => Replaced(s, pop3(s), 3, <<>>)
  <2>1. 2 < Len(DataItems(s)) => Replaced(s, pop3(s), 2 + 1, <<>>)
    BY <1>1, <1>3, PopReplaced DEF pop3
  <2> QED BY <1>1, <2>1
<1> QED BY <1>2, <1>3, <1>4

\* A window that is there is replaced by what replaces its items.
LEMMA WindowReplaced ==
  ASSUME NEW s \in Machine, Running(s), NEW k \in Nat \ {0}, k <= Len(DataItems(s)),
         NEW values, \A i \in 1 .. k : values[i] \in Int
  PROVE  Replaced(s, replace_data_window(s, k, values), k, [i \in 1 .. k |-> to_cell(values[i])])
<1>1. PICK D, t, g : /\ D = DataItems(s) /\ t = replace_data_window(s, k, values)
                     /\ g = [i \in 1 .. k |-> to_cell(values[i])]
  OBVIOUS
<1>2. D \in Seq(Cell) /\ Len(D) = StackSize - s.dsp /\ s.dsp \in 0 .. StackSize /\ k <= Len(D)
      /\ s.data_stack \in [0 .. StackSize - 1 -> Cell]
  BY <1>1, ItemsFacts, MachineFields
<1>a. /\ s.dsp \in Nat /\ Len(D) \in Nat /\ Len(D) = StackSize - s.dsp
      /\ s.dsp <= StackSize /\ k <= Len(D)
  BY <1>2
<1>3. Running(windowed(s, k)) /\ windowed(s, k) = s
  BY <1>2 DEF windowed, Require
<1>4. t \in Machine
  BY <1>1, <1>3, WindowType
<1>5. PICK d : d = [i \in 0 .. StackSize - 1 |-> IF i \in s.dsp .. s.dsp + k - 1
                                                 THEN to_cell(values[k - (i - s.dsp)])
                                                 ELSE s.data_stack[i]]
  OBVIOUS
<1>6. t = [s EXCEPT !.data_stack = d]
  <2>1. DOMAIN s.data_stack = 0 .. StackSize - 1
    BY <1>2
  <2> QED BY <1>1, <1>3, <1>5, <2>1 DEF replace_data_window
<1>7. /\ t.dsp = s.dsp /\ t.rsp = s.rsp /\ t.return_stack = s.return_stack /\ t.memory = s.memory
      /\ t.err = s.err /\ t.data_stack = d
  BY <1>6 DEF Machine
<1>8. g \in Seq(Cell) /\ Len(g) = k
  <2>1. \A i \in 1 .. k : to_cell(values[i]) \in Cell
    BY ToCell
  <2> QED BY <1>1, <2>1
<1>9. PICK F : F = DataItems(t)
  OBVIOUS
<1>10. /\ \A i \in 1 .. StackSize - s.dsp : D[i] = s.data_stack[StackSize - i]
       /\ F \in Seq(Cell) /\ Len(F) = StackSize - s.dsp
       /\ \A i \in 1 .. StackSize - s.dsp : F[i] = d[StackSize - i]
  BY <1>1, <1>4, <1>7, <1>9, ItemsFacts
<1>11. ASSUME NEW i \in 1 .. Len(D) - k PROVE F[i] = D[i]
  <2>1. PICK j : j = StackSize - i
    OBVIOUS
  <2>2. i \in 1 .. StackSize - s.dsp /\ j \in 0 .. StackSize - 1 /\ ~(j \in s.dsp .. s.dsp + k - 1)
    BY <1>a, <2>1
  <2>3. d[j] = s.data_stack[j]
    BY <1>5, <2>2
  <2> QED BY <1>10, <2>1, <2>2, <2>3
<1>12. ASSUME NEW i \in 1 .. k PROVE F[Len(D) - k + i] = g[i]
  <2>1. PICK l, j : l = Len(D) - k + i /\ j = StackSize - l
    OBVIOUS
  <2>2. /\ l \in 1 .. StackSize - s.dsp /\ j \in 0 .. StackSize - 1 /\ j \in s.dsp .. s.dsp + k - 1
        /\ k - (j - s.dsp) = i
    <3>1. l = StackSize - s.dsp - k + i
      BY <1>a, <2>1
    <3>2. j = s.dsp + k - i
      <4>1. StackSize \in Int /\ s.dsp \in Int /\ k \in Int /\ i \in Int
        BY <1>a
      <4>2. PICK p, q : p = s.dsp /\ q = StackSize
        OBVIOUS
      <4>3. p \in Int /\ q \in Int /\ k \in Int /\ i \in Int
        BY <4>1, <4>2, Zenon
      <4>4. q - (q - p - k + i) = p + k - i
        BY <4>3
      <4> QED BY <2>1, <3>1, <4>2, <4>4, Zenon
    <3>3. l \in 1 .. StackSize - s.dsp
      BY <1>a, <3>1
    <3>4. j \in 0 .. StackSize - 1 /\ j \in s.dsp .. s.dsp + k - 1
      BY <1>a, <3>2
    <3>5. k - (j - s.dsp) = i
      BY <1>a, <3>2
    <3> QED BY <3>3, <3>4, <3>5
  <2>3. d[j] = to_cell(values[i])
    BY <1>5, <2>2
  <2>4. F[l] = d[j]
    BY <1>10, <2>1, <2>2
  <2>5. g[i] = to_cell(values[i])
    BY <1>1
  <2> QED BY <2>1, <2>3, <2>4, <2>5
<1>13. Len(F) = Len(D) - k + Len(g)
  BY <1>2, <1>8, <1>10
<1>14. IsSplice(F, D, k, g)
  BY <1>8, <1>11, <1>12, <1>13 DEF IsSplice
<1>15. Running(t) /\ k \in Nat
  BY <1>7 DEF Running
<1> QED BY <1>1, <1>2, <1>4, <1>7, <1>8, <1>9, <1>14, <1>15, ReplacedIntro

\* A sequence that starts like another, and is no longer, is a prefix of it.
LEMMA PrefixIntro ==
  ASSUME NEW S, NEW E \in Seq(S), NEW D \in Seq(S), Len(E) <= Len(D),
         \A i \in 1 .. Len(E) : E[i] = D[i]
  PROVE  RawEffects!IsPrefix(E, D)
<1>1. PICK n : n = Len(E)
  OBVIOUS
<1>2. n \in Nat /\ n <= Len(D)
  BY <1>1
<1>3. SubSeq(E, 1, n) \in Seq(S) /\ Len(SubSeq(E, 1, n)) = n /\ \A i \in 1 .. n : SubSeq(E, 1, n)[i] = E[i]
  BY <1>1, <1>2
<1>4. SubSeq(D, 1, n) \in Seq(S) /\ Len(SubSeq(D, 1, n)) = n /\ \A i \in 1 .. n : SubSeq(D, 1, n)[i] = D[i]
  BY <1>2
<1>5. SubSeq(E, 1, n) = SubSeq(D, 1, n)
  BY <1>1, <1>3, <1>4, SeqEqual
<1> QED BY <1>1, <1>2, <1>5 DEF RawEffects!IsPrefix

\* An exception has ended the word, with the stacks as Remains describes them.
Failed(s, t, e) ==
  /\ e # "none" /\ t.err = e
  /\ RawEffects!Remains(DataItems(s), ReturnItems(s), s.memory,
                        DataItems(t), ReturnItems(t), t.memory)

\* So it is after pops alone, and after pushes alone.
LEMMA FailedFrom ==
  ASSUME NEW s \in Machine, NEW t, NEW k, NEW g, Replaced(s, t, k, g), g = <<>> \/ k = 0,
         NEW e \in Errors \ {"none"}
  PROVE  Failed(s, [t EXCEPT !.err = e], e)
<1>1. PICK D, E, R, f : D = DataItems(s) /\ E = DataItems(t) /\ R = ReturnItems(s) /\ f = [t EXCEPT !.err = e]
  OBVIOUS
<1>2. t \in Machine /\ k \in Nat /\ k <= Len(D) /\ g \in Seq(Cell)
      /\ t.rsp = s.rsp /\ t.return_stack = s.return_stack /\ t.memory = s.memory
  BY <1>1 DEF Replaced
<1>3. D \in Seq(Cell) /\ E \in Seq(Cell) /\ R \in Seq(Cell)
  BY <1>1, <1>2, ItemsFacts
<1>4. IsSplice(E, D, k, g)
  BY <1>1, ReplacedFacts
<1>5. /\ f.err = e /\ f.memory = s.memory /\ f.dsp = t.dsp /\ f.data_stack = t.data_stack
      /\ f.rsp = s.rsp /\ f.return_stack = s.return_stack
  BY <1>1, <1>2 DEF Machine
<1>6. DataItems(f) = E /\ ReturnItems(f) = R
  BY <1>1, <1>5, Zenon DEF DataItems, ReturnItems
<1>7. RawEffects!IsPrefix(E, D) \/ RawEffects!IsPrefix(D, E)
  <2>1. CASE g = <<>>
    <3>1. Len(E) = Len(D) - k /\ (\A i \in 1 .. Len(D) - k : E[i] = D[i])
      BY <1>2, <1>3, <1>4, <2>1 DEF IsSplice
    <3>2. Len(E) <= Len(D) /\ \A i \in 1 .. Len(E) : E[i] = D[i]
      BY <1>2, <1>3, <3>1
    <3> QED BY <1>3, <3>2, PrefixIntro
  <2>2. CASE k = 0
    <3>1. Len(E) = Len(D) + Len(g) /\ (\A i \in 1 .. Len(D) : E[i] = D[i])
      BY <1>2, <1>3, <1>4, <2>2 DEF IsSplice
    <3>2. Len(D) <= Len(E) /\ \A i \in 1 .. Len(D) : D[i] = E[i]
      BY <1>2, <1>3, <3>1
    <3> QED BY <1>3, <3>2, PrefixIntro
  <2> QED BY <2>1, <2>2
<1>8. RawEffects!IsPrefix(R, R)
  BY <1>3, PrefixIntro
<1>9. RawEffects!Remains(D, R, s.memory, E, R, s.memory)
  BY <1>7, <1>8 DEF RawEffects!Remains
<1> QED BY <1>1, <1>5, <1>6, <1>9 DEF Failed

\* A push that finds no room, and a pop that finds no item.
LEMMA PushFails ==
  ASSUME NEW s \in Machine, NEW t, NEW k, NEW g, Replaced(s, t, k, g), g = <<>> \/ k = 0,
         Len(DataItems(s)) - k + Len(g) >= StackSize, NEW v
  PROVE  Failed(s, push_data(t, v), "StackOverflow")
<1>1. t.dsp = StackSize - Len(DataItems(s)) + k - Len(g)
  BY ReplacedFacts
<1>2. k \in Nat /\ g \in Seq(Cell) /\ t \in Machine /\ Running(t)
  BY DEF Replaced
<1>3. Len(DataItems(s)) \in Nat /\ Len(g) \in Nat
  <2>1. DataItems(s) \in Seq(Cell)
    BY ItemsFacts
  <2> QED BY <1>2, <2>1
<1>4. ~(t.dsp > 0)
  BY <1>1, <1>2, <1>3
<1>5. push_data(t, v) = [t EXCEPT !.err = "StackOverflow"]
  <2>1. ~Running([t EXCEPT !.err = "StackOverflow"])
    BY <1>2, ErrorRaised DEF Errors
  <2> QED BY <1>2, <1>4, <2>1 DEF push_data, Require
<1> QED BY <1>5, FailedFrom DEF Errors

\* The other.
LEMMA PopFails ==
  ASSUME NEW s \in Machine, NEW t, NEW k, Replaced(s, t, k, <<>>), Len(DataItems(s)) <= k
  PROVE  Failed(s, pop_data(t), "StackUnderflow")
<1>1. t.dsp = StackSize - Len(DataItems(s)) + k - Len(<<>>)
  BY ReplacedFacts
<1>2. k \in Nat /\ t \in Machine /\ Running(t)
  BY DEF Replaced
<1>3. Len(DataItems(s)) \in Nat
  <2>1. DataItems(s) \in Seq(Cell)
    BY ItemsFacts
  <2> QED BY <2>1
<1>4. ~(t.dsp + 0 < StackSize)
  BY <1>1, <1>2, <1>3
<1>5. pop_data(t) = [t EXCEPT !.err = "StackUnderflow"]
  <2>1. ~Running([t EXCEPT !.err = "StackUnderflow"])
    BY <1>2, ErrorRaised DEF Errors
  <2> QED BY <1>2, <1>4, <2>1 DEF pop_data, peekable, Require
<1> QED BY <1>5, FailedFrom DEF Errors

\* One, two and three pops that find too few items.
LEMMA PopsFail ==
  ASSUME NEW s \in Machine, Running(s)
  PROVE  /\ Len(DataItems(s)) < 1 => Failed(s, pop_data(s), "StackUnderflow")
         /\ Len(DataItems(s)) < 2 => Failed(s, pop2(s), "StackUnderflow")
         /\ Len(DataItems(s)) < 3 => Failed(s, pop3(s), "StackUnderflow")
<1>1. Len(DataItems(s)) \in Nat
  <2>1. DataItems(s) \in Seq(Cell)
    BY ItemsFacts
  <2> QED BY <2>1
<1>2. \A t : Failed(s, t, "StackUnderflow") => pop_data(t) = t
  BY Stopped DEF Failed, Running
<1>3. Replaced(s, s, 0, <<>>)
  BY TopItems, Zenon
<1>4. Len(DataItems(s)) < 1 => Failed(s, pop_data(s), "StackUnderflow")
  BY <1>1, <1>3, PopFails
<1>5. Len(DataItems(s)) < 2 => Failed(s, pop2(s), "StackUnderflow")
  <2>1. CASE Len(DataItems(s)) < 1
    BY <1>2, <1>4, <2>1 DEF pop2
  <2>2. CASE Len(DataItems(s)) >= 1
    BY <1>1, <2>2, PopsReplaced, PopFails DEF pop2
  <2> QED BY <1>1, <2>1, <2>2
<1>6. Len(DataItems(s)) < 3 => Failed(s, pop3(s), "StackUnderflow")
  <2>1. CASE Len(DataItems(s)) < 2
    BY <1>2, <1>5, <2>1 DEF pop3
  <2>2. CASE Len(DataItems(s)) >= 2
    BY <1>1, <2>2, PopsReplaced, PopFails DEF pop3
  <2> QED BY <1>1, <2>1, <2>2
<1> QED BY <1>4, <1>5, <1>6

\* What a window or an item requires.
LEMMA WindowFails ==
  ASSUME NEW s \in Machine, Running(s), NEW k \in Nat
  PROVE  /\ Len(DataItems(s)) < k => Failed(s, windowed(s, k), "StackUnderflow")
         /\ Len(DataItems(s)) >= k => windowed(s, k) = s
         /\ Len(DataItems(s)) <= k => Failed(s, peekable(s, k), "StackUnderflow")
         /\ Len(DataItems(s)) > k => peekable(s, k) = s
<1>1. Len(DataItems(s)) = StackSize - s.dsp /\ s.dsp \in 0 .. StackSize
  BY ItemsFacts, MachineFields
<1>2. Replaced(s, s, 0, <<>>)
  BY TopItems, Zenon
<1>3. Failed(s, [s EXCEPT !.err = "StackUnderflow"], "StackUnderflow")
  BY <1>2, FailedFrom DEF Errors
<1>4. ASSUME Len(DataItems(s)) < k PROVE Failed(s, windowed(s, k), "StackUnderflow")
  <2>1. ~(s.dsp + k <= StackSize)
    BY <1>1, <1>4
  <2> QED BY <1>3, <2>1 DEF windowed, Require
<1>5. ASSUME Len(DataItems(s)) >= k PROVE windowed(s, k) = s
  <2>1. s.dsp + k <= StackSize
    BY <1>1, <1>5
  <2> QED BY <2>1 DEF windowed, Require
<1>6. ASSUME Len(DataItems(s)) <= k PROVE Failed(s, peekable(s, k), "StackUnderflow")
  <2>1. ~(s.dsp + k < StackSize)
    BY <1>1, <1>6
  <2> QED BY <1>3, <2>1 DEF peekable, Require
<1>7. ASSUME Len(DataItems(s)) > k PROVE peekable(s, k) = s
  <2>1. s.dsp + k < StackSize
    BY <1>1, <1>7
  <2> QED BY <2>1 DEF peekable, Require
<1> QED BY <1>4, <1>5, <1>6, <1>7

\* Truth values are cells.
LEMMA BoolCell ==
  ASSUME NEW p
  PROVE  bool_cell(p) \in Cell /\ bool_cell(p) \in Int /\ to_cell(bool_cell(p)) = bool_cell(p)
<1>1. 1 \in Cell /\ 0 \in Cell
  <2>1. CellBytes * ByteBits \in Nat /\ CellBytes * ByteBits >= 2
    <3>1. \A a \in Nat \ {0, 1}, b \in Nat \ {0} : a * b \in Nat /\ a * b >= 2
      OBVIOUS
    <3> QED BY <3>1
  <2>2. PICK n \in Nat : CellBits = (n + 1) + 1
    <3>1. CellBits - 2 \in Nat /\ CellBits = ((CellBits - 2) + 1) + 1
      BY <2>1 DEF CellBits
    <3> QED BY <3>1
  <2>3. CellMod = 2 * (2 * 2 ^ n) /\ 2 ^ n \in Nat \ {0}
    BY <2>2, PowerOfTwo DEF CellMod
  <2>4. CellMod \div 2 = 2 * 2 ^ n
    BY <2>3
  <2> QED BY <2>3, <2>4 DEF Cell
<1>2. bool_cell(p) = 1 \/ bool_cell(p) = 0
  BY DEF bool_cell
<1> QED BY <1>1, <1>2, ToCell

\* A word that fails as it should and leaves what a failing word may.
LEMMA WordFails ==
  ASSUME NEW s, NEW w, NEW t, NEW e, e = FailureOf(w, s), Failed(s, t, e)
  PROVE  Effects(w, s, t)
BY Zenon DEF Effects, Failed

\* The words that only work on the data stack.
Plain ==
  Words \ ({"R>", "RDROP", "/MOD", "DSP!", "RSP!", ">R"} \cup MemoryWords)

\* A stack holds no more than its size.
LEMMA Depth ==
  ASSUME NEW s \in Machine
  PROVE  /\ Len(DataItems(s)) \in Nat /\ Len(DataItems(s)) <= StackSize
         /\ Len(ReturnItems(s)) \in Nat /\ Len(ReturnItems(s)) <= StackSize
<1>1. /\ Len(DataItems(s)) = StackSize - s.dsp /\ s.dsp \in 0 .. StackSize
      /\ Len(ReturnItems(s)) = StackSize - s.rsp /\ s.rsp \in 0 .. StackSize
  BY ItemsFacts, MachineFields
<1> QED BY <1>1

\* What the failure of such a word depends on.
LEMMA PlainFailure ==
  ASSUME NEW s \in Machine, NEW w \in Plain, NEW k \in Nat, RawEffects!Takes(w) = k,
         NEW g, Len(DataItems(s)) >= k =>
                  RawEffects!Gives(w, DataItems(s), ReturnItems(s), s.memory) = g
  PROVE  /\ Len(DataItems(s)) < k => FailureOf(w, s) = "StackUnderflow"
         /\ Len(DataItems(s)) >= k =>
              /\ Len(DataItems(s)) - k + Len(g) > StackSize => FailureOf(w, s) = "StackOverflow"
              /\ ~(Len(DataItems(s)) - k + Len(g) > StackSize) => FailureOf(w, s) = "none"
<1>1. RawEffects!Blocks(w, DataItems(s)) = {}
  BY DEF RawEffects!Blocks, Plain, MemoryWords
<1>2. w \notin {"R>", "RDROP", "/MOD", "DSP!", "RSP!", ">R"}
  BY DEF Plain
<1>3. Len(DataItems(s)) \in Nat
  BY Depth
<1> QED BY <1>1, <1>2, <1>3 DEF FailureOf, RawEffects!Failure

\* A data stack word that has replaced what it takes by what it gives.
LEMMA PlainSucceeds ==
  ASSUME NEW s \in Machine, NEW t, NEW w \in Plain, NEW k, NEW g,
         FailureOf(w, s) = "none", RawEffects!Takes(w) = k,
         RawEffects!Gives(w, DataItems(s), ReturnItems(s), s.memory) = g,
         Replaced(s, t, k, g)
  PROVE  Effects(w, s, t)
<1>1. RawEffects!Stored(w, DataItems(s), s.memory) = s.memory
  BY DEF RawEffects!Stored, Plain, MemoryWords
<1>2. w \notin {"R>", "RDROP", "/MOD", "DSP!", "RSP!", ">R"}
  BY DEF Plain
<1>3. /\ t.err = "none" /\ ReturnItems(t) = ReturnItems(s) /\ t.memory = s.memory
      /\ DataItems(t) = SubSeq(DataItems(s), 1, Len(DataItems(s)) - k) \o g
  BY Zenon DEF Replaced, Running, ReturnItems, Spliced
<1>4. RawEffects!Becomes(w, DataItems(s), ReturnItems(s), s.memory,
                            DataItems(t), ReturnItems(t), t.memory)
  BY <1>1, <1>2, <1>3, Zenon DEF RawEffects!Becomes
<1> QED BY <1>3, <1>4, Zenon DEF Effects

\* A pop, then a push of the result.
LEMMA UnaryEffect ==
  ASSUME NEW s \in Machine, Running(s), NEW w \in Plain, NEW u,
         RawEffects!Takes(w) = 1,
         Len(DataItems(s)) >= 1 =>
           /\ u \in Int
           /\ RawEffects!Gives(w, DataItems(s), ReturnItems(s), s.memory) = <<to_cell(u)>>
  PROVE  Effects(w, s, push_data(pop_data(s), u))
<1>0. Len(DataItems(s)) \in Nat /\ Len(DataItems(s)) <= StackSize
  BY Depth
<1>1. CASE Len(DataItems(s)) < 1
  <2>1. FailureOf(w, s) = "StackUnderflow"
    BY <1>1, <1>0, PlainFailure
  <2>2. Failed(s, pop_data(s), "StackUnderflow")
    BY <1>1, PopsFail
  <2>3. push_data(pop_data(s), u) = pop_data(s)
    <3>1. ~Running(pop_data(s))
      BY <2>2 DEF Failed, Running
    <3> QED BY <3>1, Stopped
  <2> QED BY <2>1, <2>2, <2>3, WordFails
<1>2. CASE Len(DataItems(s)) >= 1
  <2>1. FailureOf(w, s) = "none"
    <3>1. PICK g : g = <<to_cell(u)>>
      OBVIOUS
    <3>2. ~(Len(DataItems(s)) - 1 + Len(g) > StackSize)
      <4>1. Len(g) = 1
        BY <3>1
      <4> QED BY <4>1, <1>0
    <3> QED BY <1>2, <1>0, <3>1, <3>2, PlainFailure
  <2>2. Replaced(s, pop_data(s), 1, <<>>)
    BY <1>2, PopsReplaced
  <2>3. Replaced(s, push_data(pop_data(s), u), 1, Append(<<>>, to_cell(u)))
    <3>1. Len(DataItems(s)) - 1 + Len(<<>>) < StackSize
      BY <1>0
    <3> QED BY <1>2, <2>2, <3>1, PushReplaced
  <2>4. Append(<<>>, to_cell(u)) = <<to_cell(u)>>
    OBVIOUS
  <2> QED BY <1>2, <2>1, <2>3, <2>4, PlainSucceeds
<1> QED BY <1>0, <1>1, <1>2

\* Two pops, then a push of the result.
LEMMA BinaryEffect ==
  ASSUME NEW s \in Machine, Running(s), NEW w \in Plain, NEW u,
         RawEffects!Takes(w) = 2,
         Len(DataItems(s)) >= 2 =>
           /\ u \in Int
           /\ RawEffects!Gives(w, DataItems(s), ReturnItems(s), s.memory) = <<to_cell(u)>>
  PROVE  Effects(w, s, push_data(pop2(s), u))
<1>0. Len(DataItems(s)) \in Nat /\ Len(DataItems(s)) <= StackSize
  BY Depth
<1>1. CASE Len(DataItems(s)) < 2
  <2>1. FailureOf(w, s) = "StackUnderflow"
    BY <1>1, <1>0, PlainFailure
  <2>2. Failed(s, pop2(s), "StackUnderflow")
    BY <1>1, PopsFail
  <2>3. push_data(pop2(s), u) = pop2(s)
    <3>1. ~Running(pop2(s))
      BY <2>2 DEF Failed, Running
    <3> QED BY <3>1, Stopped
  <2> QED BY <2>1, <2>2, <2>3, WordFails
<1>2. CASE Len(DataItems(s)) >= 2
  <2>1. FailureOf(w, s) = "none"
    <3>1. PICK g : g = <<to_cell(u)>>
      OBVIOUS
    <3>2. ~(Len(DataItems(s)) - 2 + Len(g) > StackSize)
      <4>1. Len(g) = 1
        BY <3>1
      <4> QED BY <4>1, <1>0
    <3> QED BY <1>2, <1>0, <3>1, <3>2, PlainFailure
  <2>2. Replaced(s, pop2(s), 2, <<>>)
    BY <1>2, PopsReplaced
  <2>3. Replaced(s, push_data(pop2(s), u), 2, Append(<<>>, to_cell(u)))
    <3>1. Len(DataItems(s)) - 2 + Len(<<>>) < StackSize
      BY <1>0
    <3> QED BY <1>2, <2>2, <3>1, PushReplaced
  <2>4. Append(<<>>, to_cell(u)) = <<to_cell(u)>>
    OBVIOUS
  <2> QED BY <1>2, <2>1, <2>3, <2>4, PlainSucceeds
<1> QED BY <1>0, <1>1, <1>2

\* What the first pops return are the topmost items.
LEMMA TopItem ==
  ASSUME NEW s \in Machine
  PROVE  /\ Len(DataItems(s)) >= 1 => /\ top(s) = DataItems(s)[Len(DataItems(s))]
                                      /\ top(s) \in Cell /\ top(s) \in Int
         /\ Len(DataItems(s)) >= 2 => /\ second(s) = DataItems(s)[Len(DataItems(s)) - 1]
                                      /\ second(s) \in Cell /\ second(s) \in Int
         /\ Len(DataItems(s)) >= 3 => /\ third(s) = DataItems(s)[Len(DataItems(s)) - 2]
                                      /\ third(s) \in Cell /\ third(s) \in Int
<1>0. Len(DataItems(s)) = StackSize - s.dsp /\ s.dsp \in 0 .. StackSize
  BY ItemsFacts, MachineFields
<1>1. ASSUME Len(DataItems(s)) >= 1 PROVE top(s) = DataItems(s)[Len(DataItems(s))] /\ s.dsp < StackSize
  <2>1. s.dsp + 0 < StackSize
    BY <1>0, <1>1
  <2>2. Len(DataItems(s)) - 0 = Len(DataItems(s))
    BY <1>0
  <2>3. DataItems(s)[Len(DataItems(s)) - 0] = peek_data(s, 0)
    BY <2>1, PeekItem
  <2> QED BY <1>0, <2>1, <2>2, <2>3 DEF top
<1>2. ASSUME Len(DataItems(s)) >= 2 PROVE second(s) = DataItems(s)[Len(DataItems(s)) - 1] /\ s.dsp + 2 <= StackSize
  <2>1. s.dsp + 1 < StackSize /\ s.dsp + 2 <= StackSize
    BY <1>0, <1>2
  <2> QED BY <2>1, PeekItem DEF second
<1>3. ASSUME Len(DataItems(s)) >= 3 PROVE third(s) = DataItems(s)[Len(DataItems(s)) - 2] /\ s.dsp + 3 <= StackSize
  <2>1. s.dsp + 2 < StackSize /\ s.dsp + 3 <= StackSize
    BY <1>0, <1>3
  <2> QED BY <2>1, PeekItem DEF third
<1> QED BY <1>1, <1>2, <1>3, TopType

\* The raw word pushes what its effect gives of one item, and of two.
UnaryWord(w, s) ==
  \E u : /\ RawWord(w, s) = push_data(pop_data(s), u)
         /\ Len(DataItems(s)) >= 1 =>
              /\ u \in Int
              /\ RawEffects!Gives(w, DataItems(s), ReturnItems(s), s.memory) = <<to_cell(u)>>

BinaryWord(w, s) ==
  \E u : /\ RawWord(w, s) = push_data(pop2(s), u)
         /\ Len(DataItems(s)) >= 2 =>
              /\ u \in Int
              /\ RawEffects!Gives(w, DataItems(s), ReturnItems(s), s.memory) = <<to_cell(u)>>

\* The words of one item.
LEMMA UnaryWords ==
  ASSUME NEW s \in Machine, Running(s), NEW w \in {"1+", "1-", "4+", "4-", "INVERT", "0=", "0<>", "0<", "0>", "0<=", "0>="}
  PROVE  Effects(w, s, RawWord(w, s))
<1> DEFINE D == DataItems(s)
<1>0. Len(D) \in Nat
  BY Depth
<1>t. Len(D) >= 1 => top(s) = D[Len(D)] /\ top(s) \in Int
  BY TopItem, <1>0
<1> HIDE DEF D
<1>1. ASSUME w = "1+" PROVE UnaryWord(w, s)
  <2> DEFINE u == top(s) + 1
  <2>1. RawWord(w, s) = push_data(pop_data(s), u)
    BY <1>1, Families DEF ArithmeticWords, raw_arithmetic
  <2>3. ASSUME Len(D) >= 1 PROVE u \in Int /\ RawEffects!Gives(w, D, ReturnItems(s), s.memory) = <<to_cell(u)>>
    BY <1>1, <1>t, <2>3, RawArithmetic DEF RawEffects!Gives
  <2> HIDE DEF u
  <2> QED BY <2>1, <2>3, Zenon DEF D, UnaryWord
<1>2. ASSUME w = "1-" PROVE UnaryWord(w, s)
  <2> DEFINE u == top(s) - 1
  <2>1. RawWord(w, s) = push_data(pop_data(s), u)
    BY <1>2, Families DEF ArithmeticWords, raw_arithmetic
  <2>3. ASSUME Len(D) >= 1 PROVE u \in Int /\ RawEffects!Gives(w, D, ReturnItems(s), s.memory) = <<to_cell(u)>>
    BY <1>2, <1>t, <2>3, RawArithmetic DEF RawEffects!Gives
  <2> HIDE DEF u
  <2> QED BY <2>1, <2>3, Zenon DEF D, UnaryWord
<1>3. ASSUME w = "4+" PROVE UnaryWord(w, s)
  <2> DEFINE u == top(s) + 4
  <2>1. RawWord(w, s) = push_data(pop_data(s), u)
    BY <1>3, Families DEF ArithmeticWords, raw_arithmetic
  <2>3. ASSUME Len(D) >= 1 PROVE u \in Int /\ RawEffects!Gives(w, D, ReturnItems(s), s.memory) = <<to_cell(u)>>
    BY <1>3, <1>t, <2>3, RawArithmetic DEF RawEffects!Gives
  <2> HIDE DEF u
  <2> QED BY <2>1, <2>3, Zenon DEF D, UnaryWord
<1>4. ASSUME w = "4-" PROVE UnaryWord(w, s)
  <2> DEFINE u == top(s) - 4
  <2>1. RawWord(w, s) = push_data(pop_data(s), u)
    BY <1>4, Families DEF ArithmeticWords, raw_arithmetic
  <2>3. ASSUME Len(D) >= 1 PROVE u \in Int /\ RawEffects!Gives(w, D, ReturnItems(s), s.memory) = <<to_cell(u)>>
    BY <1>4, <1>t, <2>3, RawArithmetic DEF RawEffects!Gives
  <2> HIDE DEF u
  <2> QED BY <2>1, <2>3, Zenon DEF D, UnaryWord
<1>5. ASSUME w = "INVERT" PROVE UnaryWord(w, s)
  <2> DEFINE u == -top(s) - 1
  <2>1. RawWord(w, s) = push_data(pop_data(s), u)
    BY <1>5, Families DEF BitwiseWords, raw_bitwise
  <2>3. ASSUME Len(D) >= 1 PROVE u \in Int /\ RawEffects!Gives(w, D, ReturnItems(s), s.memory) = <<to_cell(u)>>
    BY <1>5, <1>t, <2>3, RawArithmetic DEF RawEffects!Gives
  <2> HIDE DEF u
  <2> QED BY <2>1, <2>3, Zenon DEF D, UnaryWord
<1>6. ASSUME w = "0=" PROVE UnaryWord(w, s)
  <2> DEFINE u == bool_cell(top(s) = 0)
  <2>1. RawWord(w, s) = push_data(pop_data(s), u)
    BY <1>6, Families DEF ZeroTests, raw_zero_test
  <2>2. u \in Int /\ to_cell(u) = u
    BY BoolCell
  <2>3. ASSUME Len(D) >= 1 PROVE u \in Int /\ RawEffects!Gives(w, D, ReturnItems(s), s.memory) = <<to_cell(u)>>
    <3>1. RawEffects!Gives(w, D, ReturnItems(s), s.memory) = <<u>>
      BY <1>6, <1>t, <2>3 DEF RawEffects!Gives, RawEffects!bool_cell, bool_cell
    <3> QED BY <2>2, <3>1
  <2> HIDE DEF u
  <2> QED BY <2>1, <2>3, Zenon DEF D, UnaryWord
<1>7. ASSUME w = "0<>" PROVE UnaryWord(w, s)
  <2> DEFINE u == bool_cell(top(s) # 0)
  <2>1. RawWord(w, s) = push_data(pop_data(s), u)
    BY <1>7, Families DEF ZeroTests, raw_zero_test
  <2>2. u \in Int /\ to_cell(u) = u
    BY BoolCell
  <2>3. ASSUME Len(D) >= 1 PROVE u \in Int /\ RawEffects!Gives(w, D, ReturnItems(s), s.memory) = <<to_cell(u)>>
    <3>1. RawEffects!Gives(w, D, ReturnItems(s), s.memory) = <<u>>
      BY <1>7, <1>t, <2>3 DEF RawEffects!Gives, RawEffects!bool_cell, bool_cell
    <3> QED BY <2>2, <3>1
  <2> HIDE DEF u
  <2> QED BY <2>1, <2>3, Zenon DEF D, UnaryWord
<1>8. ASSUME w = "0<" PROVE UnaryWord(w, s)
  <2> DEFINE u == bool_cell(top(s) < 0)
  <2>1. RawWord(w, s) = push_data(pop_data(s), u)
    BY <1>8, Families DEF ZeroTests, raw_zero_test
  <2>2. u \in Int /\ to_cell(u) = u
    BY BoolCell
  <2>3. ASSUME Len(D) >= 1 PROVE u \in Int /\ RawEffects!Gives(w, D, ReturnItems(s), s.memory) = <<to_cell(u)>>
    <3>1. RawEffects!Gives(w, D, ReturnItems(s), s.memory) = <<u>>
      BY <1>8, <1>t, <2>3 DEF RawEffects!Gives, RawEffects!bool_cell, bool_cell
    <3> QED BY <2>2, <3>1
  <2> HIDE DEF u
  <2> QED BY <2>1, <2>3, Zenon DEF D, UnaryWord
<1>9. ASSUME w = "0>" PROVE UnaryWord(w, s)
  <2> DEFINE u == bool_cell(top(s) > 0)
  <2>1. RawWord(w, s) = push_data(pop_data(s), u)
    BY <1>9, Families DEF ZeroTests, raw_zero_test
  <2>2. u \in Int /\ to_cell(u) = u
    BY BoolCell
  <2>3. ASSUME Len(D) >= 1 PROVE u \in Int /\ RawEffects!Gives(w, D, ReturnItems(s), s.memory) = <<to_cell(u)>>
    <3>1. RawEffects!Gives(w, D, ReturnItems(s), s.memory) = <<u>>
      BY <1>9, <1>t, <2>3 DEF RawEffects!Gives, RawEffects!bool_cell, bool_cell
    <3> QED BY <2>2, <3>1
  <2> HIDE DEF u
  <2> QED BY <2>1, <2>3, Zenon DEF D, UnaryWord
<1>10. ASSUME w = "0<=" PROVE UnaryWord(w, s)
  <2> DEFINE u == bool_cell(top(s) <= 0)
  <2>1. RawWord(w, s) = push_data(pop_data(s), u)
    BY <1>10, Families DEF ZeroTests, raw_zero_test
  <2>2. u \in Int /\ to_cell(u) = u
    BY BoolCell
  <2>3. ASSUME Len(D) >= 1 PROVE u \in Int /\ RawEffects!Gives(w, D, ReturnItems(s), s.memory) = <<to_cell(u)>>
    <3>1. RawEffects!Gives(w, D, ReturnItems(s), s.memory) = <<u>>
      BY <1>10, <1>t, <2>3 DEF RawEffects!Gives, RawEffects!bool_cell, bool_cell
    <3> QED BY <2>2, <3>1
  <2> HIDE DEF u
  <2> QED BY <2>1, <2>3, Zenon DEF D, UnaryWord
<1>11. ASSUME w = "0>=" PROVE UnaryWord(w, s)
  <2> DEFINE u == bool_cell(top(s) >= 0)
  <2>1. RawWord(w, s) = push_data(pop_data(s), u)
    BY <1>11, Families DEF ZeroTests, raw_zero_test
  <2>2. u \in Int /\ to_cell(u) = u
    BY BoolCell
  <2>3. ASSUME Len(D) >= 1 PROVE u \in Int /\ RawEffects!Gives(w, D, ReturnItems(s), s.memory) = <<to_cell(u)>>
    <3>1. RawEffects!Gives(w, D, ReturnItems(s), s.memory) = <<u>>
      BY <1>11, <1>t, <2>3 DEF RawEffects!Gives, RawEffects!bool_cell, bool_cell
    <3> QED BY <2>2, <3>1
  <2> HIDE DEF u
  <2> QED BY <2>1, <2>3, Zenon DEF D, UnaryWord
<1>12. UnaryWord(w, s)
  BY <1>1, <1>2, <1>3, <1>4, <1>5, <1>6, <1>7, <1>8, <1>9, <1>10, <1>11
<1>13. w \in Plain /\ RawEffects!Takes(w) = 1
  BY DEF Plain, Words, StackWords, ArithmeticWords, ComparisonWords, ZeroTests, BitwiseWords, MemoryWords, ReturnWords, RawEffects!Takes
<1> QED BY <1>12, <1>13, UnaryEffect DEF UnaryWord

\* The words of two.
LEMMA BinaryWords ==
  ASSUME NEW s \in Machine, Running(s), NEW w \in {"+", "-", "*", "AND", "OR", "XOR", "=", "<>", "<", ">", "<=", ">="}
  PROVE  Effects(w, s, RawWord(w, s))
<1> DEFINE D == DataItems(s)
<1>0. Len(D) \in Nat
  BY Depth
<1>t. Len(D) >= 2 => second(s) = D[Len(D) - 1] /\ second(s) \in Int /\ top(s) = D[Len(D)] /\ top(s) \in Int
  BY TopItem, <1>0
<1> HIDE DEF D
<1>1. ASSUME w = "+" PROVE BinaryWord(w, s)
  <2> DEFINE u == second(s) + top(s)
  <2>1. RawWord(w, s) = push_data(pop2(s), u)
    BY <1>1, Families DEF ArithmeticWords, raw_arithmetic
  <2>3. ASSUME Len(D) >= 2 PROVE u \in Int /\ RawEffects!Gives(w, D, ReturnItems(s), s.memory) = <<to_cell(u)>>
    BY <1>1, <1>t, <2>3, RawArithmetic DEF RawEffects!Gives
  <2> HIDE DEF u
  <2> QED BY <2>1, <2>3, Zenon DEF D, BinaryWord
<1>2. ASSUME w = "-" PROVE BinaryWord(w, s)
  <2> DEFINE u == second(s) - top(s)
  <2>1. RawWord(w, s) = push_data(pop2(s), u)
    BY <1>2, Families DEF ArithmeticWords, raw_arithmetic
  <2>3. ASSUME Len(D) >= 2 PROVE u \in Int /\ RawEffects!Gives(w, D, ReturnItems(s), s.memory) = <<to_cell(u)>>
    BY <1>2, <1>t, <2>3, RawArithmetic DEF RawEffects!Gives
  <2> HIDE DEF u
  <2> QED BY <2>1, <2>3, Zenon DEF D, BinaryWord
<1>3. ASSUME w = "*" PROVE BinaryWord(w, s)
  <2> DEFINE u == second(s) * top(s)
  <2>1. RawWord(w, s) = push_data(pop2(s), u)
    BY <1>3, Families DEF ArithmeticWords, raw_arithmetic
  <2>3. ASSUME Len(D) >= 2 PROVE u \in Int /\ RawEffects!Gives(w, D, ReturnItems(s), s.memory) = <<to_cell(u)>>
    BY <1>3, <1>t, <2>3, RawArithmetic DEF RawEffects!Gives
  <2> HIDE DEF u
  <2> QED BY <2>1, <2>3, Zenon DEF D, BinaryWord
<1>4. ASSUME w = "AND" PROVE BinaryWord(w, s)
  <2> DEFINE u == bit_and(second(s), top(s))
  <2>1. RawWord(w, s) = push_data(pop2(s), u)
    BY <1>4, Families DEF BitwiseWords, raw_bitwise
  <2>2. u \in Int
    BY BitwiseType
  <2>3. ASSUME Len(D) >= 2 PROVE u \in Int /\ RawEffects!Gives(w, D, ReturnItems(s), s.memory) = <<to_cell(u)>>
    BY <1>4, <1>t, <2>2, <2>3, RawArithmetic DEF RawEffects!Gives
  <2> HIDE DEF u
  <2> QED BY <2>1, <2>3, Zenon DEF D, BinaryWord
<1>5. ASSUME w = "OR" PROVE BinaryWord(w, s)
  <2> DEFINE u == bit_or(second(s), top(s))
  <2>1. RawWord(w, s) = push_data(pop2(s), u)
    BY <1>5, Families DEF BitwiseWords, raw_bitwise
  <2>2. u \in Int
    BY BitwiseType
  <2>3. ASSUME Len(D) >= 2 PROVE u \in Int /\ RawEffects!Gives(w, D, ReturnItems(s), s.memory) = <<to_cell(u)>>
    BY <1>5, <1>t, <2>2, <2>3, RawArithmetic DEF RawEffects!Gives
  <2> HIDE DEF u
  <2> QED BY <2>1, <2>3, Zenon DEF D, BinaryWord
<1>6. ASSUME w = "XOR" PROVE BinaryWord(w, s)
  <2> DEFINE u == bit_xor(second(s), top(s))
  <2>1. RawWord(w, s) = push_data(pop2(s), u)
    BY <1>6, Families DEF BitwiseWords, raw_bitwise
  <2>2. u \in Int
    BY BitwiseType
  <2>3. ASSUME Len(D) >= 2 PROVE u \in Int /\ RawEffects!Gives(w, D, ReturnItems(s), s.memory) = <<to_cell(u)>>
    BY <1>6, <1>t, <2>2, <2>3, RawArithmetic DEF RawEffects!Gives
  <2> HIDE DEF u
  <2> QED BY <2>1, <2>3, Zenon DEF D, BinaryWord
<1>7. ASSUME w = "=" PROVE BinaryWord(w, s)
  <2> DEFINE u == bool_cell(second(s) = top(s))
  <2>1. RawWord(w, s) = push_data(pop2(s), u)
    BY <1>7, Families DEF ComparisonWords, raw_comparison
  <2>2. u \in Int /\ to_cell(u) = u
    BY BoolCell
  <2>3. ASSUME Len(D) >= 2 PROVE u \in Int /\ RawEffects!Gives(w, D, ReturnItems(s), s.memory) = <<to_cell(u)>>
    <3>1. RawEffects!Gives(w, D, ReturnItems(s), s.memory) = <<u>>
      BY <1>7, <1>t, <2>3 DEF RawEffects!Gives, RawEffects!bool_cell, bool_cell
    <3> QED BY <2>2, <3>1
  <2> HIDE DEF u
  <2> QED BY <2>1, <2>3, Zenon DEF D, BinaryWord
<1>8. ASSUME w = "<>" PROVE BinaryWord(w, s)
  <2> DEFINE u == bool_cell(second(s) # top(s))
  <2>1. RawWord(w, s) = push_data(pop2(s), u)
    BY <1>8, Families DEF ComparisonWords, raw_comparison
  <2>2. u \in Int /\ to_cell(u) = u
    BY BoolCell
  <2>3. ASSUME Len(D) >= 2 PROVE u \in Int /\ RawEffects!Gives(w, D, ReturnItems(s), s.memory) = <<to_cell(u)>>
    <3>1. RawEffects!Gives(w, D, ReturnItems(s), s.memory) = <<u>>
      BY <1>8, <1>t, <2>3 DEF RawEffects!Gives, RawEffects!bool_cell, bool_cell
    <3> QED BY <2>2, <3>1
  <2> HIDE DEF u
  <2> QED BY <2>1, <2>3, Zenon DEF D, BinaryWord
<1>9. ASSUME w = "<" PROVE BinaryWord(w, s)
  <2> DEFINE u == bool_cell(second(s) < top(s))
  <2>1. RawWord(w, s) = push_data(pop2(s), u)
    BY <1>9, Families DEF ComparisonWords, raw_comparison
  <2>2. u \in Int /\ to_cell(u) = u
    BY BoolCell
  <2>3. ASSUME Len(D) >= 2 PROVE u \in Int /\ RawEffects!Gives(w, D, ReturnItems(s), s.memory) = <<to_cell(u)>>
    <3>1. RawEffects!Gives(w, D, ReturnItems(s), s.memory) = <<u>>
      BY <1>9, <1>t, <2>3 DEF RawEffects!Gives, RawEffects!bool_cell, bool_cell
    <3> QED BY <2>2, <3>1
  <2> HIDE DEF u
  <2> QED BY <2>1, <2>3, Zenon DEF D, BinaryWord
<1>10. ASSUME w = ">" PROVE BinaryWord(w, s)
  <2> DEFINE u == bool_cell(second(s) > top(s))
  <2>1. RawWord(w, s) = push_data(pop2(s), u)
    BY <1>10, Families DEF ComparisonWords, raw_comparison
  <2>2. u \in Int /\ to_cell(u) = u
    BY BoolCell
  <2>3. ASSUME Len(D) >= 2 PROVE u \in Int /\ RawEffects!Gives(w, D, ReturnItems(s), s.memory) = <<to_cell(u)>>
    <3>1. RawEffects!Gives(w, D, ReturnItems(s), s.memory) = <<u>>
      BY <1>10, <1>t, <2>3 DEF RawEffects!Gives, RawEffects!bool_cell, bool_cell
    <3> QED BY <2>2, <3>1
  <2> HIDE DEF u
  <2> QED BY <2>1, <2>3, Zenon DEF D, BinaryWord
<1>11. ASSUME w = "<=" PROVE BinaryWord(w, s)
  <2> DEFINE u == bool_cell(second(s) <= top(s))
  <2>1. RawWord(w, s) = push_data(pop2(s), u)
    BY <1>11, Families DEF ComparisonWords, raw_comparison
  <2>2. u \in Int /\ to_cell(u) = u
    BY BoolCell
  <2>3. ASSUME Len(D) >= 2 PROVE u \in Int /\ RawEffects!Gives(w, D, ReturnItems(s), s.memory) = <<to_cell(u)>>
    <3>1. RawEffects!Gives(w, D, ReturnItems(s), s.memory) = <<u>>
      BY <1>11, <1>t, <2>3 DEF RawEffects!Gives, RawEffects!bool_cell, bool_cell
    <3> QED BY <2>2, <3>1
  <2> HIDE DEF u
  <2> QED BY <2>1, <2>3, Zenon DEF D, BinaryWord
<1>12. ASSUME w = ">=" PROVE BinaryWord(w, s)
  <2> DEFINE u == bool_cell(second(s) >= top(s))
  <2>1. RawWord(w, s) = push_data(pop2(s), u)
    BY <1>12, Families DEF ComparisonWords, raw_comparison
  <2>2. u \in Int /\ to_cell(u) = u
    BY BoolCell
  <2>3. ASSUME Len(D) >= 2 PROVE u \in Int /\ RawEffects!Gives(w, D, ReturnItems(s), s.memory) = <<to_cell(u)>>
    <3>1. RawEffects!Gives(w, D, ReturnItems(s), s.memory) = <<u>>
      BY <1>12, <1>t, <2>3 DEF RawEffects!Gives, RawEffects!bool_cell, bool_cell
    <3> QED BY <2>2, <3>1
  <2> HIDE DEF u
  <2> QED BY <2>1, <2>3, Zenon DEF D, BinaryWord
<1>13. BinaryWord(w, s)
  BY <1>1, <1>2, <1>3, <1>4, <1>5, <1>6, <1>7, <1>8, <1>9, <1>10, <1>11, <1>12
<1>14. w \in Plain /\ RawEffects!Takes(w) = 2
  BY DEF Plain, Words, StackWords, ArithmeticWords, ComparisonWords, ZeroTests, BitwiseWords, MemoryWords, ReturnWords, RawEffects!Takes
<1> QED BY <1>13, <1>14, BinaryEffect DEF BinaryWord

\* The three ways a data stack word can end.
LEMMA PlainEnds ==
  ASSUME NEW s \in Machine, NEW w \in Plain, NEW k \in Nat, RawEffects!Takes(w) = k,
         NEW g, Len(DataItems(s)) >= k =>
                  RawEffects!Gives(w, DataItems(s), ReturnItems(s), s.memory) = g,
         NEW t,
         \/ Len(DataItems(s)) < k /\ Failed(s, t, "StackUnderflow")
         \/ /\ Len(DataItems(s)) >= k /\ Len(DataItems(s)) - k + Len(g) > StackSize
            /\ Failed(s, t, "StackOverflow")
         \/ /\ Len(DataItems(s)) >= k /\ ~(Len(DataItems(s)) - k + Len(g) > StackSize)
            /\ Replaced(s, t, k, g)
  PROVE  Effects(w, s, t)
<1>1. CASE Len(DataItems(s)) < k /\ Failed(s, t, "StackUnderflow")
  <2>1. FailureOf(w, s) = "StackUnderflow"
    BY <1>1, PlainFailure
  <2> QED BY <1>1, <2>1, WordFails
<1>2. CASE /\ Len(DataItems(s)) >= k /\ Len(DataItems(s)) - k + Len(g) > StackSize
           /\ Failed(s, t, "StackOverflow")
  <2>1. FailureOf(w, s) = "StackOverflow"
    BY <1>2, PlainFailure
  <2> QED BY <1>2, <2>1, WordFails
<1>3. CASE /\ Len(DataItems(s)) >= k /\ ~(Len(DataItems(s)) - k + Len(g) > StackSize)
           /\ Replaced(s, t, k, g)
  <2>1. FailureOf(w, s) = "none"
    BY <1>3, PlainFailure
  <2> QED BY <1>3, <2>1, PlainSucceeds
<1> QED BY <1>1, <1>2, <1>3

\* What a word leaves alone when it has already failed.
LEMMA StaysFailed ==
  ASSUME NEW s, NEW t, NEW e, Failed(s, t, e)
  PROVE  /\ \A v : push_data(t, v) = t /\ push_return(t, v) = t
         /\ pop_data(t) = t /\ pop_return(t) = t
         /\ \A p : set_dsp(t, p) = t /\ set_rsp(t, p) = t
         /\ \A a, v : write_cell(t, a, v) = t /\ write_byte(t, a, v) = t
         /\ \A a, n : check_memory(t, a, n) = t
         /\ \A n, values : replace_data_window(t, n, values) = t
         /\ \A a, b, n : copy_bytes(t, a, b, n) = t
         /\ ~Running(t)
<1>1. ~Running(t)
  BY DEF Failed, Running
<1> QED BY <1>1, Stopped

\* The stack words, and how many items each takes.
LEMMA StackWordFacts ==
  ASSUME NEW w \in StackWords
  PROVE  /\ w \in Plain
         /\ RawEffects!Takes(w) =
              IF w = "2SWAP" THEN 4 ELSE IF w \in {"ROT", "-ROT"} THEN 3
              ELSE IF w \in {"SWAP", "OVER", "2DROP", "2DUP"} THEN 2 ELSE 1
<1>1. w \in Plain
  BY DEF Plain, Words, StackWords, MemoryWords
<1>2. ASSUME w \in {"DROP", "DUP", "?DUP"} PROVE RawEffects!Takes(w) = 1
  BY <1>2 DEF RawEffects!Takes
<1>3. ASSUME w \in {"SWAP", "OVER", "2DROP", "2DUP"} PROVE RawEffects!Takes(w) = 2
  BY <1>3 DEF RawEffects!Takes
<1>4. ASSUME w \in {"ROT", "-ROT"} PROVE RawEffects!Takes(w) = 3
  BY <1>4 DEF RawEffects!Takes
<1>5. ASSUME w = "2SWAP" PROVE RawEffects!Takes(w) = 4
  BY <1>5 DEF RawEffects!Takes
<1> QED BY <1>1, <1>2, <1>3, <1>4, <1>5 DEF StackWords

\* DROP and 2DROP.
LEMMA DropWords ==
  ASSUME NEW s \in Machine, Running(s), NEW w \in {"DROP", "2DROP"}
  PROVE  Effects(w, s, RawWord(w, s))
<1>0. Len(DataItems(s)) \in Nat /\ Len(DataItems(s)) <= StackSize
  BY Depth
<1>1. w \in StackWords /\ w \in Plain
  BY StackWordFacts DEF StackWords
<1>2. RawEffects!Gives(w, DataItems(s), ReturnItems(s), s.memory) = <<>>
  BY DEF RawEffects!Gives
<1>3. PICK g : g = <<>> /\ Len(g) = 0
  OBVIOUS
<1>4. CASE w = "DROP"
  <2>1. RawWord(w, s) = pop_data(s) /\ RawEffects!Takes(w) = 1
    BY <1>1, <1>4, Families, StackWordFacts DEF raw_stack
  <2> QED BY <1>0, <1>1, <1>2, <1>3, <2>1, PopsReplaced, PopsFail, PlainEnds
<1>5. CASE w = "2DROP"
  <2>1. RawWord(w, s) = pop2(s) /\ RawEffects!Takes(w) = 2
    BY <1>1, <1>5, Families, StackWordFacts DEF raw_stack
  <2> QED BY <1>0, <1>1, <1>2, <1>3, <2>1, PopsReplaced, PopsFail, PlainEnds
<1> QED BY <1>4, <1>5

\* Short sequences.
LEMMA Tuples ==
  /\ Len(<<>>) = 0
  /\ \A a : Append(<<>>, a) = <<a>> /\ Len(<<a>>) = 1
  /\ \A a, b : Append(<<a>>, b) = <<a, b>> /\ Len(<<a, b>>) = 2
  /\ \A a, b, c : Append(<<a, b>>, c) = <<a, b, c>> /\ Len(<<a, b, c>>) = 3
  /\ \A a, b, c, d : Append(<<a, b, c>>, d) = <<a, b, c, d>> /\ Len(<<a, b, c, d>>) = 4
<1>1. ASSUME NEW a PROVE Append(<<>>, a) = <<a>> /\ Len(<<a>>) = 1
  OBVIOUS
<1>2. ASSUME NEW a, NEW b
      PROVE  Append(<<a>>, b) = <<a, b>> /\ Len(<<a, b>>) = 2
  <2>1. PICK S, p, q : S = {a, b} /\ p = <<a>> /\ q = <<a, b>>
    OBVIOUS
  <2>2. p \in Seq(S) /\ q \in Seq(S) /\ b \in S
    BY <2>1
  <2>3. Len(q) = 2 /\ Len(p) = 1 /\ q[2] = b /\ \A i \in 1 .. 1 : q[i] = p[i]
    BY <2>1
  <2>5. Len(q) = Len(p) + 1 /\ q[Len(p) + 1] = b /\ \A i \in 1 .. Len(p) : q[i] = p[i]
    BY <2>3
  <2>4. q = Append(p, b)
    BY <2>2, <2>5, AppendEqual
  <2> QED BY <2>1, <2>3, <2>4, Zenon
<1>3. ASSUME NEW a, NEW b, NEW c
      PROVE  Append(<<a, b>>, c) = <<a, b, c>> /\ Len(<<a, b, c>>) = 3
  <2>1. PICK S, p, q : S = {a, b, c} /\ p = <<a, b>> /\ q = <<a, b, c>>
    OBVIOUS
  <2>2. p \in Seq(S) /\ q \in Seq(S) /\ c \in S
    BY <2>1
  <2>3. Len(q) = 3 /\ Len(p) = 2 /\ q[3] = c /\ \A i \in 1 .. 2 : q[i] = p[i]
    BY <2>1
  <2>5. Len(q) = Len(p) + 1 /\ q[Len(p) + 1] = c /\ \A i \in 1 .. Len(p) : q[i] = p[i]
    BY <2>3
  <2>4. q = Append(p, c)
    BY <2>2, <2>5, AppendEqual
  <2> QED BY <2>1, <2>3, <2>4, Zenon
<1>4. ASSUME NEW a, NEW b, NEW c, NEW d
      PROVE  Append(<<a, b, c>>, d) = <<a, b, c, d>> /\ Len(<<a, b, c, d>>) = 4
  <2>1. PICK S, p, q : S = {a, b, c, d} /\ p = <<a, b, c>> /\ q = <<a, b, c, d>>
    OBVIOUS
  <2>2. p \in Seq(S) /\ q \in Seq(S) /\ d \in S
    BY <2>1
  <2>3. Len(q) = 4 /\ Len(p) = 3 /\ q[4] = d /\ \A i \in 1 .. 3 : q[i] = p[i]
    BY <2>1
  <2>5. Len(q) = Len(p) + 1 /\ q[Len(p) + 1] = d /\ \A i \in 1 .. Len(p) : q[i] = p[i]
    BY <2>3
  <2>4. q = Append(p, d)
    BY <2>2, <2>5, AppendEqual
  <2> QED BY <2>1, <2>3, <2>4, Zenon
<1> QED BY <1>1, <1>2, <1>3, <1>4

\* A push of a cell keeps it as it is.
LEMMA PushItem ==
  ASSUME NEW s \in Machine, NEW t, NEW k, NEW g, Replaced(s, t, k, g),
         NEW v \in Cell, Len(DataItems(s)) - k + Len(g) < StackSize
  PROVE  Replaced(s, push_data(t, v), k, Append(g, v))
<1>1. v \in Int /\ to_cell(v) = v
  BY ToCell
<1>2. Replaced(s, push_data(t, v), k, Append(g, to_cell(v)))
  BY <1>1, PushReplaced
<1> QED BY <1>1, <1>2

\* SWAP pushes the items back in the other order.
LEMMA SwapEffect ==
  ASSUME NEW s \in Machine, Running(s)
  PROVE  Effects("SWAP", s, RawWord("SWAP", s))
<1> DEFINE D == DataItems(s)
           g == <<top(s), second(s)>>
<1>0. Len(D) \in Nat /\ Len(D) <= StackSize
  BY Depth
<1>1. "SWAP" \in StackWords /\ "SWAP" \in Plain /\ RawEffects!Takes("SWAP") = 2
  BY StackWordFacts DEF StackWords
<1>2. RawWord("SWAP", s) = push_data(push_data(pop2(s), top(s)), second(s))
  BY <1>1, Families DEF raw_stack
<1>3. Len(D) >= 2 => RawEffects!Gives("SWAP", D, ReturnItems(s), s.memory) = g
  <2> HIDE DEF D
  <2>1. Len(D) >= 2 => Len(D) >= 1 /\ top(s) = D[Len(D)] /\ second(s) = D[Len(D) - 1]
    BY <1>0, TopItem DEF D
  <2> QED BY <2>1 DEF RawEffects!Gives
<1>4. CASE Len(D) < 2
  <2>1. Failed(s, pop2(s), "StackUnderflow")
    BY <1>4, PopsFail
  <2>2. RawWord("SWAP", s) = pop2(s)
    BY <1>2, <2>1, StaysFailed, Zenon
  <2> QED BY <1>1, <1>3, <1>4, <2>1, <2>2, PlainEnds
<1>5. CASE Len(D) >= 2
  <2>1. top(s) \in Cell /\ second(s) \in Cell
    BY <1>0, <1>5, TopItem
  <2>2. Replaced(s, pop2(s), 2, <<>>)
    BY <1>5, PopsReplaced
  <2>3. Replaced(s, push_data(pop2(s), top(s)), 2, <<top(s)>>)
    <3>1. Len(D) - 2 + Len(<<>>) < StackSize
      BY <1>0, Tuples
    <3>2. Replaced(s, push_data(pop2(s), top(s)), 2, Append(<<>>, top(s)))
      BY <2>1, <2>2, <3>1, PushItem
    <3> QED BY <3>2, Tuples, Zenon
  <2>6. Replaced(s, push_data(push_data(pop2(s), top(s)), second(s)), 2, g) /\ Len(g) = 2
    <3>1. Len(D) - 2 + Len(<<top(s)>>) < StackSize
      BY <1>0, Tuples
    <3>2. Replaced(s, push_data(push_data(pop2(s), top(s)), second(s)), 2, Append(<<top(s)>>, second(s)))
      BY <2>1, <2>3, <3>1, PushItem
    <3> QED BY <3>2, Tuples, Zenon
  <2>7. ~(Len(D) - 2 + Len(g) > StackSize)
    BY <1>0, <2>6
  <2>8. Replaced(s, RawWord("SWAP", s), 2, g)
    BY <1>2, <2>6, Zenon
  <2> HIDE DEF g
  <2> QED BY <1>1, <1>3, <1>5, <2>7, <2>8, PlainEnds
<1> QED BY <1>0, <1>4, <1>5

\* A word that pushes a copy v of one of the k items it looks at.
LEMMA CopyEffect ==
  ASSUME NEW s \in Machine, Running(s), NEW w \in Plain, NEW k \in Nat, RawEffects!Takes(w) = k,
         NEW h, NEW v, NEW t,
         Len(DataItems(s)) < k => Failed(s, t, "StackUnderflow"),
         Len(DataItems(s)) >= k =>
           /\ Replaced(s, s, k, h) /\ Len(h) = k /\ v \in Cell /\ t = push_data(s, v)
           /\ RawEffects!Gives(w, DataItems(s), ReturnItems(s), s.memory) = Append(h, v)
  PROVE  Effects(w, s, t)
<1>0. Len(DataItems(s)) \in Nat /\ Len(DataItems(s)) <= StackSize
  BY Depth
<1>1. CASE Len(DataItems(s)) < k
  BY <1>0, <1>1, PlainEnds
<1>2. CASE Len(DataItems(s)) >= k
  <2>1. PICK g : g = Append(h, v)
    OBVIOUS
  <2>2. Len(g) = k + 1
    <3>1. h \in Seq(Cell) /\ v \in Cell
      BY <1>2, Zenon DEF Replaced
    <3> QED BY <1>2, <2>1, <3>1
  <2>3. CASE Len(DataItems(s)) = StackSize
    <3>1. Replaced(s, s, 0, <<>>)
      BY TopItems, Zenon
    <3>2. Len(DataItems(s)) - 0 + Len(<<>>) >= StackSize
      BY <1>0, <2>3, Tuples
    <3>3. Failed(s, t, "StackOverflow")
      BY <1>2, <3>1, <3>2, PushFails
    <3>4. Len(DataItems(s)) - k + Len(g) > StackSize
      BY <1>0, <2>2, <2>3
    <3> QED BY <1>2, <2>1, <3>3, <3>4, PlainEnds
  <2>4. CASE Len(DataItems(s)) < StackSize
    <3>1. Len(DataItems(s)) - k + Len(h) < StackSize
      BY <1>0, <1>2, <2>4
    <3>2. Replaced(s, t, k, g)
      BY <1>2, <2>1, <3>1, PushItem
    <3>3. ~(Len(DataItems(s)) - k + Len(g) > StackSize)
      BY <1>0, <2>2, <2>4
    <3> QED BY <1>2, <2>1, <3>2, <3>3, PlainEnds
  <2> QED BY <1>0, <2>3, <2>4
<1> QED BY <1>0, <1>1, <1>2

\* DUP and OVER.
LEMMA DupEffect ==
  ASSUME NEW s \in Machine, Running(s), NEW w \in {"DUP", "OVER"}
  PROVE  Effects(w, s, RawWord(w, s))
<1> DEFINE D == DataItems(s)
<1>0. Len(D) \in Nat /\ Len(D) <= StackSize
  BY Depth
<1>1. w \in StackWords /\ w \in Plain
  BY StackWordFacts DEF StackWords
<1>2. CASE w = "DUP"
  <2>1. RawWord(w, s) = push_data(peekable(s, 0), top(s)) /\ RawEffects!Takes(w) = 1
    BY <1>1, <1>2, Families, StackWordFacts DEF raw_stack
  <2>2. ASSUME Len(D) < 1 PROVE Failed(s, RawWord(w, s), "StackUnderflow")
    <3>1. Failed(s, peekable(s, 0), "StackUnderflow")
      BY <1>0, <2>2, WindowFails
    <3> QED BY <2>1, <3>1, StaysFailed, Zenon
  <2>3. ASSUME Len(D) >= 1
        PROVE  /\ Replaced(s, s, 1, <<top(s)>>) /\ top(s) \in Cell
               /\ RawWord(w, s) = push_data(s, top(s))
               /\ RawEffects!Gives(w, D, ReturnItems(s), s.memory) = Append(<<top(s)>>, top(s))
    <3>1. peekable(s, 0) = s
      BY <1>0, <2>3, WindowFails
    <3>2. top(s) = D[Len(D)] /\ top(s) \in Cell
      BY <2>3, TopItem
    <3>3. Item(s, 0) = top(s)
      BY <1>0, <3>2 DEF Item
    <3>4. Replaced(s, s, 1, <<top(s)>>)
      BY <2>3, <3>3, TopItems
    <3>5. RawEffects!Gives(w, D, ReturnItems(s), s.memory) = <<top(s), top(s)>>
      <4> HIDE DEF D
      <4> QED BY <1>2, <3>2 DEF RawEffects!Gives
    <3>6. <<top(s), top(s)>> = Append(<<top(s)>>, top(s))
      BY Tuples, Zenon
    <3> QED BY <2>1, <3>1, <3>2, <3>4, <3>5, <3>6, Zenon
  <2>4. PICK h : h = <<top(s)>> /\ Len(h) = 1
    BY Tuples, Zenon
  <2> QED BY <1>1, <2>1, <2>2, <2>3, <2>4, CopyEffect
<1>3. CASE w = "OVER"
  <2>1. RawWord(w, s) = push_data(peekable(s, 1), second(s)) /\ RawEffects!Takes(w) = 2
    BY <1>1, <1>3, Families, StackWordFacts DEF raw_stack
  <2>2. ASSUME Len(D) < 2 PROVE Failed(s, RawWord(w, s), "StackUnderflow")
    <3>1. Failed(s, peekable(s, 1), "StackUnderflow")
      BY <1>0, <2>2, WindowFails
    <3> QED BY <2>1, <3>1, StaysFailed, Zenon
  <2>3. ASSUME Len(D) >= 2
        PROVE  /\ Replaced(s, s, 2, <<second(s), top(s)>>) /\ second(s) \in Cell
               /\ RawWord(w, s) = push_data(s, second(s))
               /\ RawEffects!Gives(w, D, ReturnItems(s), s.memory) = Append(<<second(s), top(s)>>, second(s))
    <3>1. peekable(s, 1) = s
      BY <1>0, <2>3, WindowFails
    <3>2. top(s) = D[Len(D)] /\ second(s) = D[Len(D) - 1] /\ second(s) \in Cell
      BY <1>0, <2>3, TopItem
    <3>3. Item(s, 0) = top(s) /\ Item(s, 1) = second(s)
      BY <1>0, <3>2 DEF Item
    <3>4. Replaced(s, s, 2, <<second(s), top(s)>>)
      BY <2>3, <3>3, TopItems
    <3>5. RawEffects!Gives(w, D, ReturnItems(s), s.memory) = <<second(s), top(s), second(s)>>
      <4> HIDE DEF D
      <4> QED BY <1>3, <3>2 DEF RawEffects!Gives
    <3>6. <<second(s), top(s), second(s)>> = Append(<<second(s), top(s)>>, second(s))
      BY Tuples, Zenon
    <3> QED BY <2>1, <3>1, <3>2, <3>4, <3>5, <3>6, Zenon
  <2>4. PICK h : h = <<second(s), top(s)>> /\ Len(h) = 2
    BY Tuples, Zenon
  <2> QED BY <1>1, <2>1, <2>2, <2>3, <2>4, CopyEffect
<1> QED BY <1>2, <1>3

\* ?DUP copies the top item unless it is zero.
LEMMA QuestionDupEffect ==
  ASSUME NEW s \in Machine, Running(s)
  PROVE  Effects("?DUP", s, RawWord("?DUP", s))
<1> DEFINE D == DataItems(s)
<1>0. Len(D) \in Nat /\ Len(D) <= StackSize
  BY Depth
<1>1. "?DUP" \in StackWords /\ "?DUP" \in Plain /\ RawEffects!Takes("?DUP") = 1
  BY StackWordFacts DEF StackWords
<1>2. RawWord("?DUP", s) = IF Running(peekable(s, 0)) /\ top(peekable(s, 0)) # 0
                           THEN push_data(peekable(s, 0), top(peekable(s, 0))) ELSE peekable(s, 0)
  BY <1>1, Families DEF raw_stack
<1>3. CASE Len(D) < 1
  <2>1. Failed(s, peekable(s, 0), "StackUnderflow")
    BY <1>0, <1>3, WindowFails
  <2>2. RawWord("?DUP", s) = peekable(s, 0)
    BY <1>2, <2>1, StaysFailed, Zenon
  <2> QED BY <1>0, <1>1, <1>3, <2>1, <2>2, PlainEnds
<1>4. CASE Len(D) >= 1
  <2>1. peekable(s, 0) = s
    BY <1>0, <1>4, WindowFails
  <2>2. top(s) = D[Len(D)] /\ top(s) \in Cell
    BY <1>4, TopItem
  <2>3. Item(s, 0) = top(s)
    BY <1>0, <2>2 DEF Item
  <2>4. Replaced(s, s, 1, <<top(s)>>)
    BY <1>4, <2>3, TopItems
  <2>5. RawEffects!Gives("?DUP", D, ReturnItems(s), s.memory) =
          IF top(s) = 0 THEN <<top(s)>> ELSE <<top(s), top(s)>>
    <3> HIDE DEF D
    <3> QED BY <2>2 DEF RawEffects!Gives
  <2>6. PICK h : h = <<top(s)>> /\ Len(h) = 1 /\ Append(h, top(s)) = <<top(s), top(s)>>
    BY Tuples, Zenon
  <2>7. CASE top(s) = 0
    <3>1. RawWord("?DUP", s) = s
      BY <1>2, <2>1, <2>7, Zenon
    <3>2. ~(Len(D) - 1 + Len(h) > StackSize)
      BY <1>0, <2>6
    <3>3. Replaced(s, s, 1, h) /\ RawEffects!Gives("?DUP", D, ReturnItems(s), s.memory) = h
      BY <2>4, <2>5, <2>6, <2>7, Zenon
    <3> QED BY <1>1, <1>4, <3>1, <3>2, <3>3, PlainEnds
  <2>8. CASE top(s) # 0
    <3>1. RawWord("?DUP", s) = push_data(s, top(s))
      BY <1>2, <2>1, <2>8, Zenon
    <3>2. Replaced(s, s, 1, h) /\ RawEffects!Gives("?DUP", D, ReturnItems(s), s.memory) = Append(h, top(s))
      BY <2>4, <2>5, <2>6, <2>8, Zenon
    <3>3. ~(Len(D) < 1)
      BY <1>0, <1>4
    <3> QED BY <1>1, <1>4, <2>2, <2>6, <3>1, <3>2, <3>3, CopyEffect
  <2> QED BY <2>7, <2>8
<1> QED BY <1>0, <1>3, <1>4

\* 2DUP: the second push may find no room after the first.
LEMMA TwoDupEffect ==
  ASSUME NEW s \in Machine, Running(s)
  PROVE  Effects("2DUP", s, RawWord("2DUP", s))
<1> DEFINE D == DataItems(s)
           a == second(s)
           b == top(s)
<1>0. Len(D) \in Nat /\ Len(D) <= StackSize
  BY Depth
<1>1. "2DUP" \in StackWords /\ "2DUP" \in Plain /\ RawEffects!Takes("2DUP") = 2
  BY StackWordFacts DEF StackWords
<1>2. RawWord("2DUP", s) = push_data(push_data(windowed(s, 2), a), b)
  BY <1>1, Families DEF raw_stack
<1>3. CASE Len(D) < 2
  <2>1. Failed(s, windowed(s, 2), "StackUnderflow")
    BY <1>0, <1>3, WindowFails
  <2>2. RawWord("2DUP", s) = windowed(s, 2)
    BY <1>2, <2>1, StaysFailed, Zenon
  <2> QED BY <1>0, <1>1, <1>3, <2>1, <2>2, PlainEnds
<1>4. CASE Len(D) >= 2
  <2>1. windowed(s, 2) = s
    BY <1>0, <1>4, WindowFails
  <2>2. b = D[Len(D)] /\ b \in Cell /\ a = D[Len(D) - 1] /\ a \in Cell
    BY <1>0, <1>4, TopItem
  <2>3. Item(s, 0) = b /\ Item(s, 1) = a
    BY <1>0, <2>2 DEF Item
  <2>4. Replaced(s, s, 2, <<a, b>>) /\ Replaced(s, s, 0, <<>>)
    BY <1>4, <2>3, TopItems
  <2>5. RawEffects!Gives("2DUP", D, ReturnItems(s), s.memory) = <<a, b, a, b>>
    <3> HIDE DEF D, a, b
    <3> QED BY <2>2 DEF RawEffects!Gives
  <2>6. RawWord("2DUP", s) = push_data(push_data(s, a), b)
    BY <1>2, <2>1, Zenon
  <2> HIDE DEF a, b
  <2>7. PICK g : g = <<a, b, a, b>> /\ Len(g) = 4
    <3>1. Len(<<a, b, a, b>>) = 4
      OBVIOUS
    <3> QED BY <3>1, Zenon
  <2>8. CASE Len(D) = StackSize
    <3>1. Len(D) - 0 + Len(<<>>) >= StackSize
      BY <1>0, <2>8, Tuples
    <3>2. Failed(s, push_data(s, a), "StackOverflow")
      BY <2>4, <3>1, PushFails
    <3>3. RawWord("2DUP", s) = push_data(s, a)
      BY <2>6, <3>2, StaysFailed, Zenon
    <3>4. Len(D) - 2 + Len(g) > StackSize
      BY <1>0, <2>7, <2>8
    <3> QED BY <1>1, <1>4, <2>5, <2>7, <3>2, <3>3, <3>4, PlainEnds
  <2>9. CASE Len(D) + 1 = StackSize
    <3>1. Len(D) - 0 + Len(<<>>) < StackSize
      BY <1>0, <2>9, Tuples
    <3>2. Replaced(s, push_data(s, a), 0, <<a>>)
      <4>1. Replaced(s, push_data(s, a), 0, Append(<<>>, a))
        BY <2>2, <2>4, <3>1, PushItem
      <4> QED BY <4>1, Tuples, Zenon
    <3>3. Len(D) - 0 + Len(<<a>>) >= StackSize
      BY <1>0, <2>9, Tuples
    <3>4. Failed(s, RawWord("2DUP", s), "StackOverflow")
      BY <2>6, <3>2, <3>3, PushFails
    <3>5. Len(D) - 2 + Len(g) > StackSize
      BY <1>0, <2>7, <2>9
    <3> QED BY <1>1, <1>4, <2>5, <2>7, <3>4, <3>5, PlainEnds
  <2>10. CASE Len(D) + 1 < StackSize
    <3>1. Len(D) - 2 + Len(<<a, b>>) < StackSize
      BY <1>0, <2>10, Tuples
    <3>2. Replaced(s, push_data(s, a), 2, Append(<<a, b>>, a))
      BY <2>2, <2>4, <3>1, PushItem
    <3>3. Replaced(s, push_data(s, a), 2, <<a, b, a>>)
      BY <3>2, Tuples, Zenon
    <3>4. Len(D) - 2 + Len(<<a, b, a>>) < StackSize
      BY <1>0, <2>10, Tuples
    <3>5. Replaced(s, push_data(push_data(s, a), b), 2, Append(<<a, b, a>>, b))
      BY <2>2, <3>3, <3>4, PushItem
    <3>6. Replaced(s, RawWord("2DUP", s), 2, g)
      <4>1. Append(<<a, b, a>>, b) = <<a, b, a, b>>
        BY Tuples
      <4> QED BY <2>6, <2>7, <3>5, <4>1, Zenon
    <3>7. ~(Len(D) - 2 + Len(g) > StackSize)
      BY <1>0, <2>7, <2>10
    <3> QED BY <1>1, <1>4, <2>5, <2>7, <3>6, <3>7, PlainEnds
  <2> QED BY <1>0, <2>8, <2>9, <2>10
<1> QED BY <1>0, <1>3, <1>4

\* g lists the first k values, which are cells.
Lists(g, values, k) ==
  /\ Len(g) = k /\ g = [i \in 1 .. k |-> values[i]]
  /\ \A i \in 1 .. k : values[i] \in Cell

\* A word that writes its k items back in another order.
LEMMA RotationEffect ==
  ASSUME NEW s \in Machine, Running(s), NEW w \in Plain, NEW k \in Nat \ {0}, RawEffects!Takes(w) = k,
         NEW values, NEW g, NEW t, t = replace_data_window(windowed(s, k), k, values),
         Len(DataItems(s)) >= k =>
           /\ RawEffects!Gives(w, DataItems(s), ReturnItems(s), s.memory) = g
           /\ Lists(g, values, k)
  PROVE  Effects(w, s, t)
<1>0. Len(DataItems(s)) \in Nat /\ Len(DataItems(s)) <= StackSize
  BY Depth
<1>1. CASE Len(DataItems(s)) < k
  <2>1. Failed(s, windowed(s, k), "StackUnderflow")
    BY <1>0, <1>1, WindowFails
  <2>2. t = windowed(s, k)
    BY <2>1, StaysFailed
  <2> QED BY <1>0, <1>1, <2>1, <2>2, PlainEnds
<1>2. CASE Len(DataItems(s)) >= k
  <2>1. windowed(s, k) = s
    BY <1>0, <1>2, WindowFails
  <2>2. \A i \in 1 .. k : values[i] \in Int /\ to_cell(values[i]) = values[i]
    BY <1>2, ToCell DEF Lists
  <2>3. Replaced(s, t, k, [i \in 1 .. k |-> to_cell(values[i])])
    BY <1>0, <1>2, <2>1, <2>2, WindowReplaced
  <2>4. [i \in 1 .. k |-> to_cell(values[i])] = g
    BY <1>2, <2>2 DEF Lists
  <2>5. ~(Len(DataItems(s)) - k + Len(g) > StackSize)
    BY <1>0, <1>2 DEF Lists
  <2> QED BY <1>2, <2>3, <2>4, <2>5, PlainEnds
<1> QED BY <1>0, <1>1, <1>2

\* A sequence as a function of its items.
LEMMA SeqForm ==
  ASSUME NEW S, NEW q \in Seq(S)
  PROVE  q = [i \in 1 .. Len(q) |-> q[i]] /\ \A i \in 1 .. Len(q) : q[i] \in S
OBVIOUS

\* ROT and -ROT.
LEMMA RotEffect ==
  ASSUME NEW s \in Machine, Running(s), NEW w \in {"ROT", "-ROT"}
  PROVE  Effects(w, s, RawWord(w, s))
<1> DEFINE D == DataItems(s)
           a == third(s)
           b == second(s)
           c == top(s)
           values == IF w = "ROT" THEN <<b, c, a>> ELSE <<c, a, b>>
<1>0. Len(D) \in Nat /\ Len(D) <= StackSize
  BY Depth
<1>1. w \in StackWords /\ w \in Plain /\ RawEffects!Takes(w) = 3
  BY StackWordFacts DEF StackWords
<1>2. data_window(s, 3)[1] = a /\ data_window(s, 3)[2] = b /\ data_window(s, 3)[3] = c
  BY MachineFields DEF data_window, third, second, top, peek_data
<1>3. RawWord(w, s) = replace_data_window(windowed(s, 3), 3, values)
  <2>1. RawWord(w, s) = raw_stack(w, s)
    BY <1>1, Families
  <2>2. CASE w = "ROT"
    <3>1. RawWord(w, s) = RawRotate(s, 2, 3, 1)
      BY <2>1, <2>2 DEF raw_stack
    <3> QED BY <1>2, <2>2, <3>1, Zenon DEF RawRotate
  <2>3. CASE w = "-ROT"
    <3>1. RawWord(w, s) = RawRotate(s, 3, 1, 2)
      BY <2>1, <2>3 DEF raw_stack
    <3>2. w # "ROT"
      BY <2>3
    <3> QED BY <1>2, <3>1, <3>2, Zenon DEF RawRotate
  <2> QED BY <2>2, <2>3
<1>4. ASSUME Len(D) >= 3
      PROVE  /\ RawEffects!Gives(w, D, ReturnItems(s), s.memory) = values
             /\ Lists(values, values, 3)
  <2>1. /\ a = D[Len(D) - 2] /\ b = D[Len(D) - 1] /\ c = D[Len(D)]
        /\ a \in Cell /\ b \in Cell /\ c \in Cell
    BY <1>0, <1>4, TopItem
  <2> HIDE DEF D, a, b, c
  <2>2. RawEffects!Gives(w, D, ReturnItems(s), s.memory) = values
    BY <2>1 DEF RawEffects!Gives
  <2>3. values \in Seq(Cell) /\ Len(values) = 3
    BY <2>1
  <2>4. values = [i \in 1 .. 3 |-> values[i]] /\ \A i \in 1 .. 3 : values[i] \in Cell
    <3> HIDE DEF values
    <3>1. values = [i \in 1 .. Len(values) |-> values[i]] /\ \A i \in 1 .. Len(values) : values[i] \in Cell
      BY <2>3, SeqForm
    <3> QED BY <2>3, <3>1
  <2> QED BY <2>2, <2>3, <2>4 DEF Lists
<1> HIDE DEF values, D
<1>5. PICK g : g = values
  OBVIOUS
<1> QED BY <1>1, <1>3, <1>4, <1>5, RotationEffect DEF D

\* 2SWAP.
LEMMA TwoSwapEffect ==
  ASSUME NEW s \in Machine, Running(s)
  PROVE  Effects("2SWAP", s, RawWord("2SWAP", s))
<1> DEFINE D == DataItems(s)
           e == peek_data(s, 3)
           a == third(s)
           b == second(s)
           c == top(s)
           values == <<b, c, e, a>>
<1>0. Len(D) \in Nat /\ Len(D) <= StackSize
  BY Depth
<1>1. "2SWAP" \in StackWords /\ "2SWAP" \in Plain /\ RawEffects!Takes("2SWAP") = 4
  BY StackWordFacts DEF StackWords
<1>2. /\ data_window(s, 4)[1] = e /\ data_window(s, 4)[2] = a
      /\ data_window(s, 4)[3] = b /\ data_window(s, 4)[4] = c
  BY MachineFields DEF data_window, third, second, top, peek_data
<1>3. RawWord("2SWAP", s) = replace_data_window(windowed(s, 4), 4, values)
  BY <1>1, <1>2, Families DEF raw_stack
<1>4. ASSUME Len(D) >= 4
      PROVE  /\ RawEffects!Gives("2SWAP", D, ReturnItems(s), s.memory) = values
             /\ Lists(values, values, 4)
  <2>1. /\ a = D[Len(D) - 2] /\ b = D[Len(D) - 1] /\ c = D[Len(D)]
        /\ a \in Cell /\ b \in Cell /\ c \in Cell
    BY <1>0, <1>4, TopItem
  <2>a. e = D[Len(D) - 3] /\ e \in Cell
    <3>1. s.dsp + 3 < StackSize
      <4>1. Len(D) = StackSize - s.dsp /\ s.dsp \in 0 .. StackSize
        BY ItemsFacts, MachineFields
      <4> QED BY <1>4, <4>1
    <3> QED BY <3>1, PeekItem, PeekType
  <2> HIDE DEF D, a, b, c, e
  <2>2. RawEffects!Gives("2SWAP", D, ReturnItems(s), s.memory) = values
    BY <2>1, <2>a DEF RawEffects!Gives
  <2>3. values \in Seq(Cell) /\ Len(values) = 4
    BY <2>1, <2>a
  <2>4. values = [i \in 1 .. 4 |-> values[i]] /\ \A i \in 1 .. 4 : values[i] \in Cell
    <3> HIDE DEF values
    <3>1. values = [i \in 1 .. Len(values) |-> values[i]] /\ \A i \in 1 .. Len(values) : values[i] \in Cell
      BY <2>3, SeqForm
    <3> QED BY <2>3, <3>1
  <2> QED BY <2>2, <2>3, <2>4 DEF Lists
<1> HIDE DEF values, D
<1>5. PICK g : g = values
  OBVIOUS
<1> QED BY <1>1, <1>3, <1>4, <1>5, RotationEffect DEF D

\* q divides y by x with a remainder of the dividend's sign.
Divides(q, y, x) == abs(y - q * x) < abs(x) /\ (y - q * x) * y >= 0

\* Only zero is a multiple smaller than what it is a multiple of.
LEMMA NoMultiple ==
  ASSUME NEW n \in Int, NEW x \in Int \ {0}, abs(n * x) < abs(x)
  PROVE  n = 0
<1>1. ASSUME NEW a \in Nat, NEW b \in Nat \ {0}, a * b < b PROVE a = 0
  <2>1. CASE a >= 1
    <3>1. a * b >= 1 * b
      BY <2>1
    <3> QED BY <1>1, <3>1
  <2> QED BY <2>1
<1>2. abs(n) \in Nat /\ abs(x) \in Nat \ {0} /\ abs(n * x) = abs(n) * abs(x)
  <2>1. CASE n >= 0 /\ x > 0
    <3>1. n * x >= 0
      BY <2>1
    <3> QED BY <2>1, <3>1 DEF abs
  <2>2. CASE n < 0 /\ x > 0
    <3>1. n * x < 0 /\ -(n * x) = (-n) * x
      BY <2>2
    <3> QED BY <2>2, <3>1 DEF abs
  <2>3. CASE n > 0 /\ x < 0
    <3>1. n * x < 0 /\ -(n * x) = n * (-x)
      BY <2>3
    <3> QED BY <2>3, <3>1 DEF abs
  <2>4. CASE n < 0 /\ x < 0
    <3>1. n * x > 0 /\ n * x = (-n) * (-x)
      BY <2>4
    <3> QED BY <2>4, <3>1 DEF abs
  <2>5. CASE n = 0
    BY <2>5 DEF abs
  <2> QED BY <2>1, <2>2, <2>3, <2>4, <2>5
<1>3. abs(n) = 0
  BY <1>1, <1>2
<1> QED BY <1>3 DEF abs

\* There is one such quotient.
LEMMA DivisionUnique ==
  ASSUME NEW y \in Int, NEW x \in Int \ {0}, NEW p \in Int, NEW q \in Int,
         Divides(p, y, x), Divides(q, y, x)
  PROVE  p = q
<1>1. PICK a \in Int, b \in Int : a = p * x /\ b = q * x
  OBVIOUS
<1>2. (q - p) * x = b - a /\ q - p \in Int
  BY <1>1
<1>3. abs(x) \in Nat \ {0}
  BY DEF abs
<1>4. abs(y - a) < abs(x) /\ abs(y - b) < abs(x) /\ (y - a) * y >= 0 /\ (y - b) * y >= 0
  BY <1>1 DEF Divides
<1>s. ASSUME NEW u \in Int, NEW v \in Int, u * v >= 0
      PROVE  (v > 0 => u >= 0) /\ (v < 0 => u <= 0)
  <2>1. ASSUME v > 0, u < 0 PROVE FALSE
    <3>1. u * v < 0
      BY <2>1
    <3> QED BY <1>s, <3>1
  <2>2. ASSUME v < 0, u > 0 PROVE FALSE
    <3>1. u * v < 0
      BY <2>2
    <3> QED BY <1>s, <3>1
  <2> QED BY <2>1, <2>2
<1>5. CASE y > 0
  <2>1. y - a \in Int /\ y - b \in Int /\ y - a >= 0 /\ y - b >= 0
    BY <1>4, <1>5, <1>s
  <2>2. abs(b - a) < abs(x)
    BY <1>3, <1>4, <2>1 DEF abs
  <2>3. abs((q - p) * x) < abs(x)
    BY <1>2, <2>2
  <2>4. q - p = 0
    BY <1>2, <2>3, NoMultiple
  <2> QED BY <2>4
<1>6. CASE y < 0
  <2>1. y - a \in Int /\ y - b \in Int /\ y - a <= 0 /\ y - b <= 0
    BY <1>4, <1>6, <1>s
  <2>2. abs(b - a) < abs(x)
    BY <1>3, <1>4, <2>1 DEF abs
  <2>3. abs((q - p) * x) < abs(x)
    BY <1>2, <2>2
  <2>4. q - p = 0
    BY <1>2, <2>3, NoMultiple
  <2> QED BY <2>4
<1>7. CASE y = 0
  <2>1. abs(a) < abs(x) /\ abs(b) < abs(x)
    BY <1>4, <1>7 DEF abs
  <2>2. p = 0 /\ q = 0
    BY <1>1, <2>1, NoMultiple
  <2> QED BY <2>2
<1> QED BY <1>5, <1>6, <1>7

\* The quotient the code computes.
Truncated(y, x) ==
  LET size == abs(y) \div abs(x)
  IN  IF (y < 0) # (x < 0) THEN -size ELSE size

\* It is such a quotient.
LEMMA TruncationDivides ==
  ASSUME NEW y \in Int, NEW x \in Int \ {0}
  PROVE  /\ Truncated(y, x) \in Int /\ Divides(Truncated(y, x), y, x)
         /\ abs(Truncated(y, x)) <= abs(y)
<1>1. PICK a \in Nat, b \in Nat \ {0}, n \in Nat, r \in Nat :
        /\ a = abs(y) /\ b = abs(x) /\ n = abs(y) \div abs(x)
        /\ a = b * n + r /\ r < b
  <2>1. abs(y) \in Nat /\ abs(x) \in Nat \ {0}
    BY DEF abs
  <2>2. PICK a \in Nat, b \in Nat \ {0} : a = abs(y) /\ b = abs(x)
    BY <2>1
  <2>3. ASSUME NEW c \in Nat, NEW d \in Nat \ {0}
        PROVE  \E p \in Nat, e \in Nat : p = c \div d /\ c = d * p + e /\ e < d
    <3>1. c % d \in 0 .. d - 1 /\ c \div d \in Int /\ c = d * (c \div d) + (c % d)
      OBVIOUS
    <3>2. PICK p \in Int, e \in 0 .. d - 1 : p = c \div d /\ c = d * p + e
      BY <3>1
    <3>3. ~(p <= -1)
      <4>1. SUFFICES ASSUME p <= -1 PROVE FALSE
        OBVIOUS
      <4>2. d * p <= -d
        BY <4>1
      <4> QED BY <3>2, <4>2
    <3>4. p \in Nat /\ e \in Nat /\ e < d
      BY <3>3
    <3> QED BY <3>2, <3>4, Zenon
  <2>4. PICK n \in Nat, r \in Nat : n = a \div b /\ a = b * n + r /\ r < b
    BY <2>3
  <2>5. n = abs(y) \div abs(x)
    BY <2>2, <2>4, Zenon
  <2> QED BY <2>2, <2>4, <2>5, Zenon
<1>i. n \in Int /\ -n \in Int
  OBVIOUS
<1>n. PICK m \in Nat : m = b * n /\ n <= m
  <2>1. b * n \in Nat /\ b * n >= 1 * n
    OBVIOUS
  <2> QED BY <2>1
<1>2. CASE y >= 0 /\ x > 0
  <2>1. Truncated(y, x) = n /\ y = a /\ x = b
    BY <1>1, <1>2 DEF Truncated, abs
  <2>2. y - n * x = r
    BY <1>1, <2>1
  <2>3. r * y >= 0
    BY <1>2
  <2>4. abs(y - n * x) < abs(x)
    BY <1>1, <2>2 DEF abs
  <2>5. (y - n * x) * y >= 0
    BY <2>2, <2>3
  <2>6. abs(n) <= abs(y)
    BY <1>1, <1>n DEF abs
  <2> QED BY <1>i, <2>1, <2>4, <2>5, <2>6 DEF Divides
<1>3. CASE y >= 0 /\ x < 0
  <2>1. Truncated(y, x) = -n /\ y = a /\ x = -b
    BY <1>1, <1>3 DEF Truncated, abs
  <2>2. y - (-n) * x = r
    <3>1. (-n) * (-b) = b * n
      OBVIOUS
    <3> QED BY <1>1, <2>1, <3>1
  <2>3. r * y >= 0
    BY <1>3
  <2>4. abs(y - (-n) * x) < abs(x)
    BY <1>1, <2>2 DEF abs
  <2>5. (y - (-n) * x) * y >= 0
    BY <2>2, <2>3
  <2>6. abs(-n) <= abs(y)
    BY <1>1, <1>n DEF abs
  <2> QED BY <1>i, <2>1, <2>4, <2>5, <2>6 DEF Divides
<1>4. CASE y < 0 /\ x > 0
  <2>1. Truncated(y, x) = -n /\ y = -a /\ x = b
    BY <1>1, <1>4 DEF Truncated, abs
  <2>2. y - (-n) * x = -r
    <3>1. (-n) * b = -(b * n)
      OBVIOUS
    <3> QED BY <1>1, <2>1, <3>1
  <2>3. (-r) * y >= 0
    BY <1>4
  <2>4. abs(y - (-n) * x) < abs(x)
    BY <1>1, <2>2 DEF abs
  <2>5. (y - (-n) * x) * y >= 0
    BY <2>2, <2>3
  <2>6. abs(-n) <= abs(y)
    BY <1>1, <1>n DEF abs
  <2> QED BY <1>i, <2>1, <2>4, <2>5, <2>6 DEF Divides
<1>5. CASE y < 0 /\ x < 0
  <2>1. Truncated(y, x) = n /\ y = -a /\ x = -b
    BY <1>1, <1>5 DEF Truncated, abs
  <2>2. y - n * x = -r
    <3>1. n * (-b) = -(b * n)
      OBVIOUS
    <3> QED BY <1>1, <2>1, <3>1
  <2>3. (-r) * y >= 0
    BY <1>5
  <2>4. abs(y - n * x) < abs(x)
    BY <1>1, <2>2 DEF abs
  <2>5. (y - n * x) * y >= 0
    BY <2>2, <2>3
  <2>6. abs(n) <= abs(y)
    BY <1>1, <1>n DEF abs
  <2> QED BY <1>i, <2>1, <2>4, <2>5, <2>6 DEF Divides
<1> QED BY <1>2, <1>3, <1>4, <1>5

\* Hence trunc_divmod is what the effect of /MOD asks for.
LEMMA QuotientTruncates ==
  ASSUME NEW y \in Cell, NEW x \in Cell \ {0}
  PROVE  /\ RawEffects!Quotient(y, x) = Truncated(y, x)
         /\ trunc_divmod(y, x) = <<to_cell(y - RawEffects!Quotient(y, x) * x),
                                   to_cell(RawEffects!Quotient(y, x))>>
<1>0. y \in Int /\ x \in Int \ {0}
  BY ToCell
<1>1. RawEffects!Quotient(y, x) = CHOOSE q \in -CellMod .. CellMod : Divides(q, y, x)
  BY RawArithmetic DEF RawEffects!Quotient, Divides
<1>2. Truncated(y, x) \in -CellMod .. CellMod
  <2>1. PICK h \in Nat \ {0} : CellMod = 2 * h /\ Cell = -h .. h - 1
    BY CellFacts
  <2>2. abs(y) <= CellMod
    BY <2>1, <1>0 DEF abs
  <2>3. Truncated(y, x) \in Int /\ abs(Truncated(y, x)) <= abs(y)
    BY <1>0, TruncationDivides
  <2> QED BY <2>1, <2>2, <2>3, <1>0 DEF abs
<1>3. Divides(Truncated(y, x), y, x)
  BY <1>0, TruncationDivides
<1>4. \A q \in -CellMod .. CellMod : Divides(q, y, x) => q = Truncated(y, x)
  <2>1. CellMod \in Int
    BY CellFacts
  <2> QED BY <1>0, <1>2, <1>3, <2>1, DivisionUnique
<1>5. RawEffects!Quotient(y, x) = Truncated(y, x)
  BY <1>1, <1>2, <1>3, <1>4
<1>6. trunc_divmod(y, x) = <<to_cell(y - Truncated(y, x) * x), to_cell(Truncated(y, x))>>
  BY Zenon DEF trunc_divmod, Truncated
<1> QED BY <1>5, <1>6

\* The words that move no item to or from the return stack and set no pointer.
DataWords == Words \ {"R>", "RDROP", "DSP!", "RSP!", ">R"}

\* A word that has replaced what it takes by what it gives and stored what it stores.
LEMMA DataSucceeds ==
  ASSUME NEW s \in Machine, NEW t, NEW w \in DataWords, NEW k, NEW g, NEW u, Replaced(s, u, k, g),
         FailureOf(w, s) = "none", RawEffects!Takes(w) = k,
         RawEffects!Gives(w, DataItems(s), ReturnItems(s), s.memory) = g,
         t = [u EXCEPT !.memory = RawEffects!Stored(w, DataItems(s), s.memory)]
  PROVE  Effects(w, s, t)
<1>1. w \notin {"R>", "RDROP", "DSP!", "RSP!", ">R"}
  BY DEF DataWords
<1>2. /\ t.err = u.err /\ t.return_stack = u.return_stack /\ t.rsp = u.rsp
      /\ t.data_stack = u.data_stack /\ t.dsp = u.dsp
      /\ t.memory = RawEffects!Stored(w, DataItems(s), s.memory)
  <2>1. u \in Machine
    BY Zenon DEF Replaced
  <2> QED BY <2>1 DEF Machine
<1>3. /\ t.err = "none" /\ ReturnItems(t) = ReturnItems(s)
      /\ DataItems(t) = SubSeq(DataItems(s), 1, Len(DataItems(s)) - k) \o g
  <2>1. u.err = "none" /\ u.return_stack = s.return_stack /\ u.rsp = s.rsp
        /\ DataItems(u) = SubSeq(DataItems(s), 1, Len(DataItems(s)) - k) \o g
    BY Zenon DEF Replaced, Running, Spliced
  <2> QED BY <1>2, <2>1, Zenon DEF ReturnItems, DataItems
<1>4. RawEffects!Becomes(w, DataItems(s), ReturnItems(s), s.memory,
                            DataItems(t), ReturnItems(t), t.memory)
  BY <1>1, <1>2, <1>3, Zenon DEF RawEffects!Becomes
<1> QED BY <1>3, <1>4, Zenon DEF Effects

\* A machine whose memory is written back as it is.
LEMMA MemoryKept ==
  ASSUME NEW s, NEW u, NEW k, NEW g, Replaced(s, u, k, g), NEW m, m = s.memory
  PROVE  u = [u EXCEPT !.memory = m]
<1>1. u \in Machine /\ u.memory = m
  BY Zenon DEF Replaced
<1> QED BY <1>1 DEF Machine

\* /MOD: both items are popped before a zero divisor raises.
LEMMA DivisionEffect ==
  ASSUME NEW s \in Machine, Running(s)
  PROVE  Effects("/MOD", s, RawWord("/MOD", s))
<1> DEFINE D == DataItems(s)
           y == second(s)
           x == top(s)
           r == trunc_divmod(y, x)
           t == Require(pop2(s), x # 0, "ZeroDivisionError")
<1>0. Len(D) \in Nat /\ Len(D) <= StackSize
  BY Depth
<1>1. "/MOD" \in DataWords /\ "/MOD" \in ArithmeticWords /\ RawEffects!Takes("/MOD") = 2
  BY DEF DataWords, Words, ArithmeticWords, RawEffects!Takes
<1>2. RawWord("/MOD", s) = push_data(push_data(t, r[1]), r[2])
  BY <1>1, Families DEF raw_arithmetic
<1>b. RawEffects!Blocks("/MOD", D) = {}
  BY DEF RawEffects!Blocks
<1>3. CASE Len(D) < 2
  <2>1. Failed(s, pop2(s), "StackUnderflow")
    BY <1>3, PopsFail
  <2>2. t = pop2(s)
    BY <2>1, StaysFailed, Zenon DEF Require
  <2>3. RawWord("/MOD", s) = pop2(s)
    <3> HIDE DEF t, r
    <3>1. \A v : push_data(pop2(s), v) = pop2(s)
      BY <2>1, StaysFailed, Zenon
    <3> QED BY <1>2, <2>2, <3>1, Zenon
  <2>4. FailureOf("/MOD", s) = "StackUnderflow"
    BY <1>1, <1>3 DEF FailureOf, RawEffects!Failure
  <2> QED BY <2>1, <2>3, <2>4, WordFails
<1>4. CASE Len(D) >= 2
  <2>1. x = D[Len(D)] /\ x \in Cell /\ y = D[Len(D) - 1] /\ y \in Cell
    BY <1>0, <1>4, TopItem
  <2>2. Replaced(s, pop2(s), 2, <<>>)
    BY <1>4, PopsReplaced
  <2>3. Running(pop2(s))
    BY <2>2, Zenon DEF Replaced
  <2>4. CASE x = 0
    <3>1. FailureOf("/MOD", s) = "ZeroDivisionError"
      <4> HIDE DEF x
      <4> QED BY <1>0, <1>1, <1>4, <1>b, <2>1, <2>4 DEF FailureOf, RawEffects!Failure
    <3>2. t = [pop2(s) EXCEPT !.err = "ZeroDivisionError"]
      BY <2>3, <2>4 DEF Require
    <3>3. Failed(s, t, "ZeroDivisionError")
      BY <2>2, <3>2, FailedFrom DEF Errors
    <3> HIDE DEF t
    <3>4. RawWord("/MOD", s) = t
      BY <1>2, <3>3, StaysFailed, Zenon
    <3> QED BY <3>1, <3>3, <3>4, WordFails
  <2>5. CASE x # 0
    <3> DEFINE g == <<r[1], r[2]>>
    <3>1. t = pop2(s)
      BY <2>5 DEF Require
    <3>2. r[1] \in Cell /\ r[2] \in Cell
      BY <2>1, <2>5, ToCell, DivisionType
    <3>3. RawEffects!Gives("/MOD", D, ReturnItems(s), s.memory) = g
      <4>1. r = <<to_cell(y - RawEffects!Quotient(y, x) * x), to_cell(RawEffects!Quotient(y, x))>>
        BY <2>1, <2>5, QuotientTruncates
      <4>2. RawEffects!Gives("/MOD", D, ReturnItems(s), s.memory) =
              <<RawEffects!to_cell(D[Len(D) - 1] - RawEffects!Quotient(D[Len(D) - 1], D[Len(D)]) * D[Len(D)]),
                RawEffects!to_cell(RawEffects!Quotient(D[Len(D) - 1], D[Len(D)]))>>
        BY DEF RawEffects!Gives
      <4>3. RawEffects!Gives("/MOD", D, ReturnItems(s), s.memory) = r
        BY <2>1, <4>1, <4>2, RawArithmetic, Zenon
      <4> HIDE DEF x, y, D, r
      <4>4. r = <<r[1], r[2]>>
        BY <4>1
      <4> QED BY <4>3, <4>4
    <3> HIDE DEF r
    <3>4. Replaced(s, push_data(pop2(s), r[1]), 2, <<r[1]>>)
      <4>1. Len(D) - 2 + Len(<<>>) < StackSize
        BY <1>0, Tuples
      <4>2. Replaced(s, push_data(pop2(s), r[1]), 2, Append(<<>>, r[1]))
        BY <2>2, <3>2, <4>1, PushItem
      <4> QED BY <4>2, Tuples, Zenon
    <3>5. Replaced(s, push_data(push_data(pop2(s), r[1]), r[2]), 2, g) /\ Len(g) = 2
      <4>1. Len(D) - 2 + Len(<<r[1]>>) < StackSize
        BY <1>0, Tuples
      <4>2. Replaced(s, push_data(push_data(pop2(s), r[1]), r[2]), 2, Append(<<r[1]>>, r[2]))
        BY <3>2, <3>4, <4>1, PushItem
      <4> QED BY <4>2, Tuples, Zenon
    <3> HIDE DEF g
    <3>6. FailureOf("/MOD", s) = "none"
      <4>1. ~(Len(D) - 2 + Len(g) > StackSize)
        BY <1>0, <3>5
      <4> HIDE DEF x
      <4> QED BY <1>0, <1>1, <1>4, <1>b, <2>1, <2>5, <3>3, <4>1 DEF FailureOf, RawEffects!Failure
    <3>7. RawEffects!Stored("/MOD", D, s.memory) = s.memory
      BY DEF RawEffects!Stored
    <3>8. Replaced(s, RawWord("/MOD", s), 2, g)
      BY <1>2, <3>1, <3>5, Zenon
    <3>9. RawWord("/MOD", s) = [RawWord("/MOD", s) EXCEPT !.memory = RawEffects!Stored("/MOD", D, s.memory)]
      BY <3>7, <3>8, MemoryKept
    <3> QED BY <1>1, <3>3, <3>6, <3>8, <3>9, DataSucceeds
  <2> QED BY <2>4, <2>5
<1> QED BY <1>0, <1>3, <1>4

\* A sum over a finite set may take out any element first.
LEMMA SumRemove ==
  ASSUME NEW S, IsFiniteSet(S), NEW f \in [S -> Int], NEW g, Sums(g, f, S)
  PROVE  \A t \in SUBSET S : g[t] \in Int /\ \A x \in t : g[t] = f[x] + g[t \ {x}]
<1> DEFINE N == {k \in Nat : \A s \in SUBSET S : Cardinality(s) <= k =>
                               g[s] \in Int /\ \A x \in s : g[s] = f[x] + g[s \ {x}]}
<1>1. \A s \in SUBSET S : g[s] = IF s = {} THEN 0
                                 ELSE f[CHOOSE x \in s : TRUE]
                                        + g[s \ {CHOOSE x \in s : TRUE}]
  BY DEF Sums
<1>2. \A s \in SUBSET S : IsFiniteSet(s) /\ Cardinality(s) \in Nat
  BY FS_Subset, FS_CardinalityType
<1>3. 0 \in N
  <2> SUFFICES ASSUME NEW s \in SUBSET S, Cardinality(s) <= 0
               PROVE  g[s] \in Int /\ \A x \in s : g[s] = f[x] + g[s \ {x}]
    OBVIOUS
  <2>0. Cardinality(s) = 0
    BY <1>2
  <2>1. s = {}
    BY <1>2, <2>0, FS_EmptySet
  <2>2. g[s] = 0
    BY <1>1, <2>1
  <2> QED BY <2>1, <2>2
<1>4. ASSUME NEW n \in Nat, n \in N PROVE n + 1 \in N
  <2>1. ASSUME NEW s \in SUBSET S, Cardinality(s) <= n + 1, s # {}
        PROVE  g[s] \in Int /\ \A x \in s : g[s] = f[x] + g[s \ {x}]
    <3>0. \A u \in SUBSET S : Cardinality(u) <= n =>
            g[u] \in Int /\ \A x \in u : g[u] = f[x] + g[u \ {x}]
      BY <1>4
    <3>2. PICK c \in s : c = CHOOSE y \in s : TRUE
      BY <2>1
    <3>3. \A x \in s : Cardinality(s \ {x}) <= n /\ s \ {x} \in SUBSET S
      <4>1. IsFiniteSet(s)
        BY <1>2
      <4>2. \A x \in s : Cardinality(s \ {x}) = Cardinality(s) - 1
        BY <4>1, FS_RemoveElement
      <4>3. Cardinality(s) \in Nat
        BY <1>2
      <4> QED BY <2>1, <4>2, <4>3
    <3>4. g[s] = f[c] + g[s \ {c}]
      BY <1>1, <2>1, <3>2
    <3>5. g[s \ {c}] \in Int /\ f[c] \in Int
      BY <3>0, <3>3
    <3> HIDE <1>1
    <3>6. ASSUME NEW x \in s PROVE g[s] = f[x] + g[s \ {x}]
      <4>1. CASE x = c
        BY <3>4, <4>1
      <4>2. CASE x # c
        <5>1. x \in s \ {c} /\ c \in s \ {x}
          BY <4>2
        <5>2. g[s \ {c}] = f[x] + g[(s \ {c}) \ {x}] /\ g[s \ {x}] = f[c] + g[(s \ {x}) \ {c}]
          BY <3>0, <3>3, <5>1
        <5>3. (s \ {c}) \ {x} = (s \ {x}) \ {c}
          OBVIOUS
        <5>4. PICK v : v = g[(s \ {x}) \ {c}]
          OBVIOUS
        <5>5. f[x] \in Int /\ g[s \ {x}] \in Int
          BY <3>0, <3>3
        <5>6. v \in Int
          <6>1. PICK z \in SUBSET S : z = s \ {x} /\ IsFiniteSet(z) /\ Cardinality(z) \in Nat /\ Cardinality(z) <= n
            BY <1>2, <3>3
          <6>2. PICK y \in SUBSET S : y = z \ {c} /\ Cardinality(y) <= n
            <7>1. Cardinality(z \ {c}) <= Cardinality(z)
              BY <6>1, FS_Subset
            <7>2. z \ {c} \in SUBSET S /\ Cardinality(z \ {c}) \in Nat
              BY <1>2
            <7> QED BY <6>1, <7>1, <7>2
          <6>3. g[y] \in Int
            BY <3>0, <6>2
          <6> QED BY <5>4, <6>1, <6>2, <6>3
        <5> QED BY <3>4, <3>5, <5>2, <5>3, <5>4, <5>5, <5>6
      <4> QED BY <4>1, <4>2
    <3> QED BY <3>4, <3>5, <3>6
  <2>2. n + 1 \in Nat
    OBVIOUS
  <2>3. g[{}] \in Int /\ \A x \in {} : g[{}] = f[x] + g[{} \ {x}]
    <3>1. {} \in SUBSET S
      OBVIOUS
    <3>2. g[{}] = 0
      BY <1>1, <3>1
    <3> QED BY <3>2
  <2> QED BY <2>1, <2>2, <2>3, Zenon
<1> HIDE DEF N
<1>5. Nat \subseteq N
  BY <1>3, <1>4, NatSetInduction
<1> QED BY <1>2, <1>5 DEF N

\* Quotient and remainder by a positive number.
LEMMA DivisionParts ==
  ASSUME NEW c \in Int, NEW d \in Nat \ {0}
  PROVE  \E p \in Int, e \in 0 .. d - 1 : p = c \div d /\ e = c % d /\ c = d * p + e
<1>1. c % d \in 0 .. d - 1 /\ c \div d \in Int /\ c = d * (c \div d) + (c % d)
  OBVIOUS
<1> QED BY <1>1

\* The remainder by a product of two, put together from a digit and a smaller remainder.
LEMMA DigitSplit ==
  ASSUME NEW u \in Int, NEW m \in Nat \ {0}, NEW b \in Nat \ {0}
  PROVE  \E d \in 0 .. b - 1, r \in 0 .. m - 1 :
           d = (u \div m) % b /\ r = u % m /\ u % (m * b) = m * d + r
<1>1. PICK p \in Int, r \in 0 .. m - 1 : p = u \div m /\ r = u % m /\ u = m * p + r
  BY DivisionParts
<1>2. PICK q \in Int, d \in 0 .. b - 1 : q = p \div b /\ d = p % b /\ p = b * q + d
  BY DivisionParts
<1>3. PICK mb \in Nat \ {0} : mb = m * b
  <2>1. m * b \in Nat \ {0}
    OBVIOUS
  <2> QED BY <2>1
<1>4. PICK z \in Int : z = m * d + r
  OBVIOUS
<1>5. z \in 0 .. mb - 1
  <2>1. 0 <= m * d /\ m * d <= m * (b - 1)
    OBVIOUS
  <2>2. m * (b - 1) = mb - m
    BY <1>3
  <2> QED BY <1>3, <1>4, <2>1, <2>2
<1>6. u = mb * q + z
  <2>1. m * p = m * (b * q) + m * d
    BY <1>2
  <2>2. m * (b * q) = mb * q
    BY <1>3
  <2> QED BY <1>1, <1>4, <2>1, <2>2
<1>7. u % mb = z
  BY <1>5, <1>6, RemainderUnique
<1>8. u % m = r /\ (u \div m) % b = d
  BY <1>1, <1>2, Zenon
<1>9. u % (m * b) = m * d + r
  BY <1>3, <1>4, <1>7, Zenon
<1> QED BY <1>8, <1>9, Zenon

\* The places of the bytes of a cell.
LEMMA Places ==
  /\ ByteMod \in Nat \ {0} /\ CellMod \in Nat \ {0}
  /\ Place(0) = 1 /\ Place(CellBytes) = CellMod
  /\ \A i \in Nat : Place(i) \in Nat \ {0} /\ Place(i + 1) = Place(i) * ByteMod
  /\ \A i \in Nat, j \in Nat : Place(i + j) = Place(i) * Place(j)
<1>1. ByteMod \in Nat \ {0} /\ CellMod \in Nat \ {0}
  BY PowerOfTwo, CellFacts DEF ByteMod
<1>2. Place(0) = 1
  <2>1. ByteBits * 0 = 0
    OBVIOUS
  <2>2. 2 ^ 0 = 1
    OBVIOUS
  <2> QED BY <2>1, <2>2 DEF Place
<1>3. Place(CellBytes) = CellMod
  <2>1. ByteBits * CellBytes = CellBytes * ByteBits
    OBVIOUS
  <2> QED BY <2>1, Zenon DEF Place, CellMod, CellBits
<1>4. ASSUME NEW i \in Nat, NEW j \in Nat PROVE Place(i + j) = Place(i) * Place(j)
  <2>1. ByteBits * (i + j) = ByteBits * i + ByteBits * j /\ ByteBits * i \in Nat /\ ByteBits * j \in Nat
    OBVIOUS
  <2> QED BY <2>1, PowerSum DEF Place
<1>5. ASSUME NEW i \in Nat PROVE Place(i) \in Nat \ {0} /\ Place(i + 1) = Place(i) * ByteMod
  <2>1. ByteBits * i \in Nat
    OBVIOUS
  <2>2. Place(i) \in Nat \ {0}
    BY <2>1, PowerOfTwo DEF Place
  <2>3. Place(1) = ByteMod
    <3>1. ByteBits * 1 = ByteBits
      OBVIOUS
    <3> QED BY <3>1, Zenon DEF Place, ByteMod
  <2>4. Place(i + 1) = Place(i) * Place(1)
    BY <1>4
  <2> QED BY <2>2, <2>3, <2>4
<1> QED BY <1>1, <1>2, <1>3, <1>4, <1>5

\* P(k) is the number that the first k digits of b make.
Makes(P, b, n) ==
  /\ P[0] = 0
  /\ \A k \in 0 .. n - 1 : P[k + 1] = P[k] + b[k] * Place(k)

\* A number made of k digits is below place k.
LEMMA MadeBelow ==
  ASSUME NEW n \in Nat, NEW b \in [0 .. n - 1 -> 0 .. ByteMod - 1], NEW P, Makes(P, b, n)
  PROVE  \A k \in 0 .. n : P[k] \in 0 .. Place(k) - 1
<1> DEFINE N == {k \in Nat : k <= n => P[k] \in 0 .. Place(k) - 1}
<1>1. 0 \in N
  <2>1. P[0] = 0 /\ Place(0) = 1
    BY Places DEF Makes
  <2>2. 0 \in 0 .. 1 - 1
    OBVIOUS
  <2> QED BY <2>1, <2>2
<1>2. ASSUME NEW k \in Nat, k \in N PROVE k + 1 \in N
  <2>1. SUFFICES ASSUME k + 1 <= n PROVE P[k + 1] \in 0 .. Place(k + 1) - 1
    OBVIOUS
  <2>2. PICK m \in Nat \ {0} : m = Place(k)
    BY Places
  <2>3. PICK c \in Nat \ {0} : c = ByteMod
    BY Places
  <2>4. PICK d \in 0 .. c - 1 : d = b[k]
    <3>1. k \in 0 .. n - 1
      BY <2>1
    <3>2. b[k] \in 0 .. c - 1
      BY <2>3, <3>1
    <3> QED BY <3>2, Zenon
  <2>5. P[k] \in 0 .. m - 1 /\ P[k + 1] = P[k] + d * m /\ Place(k + 1) = m * c
    <3>1. k \in 0 .. n - 1
      BY <2>1
    <3>2. P[k] \in 0 .. Place(k) - 1
      BY <1>2, <2>1
    <3>3. P[k + 1] = P[k] + b[k] * Place(k)
      BY <3>1 DEF Makes
    <3> QED BY <2>2, <2>3, <2>4, <3>2, <3>3, Places
  <2>6. 0 <= d * m /\ d * m <= (c - 1) * m /\ (c - 1) * m = m * c - m
    OBVIOUS
  <2>7. PICK e \in Int, f \in Int : e = d * m /\ f = m * c
    OBVIOUS
  <2>8. 0 <= e /\ e <= f - m
    BY <2>6, <2>7
  <2>9. P[k + 1] = P[k] + e /\ Place(k + 1) = f /\ P[k] \in 0 .. m - 1
    BY <2>5, <2>7, Zenon
  <2> QED BY <2>8, <2>9
<1> HIDE DEF N
<1>3. Nat \subseteq N
  BY <1>1, <1>2, NatSetInduction
<1> QED BY <1>3 DEF N

\* Its lowest digits are the number made of those alone.
LEMMA MadeRemainder ==
  ASSUME NEW n \in Nat, NEW b \in [0 .. n - 1 -> 0 .. ByteMod - 1], NEW P, Makes(P, b, n),
         NEW i \in 0 .. n
  PROVE  \A k \in i .. n : P[k] % Place(i) = P[i]
<1>0. PICK m \in Nat \ {0} : m = Place(i)
  <2>1. i \in Nat
    OBVIOUS
  <2>2. Place(i) \in Nat \ {0}
    BY <2>1, Places, Zenon
  <2> QED BY <2>2, Zenon
<1>p. PICK r \in 0 .. m - 1 : r = P[i]
  <2>1. P[i] \in 0 .. m - 1
    BY <1>0, MadeBelow
  <2> QED BY <2>1, Zenon
<1> DEFINE N == {k \in Nat : i + k <= n => P[i + k] \in Int /\ P[i + k] % m = r}
<1>1. 0 \in N
  <2>1. m * 0 + r = r
    OBVIOUS
  <2>2. r % m = r
    BY <2>1, RemainderUnique
  <2>3. i + 0 = i
    OBVIOUS
  <2> QED BY <1>p, <2>2, <2>3
<1>2. ASSUME NEW k \in Nat, k \in N PROVE k + 1 \in N
  <2>1. SUFFICES ASSUME i + (k + 1) <= n PROVE P[i + (k + 1)] \in Int /\ P[i + (k + 1)] % m = r
    OBVIOUS
  <2>2. PICK c \in Nat : c = Place(k) /\ Place(i + k) = m * c
    <3>0. i \in Nat
      OBVIOUS
    <3>1. i \in Nat /\ Place(k) \in Nat
      BY <3>0, Places, Zenon
    <3>2. Place(i + k) = m * Place(k)
      <4>1. Place(i + k) = Place(i) * Place(k)
        BY <3>1, Places, Zenon
      <4> QED BY <1>0, <4>1, Zenon
    <3> QED BY <3>1, <3>2, Zenon
  <2>3. PICK d \in Nat : d = b[i + k]
    <3>0. i + k \in 0 .. n - 1
      BY <2>1
    <3>1. b[i + k] \in 0 .. ByteMod - 1
      BY <3>0
    <3>2. b[i + k] \in Nat
      BY <3>1, Places
    <3> QED BY <3>2, Zenon
  <2>4. PICK e \in Int : e = P[i + k] /\ e % m = r
    BY <1>2, <2>1
  <2>5. P[i + (k + 1)] = e + d * (m * c)
    <3>1. i + k \in 0 .. n - 1 /\ (i + k) + 1 = i + (k + 1)
      BY <2>1
    <3>2. P[(i + k) + 1] = P[i + k] + b[i + k] * Place(i + k)
      BY <3>1 DEF Makes
    <3> QED BY <2>2, <2>3, <2>4, <3>1, <3>2
  <2>6. PICK q \in Int : e = m * q + r
    <3>1. PICK q \in Int, f \in 0 .. m - 1 : q = e \div m /\ f = e % m /\ e = m * q + f
      BY DivisionParts
    <3>2. f = r
      BY <2>4, <3>1, Zenon
    <3> QED BY <3>1, <3>2, Zenon
  <2>7. e + d * (m * c) = m * (q + d * c) + r /\ q + d * c \in Int
    <3>1. d * (m * c) = m * (d * c) /\ m * (q + d * c) = m * q + m * (d * c)
      OBVIOUS
    <3> QED BY <2>6, <3>1
  <2>8. (m * (q + d * c) + r) % m = r /\ m * (q + d * c) + r \in Int
    BY <2>7, RemainderUnique
  <2> QED BY <2>5, <2>7, <2>8
<1> HIDE DEF N
<1>3. Nat \subseteq N
  BY <1>1, <1>2, NatSetInduction
<1>4. ASSUME NEW k \in i .. n PROVE P[k] % Place(i) = P[i]
  <2>1. k - i \in N /\ i + (k - i) = k
    BY <1>3
  <2> QED BY <1>0, <1>p, <2>1 DEF N
<1> QED BY <1>4

\* Each digit can be read back.
LEMMA MadeDigit ==
  ASSUME NEW n \in Nat, NEW b \in [0 .. n - 1 -> 0 .. ByteMod - 1], NEW P, Makes(P, b, n),
         NEW i \in 0 .. n - 1
  PROVE  P[n] \in 0 .. Place(n) - 1 /\ (P[n] \div Place(i)) % ByteMod = b[i]
<1>i. i \in Nat /\ i \in 0 .. n /\ i + 1 \in 0 .. n /\ n \in i .. n /\ n \in i + 1 .. n /\ n \in 0 .. n
  OBVIOUS
<1>m. P[n] \in 0 .. Place(n) - 1
  BY <1>i, MadeBelow
<1>1. PICK m \in Nat \ {0}, c \in Nat \ {0}, u \in Int :
        m = Place(i) /\ c = ByteMod /\ u = P[n] /\ Place(i + 1) = m * c
  <2>1. Place(i) \in Nat \ {0} /\ ByteMod \in Nat \ {0} /\ Place(i + 1) = Place(i) * ByteMod
    BY <1>i, Places
  <2>2. P[n] \in Int
    BY <1>m
  <2> QED BY <2>1, <2>2, Zenon
<1>2. u % m = P[i] /\ u % (m * c) = P[i + 1]
  <2>1. P[n] % Place(i) = P[i]
    BY <1>i, MadeRemainder
  <2>2. P[n] % Place(i + 1) = P[i + 1]
    BY <1>i, MadeRemainder
  <2> QED BY <1>1, <2>1, <2>2, Zenon
<1>3. PICK d \in 0 .. c - 1, r \in 0 .. m - 1 :
        d = (u \div m) % c /\ r = u % m /\ u % (m * c) = m * d + r
  BY DigitSplit
<1>4. P[i + 1] = m * d + P[i]
  BY <1>2, <1>3, Zenon
<1>5. PICK e \in 0 .. c - 1 : e = b[i] /\ P[i + 1] = P[i] + e * m
  <2>1. b[i] \in 0 .. ByteMod - 1 /\ P[i + 1] = P[i] + b[i] * Place(i)
    BY DEF Makes
  <2> QED BY <1>1, <2>1, Zenon
<1>6. P[i] \in Int
  <2>1. PICK f \in 0 .. m - 1 : f = u % m
    BY DivisionParts
  <2>2. f \in Int /\ f = P[i]
    BY <1>2, <2>1
  <2> QED BY <2>2, Zenon
<1>7. m * d = m * e
  <2>1. PICK p, q : p = P[i] /\ p \in Int /\ q = P[i + 1]
    BY <1>6, Zenon
  <2>2. q = m * d + p /\ q = p + e * m /\ p \in Int
    BY <1>4, <1>5, <2>1, Zenon
  <2> QED BY <2>2
<1>8. d = e
  <2>1. m * (d - e) = 0
    BY <1>7
  <2>2. d - e = 0
    BY <2>1
  <2> QED BY <2>2
<1>9. (P[n] \div Place(i)) % ByteMod = b[i]
  BY <1>1, <1>3, <1>5, <1>8, Zenon
<1> QED BY <1>m, <1>9

\* One more digit in common.
LEMMA DigitsExtend ==
  ASSUME NEW u \in Int, NEW v \in Int, NEW m \in Nat \ {0}, NEW c \in Nat \ {0},
         u % m = v % m, (u \div m) % c = (v \div m) % c
  PROVE  u % (m * c) = v % (m * c)
<1>s. ASSUME NEW x \in Int
      PROVE  \E d \in 0 .. c - 1, r \in 0 .. m - 1 :
               d = (x \div m) % c /\ r = x % m /\ x % (m * c) = m * d + r
  BY <1>s, DigitSplit, Zenon
<1>1. PICK d \in 0 .. c - 1, r \in 0 .. m - 1 :
        d = (u \div m) % c /\ r = u % m /\ u % (m * c) = m * d + r
  BY <1>s, Zenon
<1>2. PICK e \in 0 .. c - 1, f \in 0 .. m - 1 :
        e = (v \div m) % c /\ f = v % m /\ v % (m * c) = m * e + f
  BY <1>s, Zenon
<1>3. d = e /\ r = f
  BY <1>1, <1>2, Zenon
<1> QED BY <1>1, <1>2, <1>3, Zenon

\* Numbers below a cell's modulus with the same digits are equal.
LEMMA DigitsDetermine ==
  ASSUME NEW u \in 0 .. CellMod - 1, NEW v \in 0 .. CellMod - 1,
         \A i \in 0 .. CellBytes - 1 : (u \div Place(i)) % ByteMod = (v \div Place(i)) % ByteMod
  PROVE  u = v
<1> DEFINE N == {k \in Nat : k <= CellBytes => u % Place(k) = v % Place(k)}
<1>1. 0 \in N
  <2>1. u % 1 = 0 /\ v % 1 = 0
    OBVIOUS
  <2> QED BY <2>1, Places
<1>2. ASSUME NEW k \in Nat, k \in N PROVE k + 1 \in N
  <2>1. SUFFICES ASSUME k + 1 <= CellBytes PROVE u % Place(k + 1) = v % Place(k + 1)
    OBVIOUS
  <2>2. PICK m \in Nat \ {0}, c \in Nat \ {0} : m = Place(k) /\ c = ByteMod /\ Place(k + 1) = m * c
    BY Places
  <2>3. u % m = v % m /\ (u \div m) % c = (v \div m) % c
    <3>1. u % Place(k) = v % Place(k)
      BY <1>2, <2>1
    <3>2. k \in 0 .. CellBytes - 1
      BY <2>1
    <3>3. (u \div Place(k)) % ByteMod = (v \div Place(k)) % ByteMod
      BY <3>2
    <3> QED BY <2>2, <3>1, <3>3, Zenon
  <2>4. u \in Int /\ v \in Int
    BY Places
  <2>7. u % (m * c) = v % (m * c)
    BY <2>3, <2>4, DigitsExtend, Zenon
  <2> QED BY <2>2, <2>7, Zenon
<1> HIDE DEF N
<1>3. Nat \subseteq N
  BY <1>1, <1>2, NatSetInduction
<1>4. u % CellMod = v % CellMod
  <2>1. CellBytes \in N
    BY <1>3
  <2> QED BY <2>1, Places DEF N
<1>5. u % CellMod = u /\ v % CellMod = v
  <2>1. PICK m \in Nat \ {0} : m = CellMod
    BY Places
  <2>2. m * 0 + u = u /\ m * 0 + v = v
    OBVIOUS
  <2> QED BY <2>1, <2>2, RemainderUnique
<1> QED BY <1>4, <1>5

\* u is the number with the n digits b.
HasDigits(u, b, n) ==
  u \in 0 .. Place(n) - 1 /\ \A i \in 0 .. n - 1 : (u \div Place(i)) % ByteMod = b[i]

\* What is made of digits has them.
LEMMA MadeDigits ==
  ASSUME NEW n \in Nat \ {0}, NEW b \in [0 .. n - 1 -> 0 .. ByteMod - 1], NEW P, Makes(P, b, n)
  PROVE  HasDigits(P[n], b, n)
<1>1. 0 \in 0 .. n - 1
  OBVIOUS
<1>2. ASSUME NEW i \in 0 .. n - 1
      PROVE  P[n] \in 0 .. Place(n) - 1 /\ (P[n] \div Place(i)) % ByteMod = b[i]
  BY MadeDigit
<1> QED BY <1>1, <1>2, Zenon DEF HasDigits

\* A cell that is read is a number whose digits are the bytes.
LEMMA ReadCellDigits ==
  ASSUME NEW s, s.memory \in [0 .. MemorySize - 1 -> 0 .. ByteMod - 1],
         NEW address \in Nat, address + CellBytes <= MemorySize
  PROVE  \E u \in 0 .. CellMod - 1 :
           /\ read_cell(s, address) = to_cell(u)
           /\ \A i \in 0 .. CellBytes - 1 : (u \div Place(i)) % ByteMod = s.memory[address + i]
<1> DEFINE b == [i \in 0 .. CellBytes - 1 |-> s.memory[address + i]]
<1>1. PICK g, f :
        /\ f = [i \in 0 .. CellBytes - 1 |-> s.memory[address + i] * Place(i)]
        /\ f \in [0 .. CellBytes - 1 -> Int] /\ Sums(g, f, 0 .. CellBytes - 1)
        /\ read_cell(s, address) = to_cell(g[0 .. CellBytes - 1])
  BY ReadCellSum
<1>2. b \in [0 .. CellBytes - 1 -> 0 .. ByteMod - 1]
  <2>1. \A i \in 0 .. CellBytes - 1 : address + i \in 0 .. MemorySize - 1
    OBVIOUS
  <2> QED BY <2>1
<1> DEFINE P == [k \in 0 .. CellBytes |-> g[0 .. k - 1]]
<1>3. IsFiniteSet(0 .. CellBytes - 1)
  BY FS_Interval
<1>4. \A t \in SUBSET (0 .. CellBytes - 1) : g[t] \in Int /\ \A x \in t : g[t] = f[x] + g[t \ {x}]
  <2>1. PICK S : S = 0 .. CellBytes - 1
    OBVIOUS
  <2>2. IsFiniteSet(S) /\ f \in [S -> Int] /\ Sums(g, f, S)
    BY <1>1, <1>3, <2>1, Zenon
  <2>3. \A t \in SUBSET S : g[t] \in Int /\ \A x \in t : g[t] = f[x] + g[t \ {x}]
    BY <2>2, SumRemove
  <2> QED BY <2>1, <2>3, Zenon
<1>5. P[0] = 0
  <2>1. {} \in SUBSET (0 .. CellBytes - 1)
    OBVIOUS
  <2>2. g[{}] = 0
    BY <1>1, <2>1 DEF Sums
  <2>3. 0 .. 0 - 1 = {}
    OBVIOUS
  <2> QED BY <2>2, <2>3
<1>6. ASSUME NEW k \in 0 .. CellBytes - 1 PROVE P[k + 1] = P[k] + b[k] * Place(k)
  <2>1. 0 .. k \in SUBSET (0 .. CellBytes - 1) /\ k \in 0 .. k /\ (0 .. k) \ {k} = 0 .. k - 1
    OBVIOUS
  <2>2. PICK t \in SUBSET (0 .. CellBytes - 1), v \in SUBSET (0 .. CellBytes - 1) :
          t = 0 .. k /\ v = 0 .. k - 1 /\ k \in t /\ t \ {k} = v
    BY <2>1
  <2>3. g[t] = f[k] + g[v] /\ g[v] \in Int /\ f[k] \in Int
    <3>1. g[t] = f[k] + g[t \ {k}] /\ g[v] \in Int
      BY <1>4, <2>2, Zenon
    <3>2. f[k] \in Int
      BY <1>1, Zenon
    <3> QED BY <2>2, <3>1, <3>2, Zenon
  <2>4. (k + 1) - 1 = k /\ k + 1 \in 0 .. CellBytes /\ k \in 0 .. CellBytes
    OBVIOUS
  <2>5. P[k + 1] = g[t] /\ P[k] = g[v]
    BY <2>2, <2>4
  <2>6. f[k] = b[k] * Place(k)
    BY <1>1
  <2> HIDE DEF P, b
  <2>7. g[t] = g[v] + f[k]
    BY <2>3
  <2> QED BY <2>5, <2>6, <2>7, Zenon
<1>7. Makes(P, b, CellBytes)
  <2> HIDE DEF P, b
  <2> QED BY <1>5, <1>6 DEF Makes
<1>8. P[CellBytes] = g[0 .. CellBytes - 1]
  OBVIOUS
<1> HIDE DEF P
<1>9. /\ P[CellBytes] \in 0 .. Place(CellBytes) - 1
      /\ \A i \in 0 .. CellBytes - 1 : (P[CellBytes] \div Place(i)) % ByteMod = b[i]
  <2> HIDE DEF b
  <2>1. CellBytes \in Nat \ {0}
    OBVIOUS
  <2>2. HasDigits(P[CellBytes], b, CellBytes)
    BY <1>2, <1>7, <2>1, MadeDigits, Zenon
  <2> QED BY <2>2, Zenon DEF HasDigits
<1>10. \A i \in 0 .. CellBytes - 1 : b[i] = s.memory[address + i]
  OBVIOUS
<1> HIDE DEF b
<1>11. PICK u \in 0 .. CellMod - 1 : u = P[CellBytes]
  BY <1>9, Places
<1> QED BY <1>1, <1>8, <1>9, <1>10, <1>11

\* Reading a cell gives the one cell that has the bytes of memory.
LEMMA ReadCellAt ==
  ASSUME NEW s \in Machine, NEW address \in Nat, address + CellBytes <= MemorySize
  PROVE  read_cell(s, address) = RawEffects!CellAt(s.memory, address)
<1> DEFINE Is(v) == \A i \in 0 .. CellBytes - 1 :
                      s.memory[address + i] = (to_u32(v) \div Place(i)) % ByteMod
<1>1. PICK u \in 0 .. CellMod - 1 :
           /\ read_cell(s, address) = to_cell(u)
           /\ \A i \in 0 .. CellBytes - 1 : (u \div Place(i)) % ByteMod = s.memory[address + i]
  BY MachineFields, ReadCellDigits
<1>2. u \in Int
  BY Places
<1>3. to_u32(to_cell(u)) = u /\ to_cell(u) \in Cell
  <2>1. to_u32(to_cell(u)) = u % CellMod /\ to_cell(u) \in Cell
    BY <1>2, ToCell DEF to_u32
  <2>2. PICK m \in Nat \ {0} : m = CellMod
    BY Places
  <2>3. m * 0 + u = u
    BY <1>2
  <2>4. u % m = u
    BY <2>2, <2>3, RemainderUnique
  <2> QED BY <2>1, <2>2, <2>4
<1>4. Is(to_cell(u))
  BY <1>1, <1>3
<1>5. ASSUME NEW v \in Cell, Is(v) PROVE v = to_cell(u)
  <2>1. to_u32(v) \in 0 .. CellMod - 1
    <3>1. v \in Int
      BY ToCell
    <3>2. PICK m \in Nat \ {0} : m = CellMod
      BY Places
    <3>3. v % m \in 0 .. m - 1
      BY <3>1
    <3> QED BY <3>2, <3>3 DEF to_u32
  <2>2. \A i \in 0 .. CellBytes - 1 : (to_u32(v) \div Place(i)) % ByteMod = (u \div Place(i)) % ByteMod
    BY <1>1, <1>5, Zenon
  <2>3. to_u32(v) = u
    BY <2>1, <2>2, DigitsDetermine
  <2>4. v = to_cell(v)
    BY ToCell
  <2>5. to_u32(v) = to_u32(to_cell(u))
    BY <1>3, <2>3
  <2>6. to_cell(v) = to_cell(to_cell(u))
    BY <2>5, Zenon DEF to_cell
  <2> QED BY <1>3, <2>4, <2>6, ToCell
<1>6. RawEffects!CellAt(s.memory, address) = CHOOSE v \in Cell : Is(v)
  BY RawArithmetic, Zenon DEF RawEffects!CellAt, Place
<1> HIDE DEF Is
<1>7. (CHOOSE v \in Cell : Is(v)) = to_cell(u)
  BY <1>3, <1>4, <1>5
<1> QED BY <1>1, <1>6, <1>7

\* The least significant byte.
LEMMA LowByte ==
  ASSUME NEW v \in Int
  PROVE  ByteOf(v, 0) = v % ByteMod
<1>1. PICK b \in Nat \ {0}, n \in Nat : b = ByteMod /\ CellMod = b * n
  <2>1. PICK k \in Nat : CellBytes = 1 + k
    <3>1. CellBytes - 1 \in Nat /\ CellBytes = 1 + (CellBytes - 1)
      OBVIOUS
    <3> QED BY <3>1
  <2>2. Place(1) = ByteMod
    <3>1. ByteBits * 1 = ByteBits
      OBVIOUS
    <3> QED BY <3>1, Zenon DEF Place, ByteMod
  <2>3. CellMod = ByteMod * Place(k) /\ Place(k) \in Nat /\ ByteMod \in Nat \ {0}
    BY <2>1, <2>2, Places
  <2> QED BY <2>3
<1>2. PICK m \in Nat \ {0} : m = CellMod
  BY Places
<1>3. PICK q \in Int, e \in 0 .. m - 1 : q = v \div m /\ e = v % m /\ v = m * q + e
  BY DivisionParts, Zenon
<1>4. PICK p \in Int, d \in 0 .. b - 1 : p = e \div b /\ d = e % b /\ e = b * p + d
  <2>1. e \in Int
    OBVIOUS
  <2> QED BY <2>1, DivisionParts, Zenon
<1>5. v = b * (n * q + p) + d
  <2>1. m * q = b * (n * q)
    BY <1>1, <1>2
  <2>2. b * (n * q + p) = b * (n * q) + b * p
    OBVIOUS
  <2>3. PICK A \in Int, B \in Int, C \in Int, D \in Int :
          A = m * q /\ B = b * p /\ C = b * (n * q) /\ D = b * (n * q + p)
    OBVIOUS
  <2>4. A = C /\ D = C + B /\ v = A + e /\ e = B + d
    BY <1>3, <1>4, <2>1, <2>2, <2>3, Zenon
  <2>5. v = D + d
    BY <2>4
  <2> QED BY <2>3, <2>5, Zenon
<1>6. v % b = d
  <2>1. n * q + p \in Int
    OBVIOUS
  <2> QED BY <1>5, <2>1, RemainderUnique
<1>7. ByteOf(v, 0) = ((v % m) \div 1) % b
  <2>1. 2 ^ (ByteBits * 0) = 1
    BY Places DEF Place
  <2> QED BY <1>1, <1>2, <2>1, Zenon DEF ByteOf, to_u32
<1>8. e \div 1 = e
  OBVIOUS
<1> QED BY <1>1, <1>3, <1>4, <1>6, <1>7, <1>8, Zenon

\* A byte is a cell.
LEMMA ByteCell ==
  ASSUME NEW v \in 0 .. ByteMod - 1
  PROVE  v \in Cell
<1>1. PICK n \in Nat : CellBytes * ByteBits = ByteBits + (n + 1)
  <2>1. CellBytes * ByteBits >= 2 * ByteBits
    OBVIOUS
  <2>2. PICK w \in Nat : w = CellBytes * ByteBits
    OBVIOUS
  <2>3. w - ByteBits - 1 \in Nat /\ w = ByteBits + ((w - ByteBits - 1) + 1)
    BY <2>1, <2>2
  <2> QED BY <2>2, <2>3
<1>2. PICK b \in Nat \ {0}, m \in Nat \ {0} : b = ByteMod /\ m = 2 ^ n
  BY PowerOfTwo, Places
<1>3. CellMod = b * (2 * m)
  <2>1. 2 ^ (ByteBits + (n + 1)) = 2 ^ ByteBits * 2 ^ (n + 1)
    BY PowerSum
  <2>2. 2 ^ (n + 1) = 2 * m
    BY <1>2, PowerOfTwo
  <2> QED BY <1>1, <1>2, <2>1, <2>2 DEF CellMod, CellBits, ByteMod
<1>4. PICK h \in Nat \ {0} : CellMod = 2 * h /\ Cell = -h .. h - 1
  BY CellFacts
<1>5. h = b * m
  <2>1. 2 * h = 2 * (b * m)
    BY <1>3, <1>4
  <2> QED BY <2>1
<1>6. b * m >= b
  OBVIOUS
<1> QED BY <1>2, <1>4, <1>5, <1>6

\* What a memory word's failure depends on.
LEMMA MemoryFailure ==
  ASSUME NEW s \in Machine, NEW w \in MemoryWords, NEW k \in Nat, RawEffects!Takes(w) = k,
         NEW g, Len(DataItems(s)) >= k =>
                  RawEffects!Gives(w, DataItems(s), ReturnItems(s), s.memory) = g,
         Len(g) \in Nat, Len(g) <= k
  PROVE  /\ Len(DataItems(s)) < k => FailureOf(w, s) = "StackUnderflow"
         /\ Len(DataItems(s)) >= k =>
              /\ (\E block \in RawEffects!Blocks(w, DataItems(s)) : RawEffects!Outside(block))
                   => FailureOf(w, s) = "MemoryBoundsError"
              /\ ~(\E block \in RawEffects!Blocks(w, DataItems(s)) : RawEffects!Outside(block))
                   => FailureOf(w, s) = "none"
<1>0. Len(DataItems(s)) \in Nat /\ Len(DataItems(s)) <= StackSize
  BY Depth
<1>1. w \notin {"R>", "RDROP", "/MOD", "DSP!", "RSP!", ">R"}
  BY DEF MemoryWords
<1>2. PICK out : out <=> \E block \in RawEffects!Blocks(w, DataItems(s)) : RawEffects!Outside(block)
  OBVIOUS
<1>3. ASSUME Len(DataItems(s)) < k PROVE FailureOf(w, s) = "StackUnderflow"
  BY <1>3, Zenon DEF FailureOf, RawEffects!Failure
<1>4. ASSUME Len(DataItems(s)) >= k, out PROVE FailureOf(w, s) = "MemoryBoundsError"
  <2>1. ~(Len(DataItems(s)) < k)
    BY <1>0, <1>4
  <2> QED BY <1>1, <1>2, <1>4, <2>1, Zenon DEF FailureOf, RawEffects!Failure
<1>5. ASSUME Len(DataItems(s)) >= k, ~out PROVE FailureOf(w, s) = "none"
  <2>1. ~(Len(DataItems(s)) < k) /\ ~(Len(DataItems(s)) - k + Len(g) > StackSize)
    BY <1>0, <1>5
  <2> QED BY <1>1, <1>2, <1>5, <2>1, Zenon DEF FailureOf, RawEffects!Failure
<1> QED BY <1>2, <1>3, <1>4, <1>5

\* The memory check of a word that has not pushed anything yet.
LEMMA CheckOutcome ==
  ASSUME NEW s \in Machine, NEW t, NEW k, NEW g, Replaced(s, t, k, g), g = <<>> \/ k = 0,
         NEW a \in Int, NEW n \in Int
  PROVE  /\ RawEffects!Outside(<<a, n>>) => Failed(s, check_memory(t, a, n), "MemoryBoundsError")
         /\ ~RawEffects!Outside(<<a, n>>) =>
              /\ check_memory(t, a, n) = t
              /\ a >= 0 /\ n >= 0 /\ a + n <= MemorySize
<1>1. Running(t)
  BY Zenon DEF Replaced
<1>2. RawEffects!Outside(<<a, n>>) <=> ~(a >= 0 /\ n >= 0 /\ a + n <= MemorySize)
  BY DEF RawEffects!Outside
<1>3. Failed(s, [t EXCEPT !.err = "MemoryBoundsError"], "MemoryBoundsError")
  BY FailedFrom DEF Errors
<1>4. ASSUME RawEffects!Outside(<<a, n>>) PROVE check_memory(t, a, n) = [t EXCEPT !.err = "MemoryBoundsError"]
  BY <1>1, <1>2, <1>4, Zenon DEF check_memory, Require
<1>5. ASSUME ~RawEffects!Outside(<<a, n>>) PROVE check_memory(t, a, n) = t
  BY <1>1, <1>2, <1>5, Zenon DEF check_memory, Require
<1> QED BY <1>2, <1>3, <1>4, <1>5

\* The store of a cell.
LEMMA WriteCellOutcome ==
  ASSUME NEW s \in Machine, NEW t, NEW k, NEW g, Replaced(s, t, k, g), g = <<>> \/ k = 0,
         NEW a \in Int, NEW v
  PROVE  /\ RawEffects!Outside(<<a, CellBytes>>) => Failed(s, write_cell(t, a, v), "MemoryBoundsError")
         /\ ~RawEffects!Outside(<<a, CellBytes>>) =>
              write_cell(t, a, v) = [t EXCEPT !.memory = RawEffects!CellStored(s.memory, a, v)]
<1>1. Running(t) /\ t.memory = s.memory
  BY Zenon DEF Replaced
<1>2. ASSUME RawEffects!Outside(<<a, CellBytes>>) PROVE Failed(s, write_cell(t, a, v), "MemoryBoundsError")
  <2>1. Failed(s, check_memory(t, a, CellBytes), "MemoryBoundsError")
    BY <1>2, CheckOutcome
  <2>2. ~Running(check_memory(t, a, CellBytes))
    BY <2>1, StaysFailed, Zenon
  <2>3. write_cell(t, a, v) = check_memory(t, a, CellBytes)
    BY <2>2, Zenon DEF write_cell
  <2> QED BY <2>1, <2>3, Zenon
<1>3. ASSUME ~RawEffects!Outside(<<a, CellBytes>>)
      PROVE  write_cell(t, a, v) = [t EXCEPT !.memory = RawEffects!CellStored(s.memory, a, v)]
  <2>1. check_memory(t, a, CellBytes) = t
    BY <1>3, CheckOutcome
  <2>2. write_cell(t, a, v) =
          [t EXCEPT !.memory = [b \in DOMAIN t.memory |-> IF b \in a .. a + CellBytes - 1
                                                         THEN ByteOf(v, b - a) ELSE t.memory[b]]]
    BY <1>1, <2>1 DEF write_cell
  <2>3. [b \in DOMAIN t.memory |-> IF b \in a .. a + CellBytes - 1 THEN ByteOf(v, b - a) ELSE t.memory[b]]
          = RawEffects!CellStored(s.memory, a, v)
    BY <1>1, RawArithmetic, Zenon DEF RawEffects!CellStored, ByteOf
  <2> QED BY <2>2, <2>3, Zenon
<1> QED BY <1>2, <1>3

\* No memory word touches the return stack.
LEMMA MemoryIsData == MemoryWords \subseteq DataWords
BY DEF MemoryWords, DataWords, Words

\* !, +! and -!.
LEMMA StoreEffect ==
  ASSUME NEW s \in Machine, Running(s), NEW w \in {"!", "+!", "-!"}
  PROVE  Effects(w, s, RawWord(w, s))
<1> DEFINE D == DataItems(s)
           y == second(s)
           x == top(s)
           c == check_memory(pop2(s), x, CellBytes)
           v == IF w = "!" THEN y ELSE IF w = "+!" THEN read_cell(s, x) + y ELSE read_cell(s, x) - y
<1>0. Len(D) \in Nat /\ Len(D) <= StackSize
  BY Depth
<1>1. w \in MemoryWords /\ w \in DataWords /\ RawEffects!Takes(w) = 2
  BY MemoryIsData DEF MemoryWords, RawEffects!Takes
<1>2. /\ RawEffects!Gives(w, D, ReturnItems(s), s.memory) = <<>> /\ Len(<<>>) = 0
      /\ RawEffects!Blocks(w, D) = {<<D[Len(D)], CellBytes>>}
  <2> HIDE DEF D
  <2> QED BY Tuples DEF RawEffects!Gives, RawEffects!Blocks
<1>3. RawWord(w, s) = write_cell(IF w = "!" THEN pop2(s) ELSE c, x, v)
  <2>1. RawWord(w, s) = raw_memory(w, s)
    BY <1>1, Families
  <2>2. CASE w = "!"
    <3>1. raw_memory(w, s) = write_cell(pop2(s), x, y)
      BY <2>2 DEF raw_memory
    <3> QED BY <2>1, <2>2, <3>1
  <2>3. CASE w = "+!"
    <3>1. raw_memory(w, s) = write_cell(c, x, read_cell(s, x) + y)
      BY <2>3 DEF raw_memory
    <3> QED BY <2>1, <2>3, <3>1
  <2>4. CASE w = "-!"
    <3>1. raw_memory(w, s) = write_cell(c, x, read_cell(s, x) - y)
      BY <2>4 DEF raw_memory
    <3> QED BY <2>1, <2>4, <3>1
  <2> QED BY <2>2, <2>3, <2>4
<1>4. PICK g : g = <<>> /\ Len(g) = 0
  BY Tuples, Zenon
<1>5. CASE Len(D) < 2
  <2>1. Failed(s, pop2(s), "StackUnderflow")
    BY <1>5, PopsFail
  <2>2. c = pop2(s) /\ RawWord(w, s) = pop2(s)
    <3>0. PICK t : t = pop2(s)
      OBVIOUS
    <3>1. Failed(s, t, "StackUnderflow")
      BY <2>1, <3>0, Zenon
    <3>2. /\ \A a, n : check_memory(t, a, n) = t
          /\ \A a, z : write_cell(t, a, z) = t
      <4> HIDE DEF c, x, v
      <4> QED BY <3>1, StaysFailed
    <3> QED BY <1>3, <3>0, <3>2
  <2>3. FailureOf(w, s) = "StackUnderflow"
    BY <1>1, <1>2, <1>4, <1>5, MemoryFailure
  <2> QED BY <2>1, <2>2, <2>3, WordFails
<1>6. CASE Len(D) >= 2
  <2>1. x = D[Len(D)] /\ y = D[Len(D) - 1] /\ x \in Int /\ y \in Int
    BY <1>0, <1>6, TopItem
  <2>2. Replaced(s, pop2(s), 2, <<>>)
    BY <1>6, PopsReplaced
  <2>3. PICK o : o <=> RawEffects!Outside(<<x, CellBytes>>)
    OBVIOUS
  <2>4. (\E block \in RawEffects!Blocks(w, D) : RawEffects!Outside(block)) <=> o
    BY <1>2, <2>1, <2>3
  <2>5. CASE o
    <3>1. FailureOf(w, s) = "MemoryBoundsError"
      BY <1>1, <1>2, <1>4, <1>6, <2>4, <2>5, MemoryFailure
    <3>2. Failed(s, c, "MemoryBoundsError") /\ Failed(s, write_cell(pop2(s), x, v), "MemoryBoundsError")
      <4>0. PICK t, z : t = pop2(s) /\ z = v
        OBVIOUS
      <4>1. Replaced(s, t, 2, <<>>) /\ RawEffects!Outside(<<x, CellBytes>>) /\ CellBytes \in Int
        BY <2>2, <2>3, <2>5, <4>0, MachineAssumption
      <4>2. Failed(s, check_memory(t, x, CellBytes), "MemoryBoundsError")
        <5> HIDE DEF D, y, x, c, v
        <5> QED BY <2>1, <4>1, CheckOutcome
      <4>3. Failed(s, write_cell(t, x, z), "MemoryBoundsError")
        <5> HIDE DEF D, y, x, c, v
        <5> QED BY <2>1, <4>1, WriteCellOutcome
      <4> QED BY <4>0, <4>2, <4>3, Zenon
    <3>3. write_cell(c, x, v) = c
      <4>1. PICK t : t = c
        OBVIOUS
      <4>2. Failed(s, t, "MemoryBoundsError")
        BY <3>2, <4>1, Zenon
      <4>3. \A a, z : write_cell(t, a, z) = t
        <5> HIDE DEF D, y, x, c, v
        <5> QED BY <4>2, StaysFailed
      <4> QED BY <4>1, <4>3
    <3>4. Failed(s, RawWord(w, s), "MemoryBoundsError")
      BY <1>3, <3>2, <3>3
    <3> QED BY <3>1, <3>4, WordFails
  <2>6. CASE ~o
    <3>1. FailureOf(w, s) = "none"
      BY <1>1, <1>2, <1>4, <1>6, <2>4, <2>6, MemoryFailure
    <3>2. c = pop2(s) /\ x >= 0 /\ x + CellBytes <= MemorySize
      BY <2>1, <2>2, <2>3, <2>6, CheckOutcome
    <3>3. write_cell(pop2(s), x, v) = [pop2(s) EXCEPT !.memory = RawEffects!CellStored(s.memory, x, v)]
      BY <2>1, <2>2, <2>3, <2>6, WriteCellOutcome
    <3>4. RawWord(w, s) = [pop2(s) EXCEPT !.memory = RawEffects!CellStored(s.memory, x, v)]
      BY <1>3, <3>2, <3>3
    <3>5. RawEffects!Stored(w, D, s.memory) = RawEffects!CellStored(s.memory, x, v)
      <4>1. read_cell(s, x) = RawEffects!CellAt(s.memory, x)
        BY <2>1, <3>2, ReadCellAt
      <4> HIDE DEF D, x, y
      <4>2. CASE w = "!"
        BY <2>1, <4>2 DEF RawEffects!Stored
      <4>3. CASE w = "+!"
        BY <2>1, <4>1, <4>3 DEF RawEffects!Stored
      <4>4. CASE w = "-!"
        BY <2>1, <4>1, <4>4 DEF RawEffects!Stored
      <4> QED BY <4>2, <4>3, <4>4
    <3>6. RawWord(w, s) = [pop2(s) EXCEPT !.memory = RawEffects!Stored(w, D, s.memory)]
      BY <3>4, <3>5, Zenon
    <3> QED BY <1>1, <1>2, <2>2, <3>1, <3>6, DataSucceeds
  <2> QED BY <2>5, <2>6
<1> QED BY <1>0, <1>5, <1>6

\* A word that fetches what its address names.
LEMMA FetchEffect ==
  ASSUME NEW s \in Machine, Running(s), NEW w \in {"@", "C@"}, NEW n, n = IF w = "@" THEN CellBytes ELSE 1,
         NEW v, RawWord(w, s) = push_data(check_memory(pop_data(s), top(s), n), v),
         Len(DataItems(s)) >= 1 /\ top(s) >= 0 /\ top(s) + n <= MemorySize =>
           v \in Cell /\ RawEffects!Gives(w, DataItems(s), ReturnItems(s), s.memory) = <<v>>
  PROVE  Effects(w, s, RawWord(w, s))
<1> DEFINE D == DataItems(s)
           x == top(s)
<1>0. Len(D) \in Nat /\ Len(D) <= StackSize /\ n \in Int /\ n >= 0
  BY Depth
<1>1. w \in MemoryWords /\ w \in DataWords /\ RawEffects!Takes(w) = 1
  BY MemoryIsData DEF MemoryWords, RawEffects!Takes
<1>2. RawEffects!Blocks(w, D) = {<<D[Len(D)], n>>}
  <2> HIDE DEF D
  <2> QED BY Tuples DEF RawEffects!Blocks
<1>3. PICK f : f = RawEffects!Gives(w, D, ReturnItems(s), s.memory)
  OBVIOUS
<1>4. Len(f) = 1
  <2> HIDE DEF D
  <2>1. CASE w = "@"
    BY <1>3, <2>1, Tuples DEF RawEffects!Gives
  <2>2. CASE w = "C@"
    BY <1>3, <2>2, Tuples DEF RawEffects!Gives
  <2> QED BY <2>1, <2>2
<1>5. Len(f) \in Nat /\ Len(f) <= 1
  BY <1>4
<1>6. PICK p, t, c : p = pop_data(s) /\ c = check_memory(p, x, n) /\ t = push_data(c, v)
  OBVIOUS
<1>7. RawWord(w, s) = t
  BY <1>6
<1>8. CASE Len(D) < 1
  <2>1. Failed(s, p, "StackUnderflow")
    BY <1>6, <1>8, PopsFail
  <2>2. \A a, m : check_memory(p, a, m) = p
    BY <2>1, StaysFailed
  <2>3. \A z : push_data(p, z) = p
    BY <2>1, StaysFailed
  <2>4. t = p
    BY <1>6, <2>2, <2>3
  <2>5. FailureOf(w, s) = "StackUnderflow"
    BY <1>1, <1>3, <1>5, <1>8, MemoryFailure
  <2> QED BY <1>7, <2>1, <2>4, <2>5, WordFails
<1>9. CASE Len(D) >= 1
  <2>1. x = D[Len(D)] /\ x \in Int
    BY <1>0, <1>9, TopItem
  <2>2. Replaced(s, p, 1, <<>>)
    BY <1>6, <1>9, PopsReplaced
  <2>3. PICK o : o <=> RawEffects!Outside(<<x, n>>)
    OBVIOUS
  <2>4. (\E block \in RawEffects!Blocks(w, D) : RawEffects!Outside(block)) <=> o
    BY <1>2, <2>1, <2>3
  <2>5. CASE o
    <3>1. FailureOf(w, s) = "MemoryBoundsError"
      BY <1>1, <1>3, <1>5, <1>9, <2>4, <2>5, MemoryFailure
    <3>2. RawEffects!Outside(<<x, n>>)
      BY <2>3, <2>5
    <3>3. Failed(s, c, "MemoryBoundsError")
      <4> HIDE DEF D, x
      <4> QED BY <1>0, <1>6, <2>1, <2>2, <3>2, CheckOutcome
    <3>4. \A z : push_data(c, z) = c
      BY <3>3, StaysFailed
    <3>5. t = c
      BY <1>6, <3>4
    <3> QED BY <1>7, <3>1, <3>3, <3>5, WordFails
  <2>6. CASE ~o
    <3>1. FailureOf(w, s) = "none"
      BY <1>1, <1>3, <1>5, <1>9, <2>4, <2>6, MemoryFailure
    <3>2. ~RawEffects!Outside(<<x, n>>)
      BY <2>3, <2>6
    <3>3. c = p /\ x >= 0 /\ x + n <= MemorySize
      <4> HIDE DEF D, x
      <4> QED BY <1>0, <1>6, <2>1, <2>2, <3>2, CheckOutcome
    <3>4. v \in Cell /\ f = <<v>>
      BY <1>3, <1>9, <3>3
    <3>5. Replaced(s, t, 1, f)
      <4>1. Len(D) - 1 + Len(<<>>) < StackSize
        BY <1>0, <1>9, Tuples
      <4>2. Replaced(s, push_data(p, v), 1, Append(<<>>, v))
        BY <2>2, <3>4, <4>1, PushItem
      <4> QED BY <1>6, <3>3, <3>4, <4>2, Tuples
    <3>6. RawEffects!Stored(w, D, s.memory) = s.memory
      <4> HIDE DEF D
      <4> QED BY DEF RawEffects!Stored
    <3>7. t = [t EXCEPT !.memory = RawEffects!Stored(w, D, s.memory)]
      <4> HIDE DEF D
      <4> QED BY <3>5, <3>6, MemoryKept, Zenon
    <3> QED BY <1>1, <1>3, <1>7, <3>1, <3>5, <3>7, DataSucceeds
  <2> QED BY <2>5, <2>6
<1> QED BY <1>0, <1>8, <1>9

\* @ and C@.
LEMMA FetchEffects ==
  ASSUME NEW s \in Machine, Running(s), NEW w \in {"@", "C@"}
  PROVE  Effects(w, s, RawWord(w, s))
<1> DEFINE D == DataItems(s)
           x == top(s)
<1>0. Len(D) \in Nat /\ RawWord(w, s) = raw_memory(w, s)
  BY Depth, Families DEF MemoryWords
<1>1. Len(D) >= 1 => x = D[Len(D)] /\ x \in Int
  BY <1>0, TopItem
<1>2. CASE w = "@"
  <2>1. raw_memory(w, s) = push_data(check_memory(pop_data(s), x, CellBytes), read_cell(s, x))
    BY <1>2 DEF raw_memory
  <2>2. ASSUME Len(D) >= 1, x >= 0, x + CellBytes <= MemorySize
        PROVE  read_cell(s, x) \in Cell /\ RawEffects!Gives(w, D, ReturnItems(s), s.memory) = <<read_cell(s, x)>>
    <3>1. read_cell(s, x) = RawEffects!CellAt(s.memory, x)
      BY <1>1, <2>2, ReadCellAt
    <3>2. read_cell(s, x) \in Cell
      <4>1. s.memory \in [0 .. MemorySize - 1 -> 0 .. ByteMod - 1]
        BY MachineFields
      <4>2. x \in Nat
        BY <1>1, <2>2
      <4> QED BY <2>2, <4>1, <4>2, ReadCellType
    <3> HIDE DEF D, x
    <3> QED BY <1>1, <1>2, <2>2, <3>1, <3>2 DEF RawEffects!Gives
  <2>3. PICK n : n = CellBytes
    OBVIOUS
  <2> QED BY <1>0, <1>2, <2>1, <2>2, <2>3, FetchEffect
<1>3. CASE w = "C@"
  <2>1. raw_memory(w, s) = push_data(check_memory(pop_data(s), x, 1), read_byte(s, x))
    BY <1>3 DEF raw_memory
  <2>2. ASSUME Len(D) >= 1, x >= 0, x + 1 <= MemorySize
        PROVE  read_byte(s, x) \in Cell /\ RawEffects!Gives(w, D, ReturnItems(s), s.memory) = <<read_byte(s, x)>>
    <3>1. s.memory[x] \in 0 .. ByteMod - 1
      BY <1>1, <2>2 DEF Machine
    <3>2. read_byte(s, x) \in Cell
      BY <3>1, ByteCell DEF read_byte
    <3> HIDE DEF D, x
    <3> QED BY <1>1, <1>3, <2>2, <3>2 DEF RawEffects!Gives, read_byte
  <2> QED BY <1>0, <1>3, <2>1, <2>2, FetchEffect
<1> QED BY <1>2, <1>3

\* The store of a byte.
LEMMA WriteByteOutcome ==
  ASSUME NEW s \in Machine, NEW t, NEW k, NEW g, Replaced(s, t, k, g), g = <<>> \/ k = 0,
         NEW a \in Int, NEW v
  PROVE  /\ RawEffects!Outside(<<a, 1>>) => Failed(s, write_byte(t, a, v), "MemoryBoundsError")
         /\ ~RawEffects!Outside(<<a, 1>>) =>
              write_byte(t, a, v) = [t EXCEPT !.memory = [s.memory EXCEPT ![a] = ByteOf(v, 0)]]
<1>1. Running(t) /\ t.memory = s.memory /\ t \in Machine
  BY Zenon DEF Replaced
<1>2. ASSUME RawEffects!Outside(<<a, 1>>) PROVE Failed(s, write_byte(t, a, v), "MemoryBoundsError")
  <2>1. Failed(s, check_memory(t, a, 1), "MemoryBoundsError")
    BY <1>2, CheckOutcome
  <2>2. ~Running(check_memory(t, a, 1))
    BY <2>1, StaysFailed, Zenon
  <2>3. write_byte(t, a, v) = check_memory(t, a, 1)
    BY <2>2, Zenon DEF write_byte
  <2> QED BY <2>1, <2>3, Zenon
<1>3. ASSUME ~RawEffects!Outside(<<a, 1>>)
      PROVE  write_byte(t, a, v) = [t EXCEPT !.memory = [s.memory EXCEPT ![a] = ByteOf(v, 0)]]
  <2>1. check_memory(t, a, 1) = t
    BY <1>3, CheckOutcome
  <2>2. write_byte(t, a, v) = [t EXCEPT !.memory[a] = ByteOf(v, 0)]
    BY <1>1, <2>1 DEF write_byte
  <2> QED BY <1>1, <2>2 DEF Machine
<1> QED BY <1>2, <1>3

\* The byte store.
LEMMA ByteStoreEffect ==
  ASSUME NEW s \in Machine, Running(s)
  PROVE  Effects("C!", s, RawWord("C!", s))
<1> DEFINE D == DataItems(s)
           y == second(s)
           x == top(s)
<1>0. Len(D) \in Nat /\ Len(D) <= StackSize
  BY Depth
<1>1. "C!" \in MemoryWords /\ "C!" \in DataWords /\ RawEffects!Takes("C!") = 2
  BY MemoryIsData DEF MemoryWords, RawEffects!Takes
<1>2. /\ RawEffects!Gives("C!", D, ReturnItems(s), s.memory) = <<>> /\ Len(<<>>) = 0
      /\ RawEffects!Blocks("C!", D) = {<<D[Len(D)], 1>>}
  <2> HIDE DEF D
  <2> QED BY Tuples DEF RawEffects!Gives, RawEffects!Blocks
<1>3. PICK g : g = <<>> /\ Len(g) = 0
  BY Tuples, Zenon
<1>4. PICK p, t : p = pop2(s) /\ t = write_byte(p, x, y)
  OBVIOUS
<1>5. RawWord("C!", s) = t
  BY <1>1, <1>4, Families DEF raw_memory
<1>6. CASE Len(D) < 2
  <2>1. Failed(s, p, "StackUnderflow")
    BY <1>4, <1>6, PopsFail
  <2>2. \A a, z : write_byte(p, a, z) = p
    BY <2>1, StaysFailed
  <2>3. t = p
    BY <1>4, <2>2
  <2>4. FailureOf("C!", s) = "StackUnderflow"
    BY <1>1, <1>2, <1>3, <1>6, MemoryFailure
  <2> QED BY <1>5, <2>1, <2>3, <2>4, WordFails
<1>7. CASE Len(D) >= 2
  <2>1. x = D[Len(D)] /\ y = D[Len(D) - 1] /\ x \in Int /\ y \in Int
    BY <1>0, <1>7, TopItem
  <2>2. Replaced(s, p, 2, <<>>)
    BY <1>4, <1>7, PopsReplaced
  <2>3. PICK o : o <=> RawEffects!Outside(<<x, 1>>)
    OBVIOUS
  <2>4. (\E block \in RawEffects!Blocks("C!", D) : RawEffects!Outside(block)) <=> o
    BY <1>2, <2>1, <2>3
  <2>5. CASE o
    <3>1. FailureOf("C!", s) = "MemoryBoundsError"
      BY <1>1, <1>2, <1>3, <1>7, <2>4, <2>5, MemoryFailure
    <3>2. RawEffects!Outside(<<x, 1>>)
      BY <2>3, <2>5
    <3>3. Failed(s, t, "MemoryBoundsError")
      <4> HIDE DEF D, x, y
      <4> QED BY <1>4, <2>1, <2>2, <3>2, WriteByteOutcome
    <3> QED BY <1>5, <3>1, <3>3, WordFails
  <2>6. CASE ~o
    <3>1. FailureOf("C!", s) = "none"
      BY <1>1, <1>2, <1>3, <1>7, <2>4, <2>6, MemoryFailure
    <3>2. ~RawEffects!Outside(<<x, 1>>)
      BY <2>3, <2>6
    <3>3. t = [p EXCEPT !.memory = [s.memory EXCEPT ![x] = ByteOf(y, 0)]]
      <4> HIDE DEF D, x, y
      <4> QED BY <1>4, <2>1, <2>2, <3>2, WriteByteOutcome
    <3>4. RawEffects!Stored("C!", D, s.memory) = [s.memory EXCEPT ![x] = ByteOf(y, 0)]
      <4>1. ByteOf(y, 0) = y % ByteMod
        BY <2>1, LowByte
      <4> HIDE DEF D, x, y
      <4> QED BY <2>1, <4>1, RawArithmetic DEF RawEffects!Stored
    <3>5. t = [p EXCEPT !.memory = RawEffects!Stored("C!", D, s.memory)]
      BY <3>3, <3>4, Zenon
    <3> QED BY <1>1, <1>2, <1>5, <2>2, <3>1, <3>5, DataSucceeds
  <2> QED BY <2>5, <2>6
<1> QED BY <1>0, <1>6, <1>7

\* The block move, its two checks in the order of the code.
LEMMA MoveOutcome ==
  ASSUME NEW s \in Machine, NEW t, NEW k, NEW g, Replaced(s, t, k, g), g = <<>> \/ k = 0,
         NEW z \in Int, NEW y \in Int, NEW x \in Int
  PROVE  /\ RawEffects!Outside(<<z, x>>) \/ RawEffects!Outside(<<y, x>>) =>
              Failed(s, copy_bytes(t, z, y, x), "MemoryBoundsError")
         /\ ~RawEffects!Outside(<<z, x>>) /\ ~RawEffects!Outside(<<y, x>>) =>
              copy_bytes(t, z, y, x) =
                [t EXCEPT !.memory = [a \in DOMAIN s.memory |->
                   IF a \in y .. y + x - 1 THEN s.memory[z + a - y] ELSE s.memory[a]]]
<1>1. Running(t) /\ t.memory = s.memory /\ t \in Machine
  BY Zenon DEF Replaced
<1>2. PICK b, c : b = check_memory(t, z, x) /\ c = check_memory(b, y, x)
  OBVIOUS
<1>3. ASSUME RawEffects!Outside(<<z, x>>) \/ RawEffects!Outside(<<y, x>>)
      PROVE  Failed(s, copy_bytes(t, z, y, x), "MemoryBoundsError")
  <2>1. Failed(s, c, "MemoryBoundsError")
    <3>1. CASE RawEffects!Outside(<<z, x>>)
      <4>1. Failed(s, b, "MemoryBoundsError")
        BY <1>2, <3>1, CheckOutcome
      <4>2. \A a, n : check_memory(b, a, n) = b
        BY <4>1, StaysFailed
      <4> QED BY <1>2, <4>1, <4>2
    <3>2. CASE ~RawEffects!Outside(<<z, x>>) /\ RawEffects!Outside(<<y, x>>)
      <4>1. b = t
        BY <1>2, <3>2, CheckOutcome
      <4> QED BY <1>2, <3>2, <4>1, CheckOutcome
    <3> QED BY <1>3, <3>1, <3>2
  <2>2. ~Running(c)
    BY <2>1, StaysFailed
  <2>3. copy_bytes(t, z, y, x) = c
    BY <1>2, <2>2, Zenon DEF copy_bytes
  <2> QED BY <2>1, <2>3
<1>4. ASSUME ~RawEffects!Outside(<<z, x>>), ~RawEffects!Outside(<<y, x>>)
      PROVE  copy_bytes(t, z, y, x) =
                [t EXCEPT !.memory = [a \in DOMAIN s.memory |->
                   IF a \in y .. y + x - 1 THEN s.memory[z + a - y] ELSE s.memory[a]]]
  <2>1. b = t /\ c = t
    BY <1>2, <1>4, CheckOutcome
  <2>2. copy_bytes(t, z, y, x) =
          [t EXCEPT !.memory = [a \in DOMAIN t.memory |->
             IF a \in y .. y + x - 1 THEN t.memory[a - y + z] ELSE t.memory[a]]]
    BY <1>1, <1>2, <2>1 DEF copy_bytes
  <2>3. DOMAIN s.memory = 0 .. MemorySize - 1
    BY DEF Machine
  <2>4. \A a \in 0 .. MemorySize - 1 : a - y + z = z + a - y
    OBVIOUS
  <2>5. [a \in DOMAIN t.memory |-> IF a \in y .. y + x - 1 THEN t.memory[a - y + z] ELSE t.memory[a]]
          = [a \in DOMAIN s.memory |-> IF a \in y .. y + x - 1 THEN s.memory[z + a - y] ELSE s.memory[a]]
    BY <1>1, <2>3, <2>4, Zenon
  <2> QED BY <2>2, <2>5, Zenon
<1> QED BY <1>3, <1>4

\* CMOVE, overlapping blocks included.
LEMMA MoveEffect ==
  ASSUME NEW s \in Machine, Running(s)
  PROVE  Effects("CMOVE", s, RawWord("CMOVE", s))
<1> DEFINE D == DataItems(s)
           z == third(s)
           y == second(s)
           x == top(s)
<1>0. Len(D) \in Nat /\ Len(D) <= StackSize
  BY Depth
<1>1. "CMOVE" \in MemoryWords /\ "CMOVE" \in DataWords /\ RawEffects!Takes("CMOVE") = 3
  BY MemoryIsData DEF MemoryWords, RawEffects!Takes
<1>2. /\ RawEffects!Gives("CMOVE", D, ReturnItems(s), s.memory) = <<>> /\ Len(<<>>) = 0
      /\ RawEffects!Blocks("CMOVE", D) =
           {<<D[Len(D) - 2], D[Len(D)]>>, <<D[Len(D) - 1], D[Len(D)]>>}
  <2> HIDE DEF D
  <2> QED BY Tuples DEF RawEffects!Gives, RawEffects!Blocks
<1>3. PICK g : g = <<>> /\ Len(g) = 0
  BY Tuples, Zenon
<1>4. PICK p, t : p = pop3(s) /\ t = copy_bytes(p, z, y, x)
  OBVIOUS
<1>5. RawWord("CMOVE", s) = t
  BY <1>1, <1>4, Families DEF raw_memory
<1>6. CASE Len(D) < 3
  <2>1. Failed(s, p, "StackUnderflow")
    BY <1>4, <1>6, PopsFail
  <2>2. \A a, b, n : copy_bytes(p, a, b, n) = p
    BY <2>1, StaysFailed
  <2>3. t = p
    BY <1>4, <2>2
  <2>4. FailureOf("CMOVE", s) = "StackUnderflow"
    BY <1>1, <1>2, <1>3, <1>6, MemoryFailure
  <2> QED BY <1>5, <2>1, <2>3, <2>4, WordFails
<1>7. CASE Len(D) >= 3
  <2>1. /\ x = D[Len(D)] /\ y = D[Len(D) - 1] /\ z = D[Len(D) - 2]
        /\ x \in Int /\ y \in Int /\ z \in Int
    BY <1>0, <1>7, TopItem
  <2>2. Replaced(s, p, 3, <<>>)
    BY <1>4, <1>7, PopsReplaced
  <2>3. PICK o : o <=> RawEffects!Outside(<<z, x>>) \/ RawEffects!Outside(<<y, x>>)
    OBVIOUS
  <2>4. (\E block \in RawEffects!Blocks("CMOVE", D) : RawEffects!Outside(block)) <=> o
    BY <1>2, <2>1, <2>3
  <2>5. CASE o
    <3>1. FailureOf("CMOVE", s) = "MemoryBoundsError"
      BY <1>1, <1>2, <1>3, <1>7, <2>4, <2>5, MemoryFailure
    <3>2. RawEffects!Outside(<<z, x>>) \/ RawEffects!Outside(<<y, x>>)
      BY <2>3, <2>5
    <3>3. Failed(s, t, "MemoryBoundsError")
      <4> HIDE DEF D, x, y, z
      <4> QED BY <1>4, <2>1, <2>2, <3>2, MoveOutcome
    <3> QED BY <1>5, <3>1, <3>3, WordFails
  <2>6. CASE ~o
    <3>1. FailureOf("CMOVE", s) = "none"
      BY <1>1, <1>2, <1>3, <1>7, <2>4, <2>6, MemoryFailure
    <3>2. ~RawEffects!Outside(<<z, x>>) /\ ~RawEffects!Outside(<<y, x>>)
      BY <2>3, <2>6
    <3> DEFINE moved == [a \in DOMAIN s.memory |->
                           IF a \in y .. y + x - 1 THEN s.memory[z + a - y] ELSE s.memory[a]]
    <3>3. t = [p EXCEPT !.memory = moved]
      <4>1. PICK a, b, n : a = z /\ b = y /\ n = x /\ a \in Int /\ b \in Int /\ n \in Int
        BY <2>1
      <4>2. copy_bytes(p, a, b, n) =
              [p EXCEPT !.memory = [i \in DOMAIN s.memory |->
                 IF i \in b .. b + n - 1 THEN s.memory[a + i - b] ELSE s.memory[i]]]
        <5>1. ~RawEffects!Outside(<<a, n>>) /\ ~RawEffects!Outside(<<b, n>>)
          BY <3>2, <4>1
        <5> HIDE DEF D, x, y, z, moved
        <5> QED BY <2>2, <4>1, <5>1, MoveOutcome
      <4> QED BY <1>4, <4>1, <4>2, Zenon
    <3>4. RawEffects!Stored("CMOVE", D, s.memory) = moved
      <4> HIDE DEF D, x, y, z
      <4> QED BY <2>1 DEF RawEffects!Stored
    <3>5. t = [p EXCEPT !.memory = RawEffects!Stored("CMOVE", D, s.memory)]
      BY <3>3, <3>4, Zenon
    <3> QED BY <1>1, <1>2, <1>5, <2>2, <3>1, <3>5, DataSucceeds
  <2> QED BY <2>5, <2>6
<1> QED BY <1>0, <1>6, <1>7

\* A machine with other bytes.
WithMemory(s, m) == [s EXCEPT !.memory = m]

\* A window is written back alike whatever the memory holds.
LEMMA WindowAndMemory ==
  ASSUME NEW s \in Machine, Running(s), NEW k \in Nat, k <= Len(DataItems(s)), NEW values, NEW m
  PROVE  replace_data_window(WithMemory(s, m), k, values) = WithMemory(replace_data_window(s, k, values), m)
<1>0. PICK u : u = WithMemory(s, m)
  OBVIOUS
<1>1. windowed(s, k) = s
  BY WindowFails
<1>2. u.err = s.err /\ u.dsp = s.dsp /\ u.data_stack = s.data_stack
  BY <1>0 DEF Machine, WithMemory
<1>3. windowed(u, k) = u
  <2>1. s.dsp + k <= StackSize
    <3>1. PICK n : n = Len(DataItems(s)) /\ n = StackSize - s.dsp /\ k <= n
      BY ItemsFacts
    <3>2. s.dsp \in Nat
      BY DEF Machine
    <3> QED BY <3>1, <3>2
  <2> QED BY <1>2, <2>1 DEF windowed, Require, Running
<1>4. PICK f : f = [i \in DOMAIN s.data_stack |-> IF i \in s.dsp .. s.dsp + k - 1
                                  THEN to_cell(values[k - (i - s.dsp)]) ELSE s.data_stack[i]]
  OBVIOUS
<1>5. replace_data_window(s, k, values) = [s EXCEPT !.data_stack = f]
  BY <1>1, <1>4, Zenon DEF replace_data_window
<1>6. replace_data_window(u, k, values) = [u EXCEPT !.data_stack = f]
  <2>1. f = [i \in DOMAIN u.data_stack |-> IF i \in u.dsp .. u.dsp + k - 1
                                 THEN to_cell(values[k - (i - u.dsp)]) ELSE u.data_stack[i]]
    BY <1>2, <1>4, Zenon
  <2>2. Running(u)
    BY <1>2, Zenon DEF Running
  <2> QED BY <1>3, <2>1, <2>2, Zenon DEF replace_data_window
<1> QED BY <1>0, <1>5, <1>6 DEF Machine, WithMemory

\* The copy of a byte: both addresses are checked before it is written.
LEMMA CopyByteOutcome ==
  ASSUME NEW s \in Machine, Running(s), NEW y \in Int, NEW x \in Int
  PROVE  /\ RawEffects!Outside(<<y, 1>>) \/ RawEffects!Outside(<<x, 1>>) =>
              Failed(s, copy_byte(s, y, x), "MemoryBoundsError")
         /\ ~RawEffects!Outside(<<y, 1>>) /\ ~RawEffects!Outside(<<x, 1>>) =>
              copy_byte(s, y, x) = [s EXCEPT !.memory = [s.memory EXCEPT ![x] = s.memory[y]]]
<1>1. Replaced(s, s, 0, <<>>)
  BY TopItems
<1>2. PICK b, v : b = check_memory(s, y, 1) /\ v = s.memory[y]
  OBVIOUS
<1>3. copy_byte(s, y, x) = write_byte(b, x, v)
  BY <1>2, Zenon DEF copy_byte, read_byte
<1>4. CASE RawEffects!Outside(<<y, 1>>)
  <2>1. Failed(s, b, "MemoryBoundsError")
    BY <1>1, <1>2, <1>4, CheckOutcome
  <2>2. \A a, z : write_byte(b, a, z) = b
    BY <2>1, StaysFailed
  <2> QED BY <1>3, <1>4, <2>1, <2>2
<1>5. CASE ~RawEffects!Outside(<<y, 1>>)
  <2>1. b = s /\ y \in 0 .. MemorySize - 1
    BY <1>1, <1>2, <1>5, CheckOutcome
  <2>2. v \in 0 .. ByteMod - 1
    BY <1>2, <2>1 DEF Machine
  <2>3. ByteOf(v, 0) = v
    <3>0. ByteMod \in Nat \ {0}
      BY PowerOfTwo DEF ByteMod
    <3>a. v \in Int
      BY <2>2
    <3>b. ByteOf(v, 0) = v % ByteMod
      BY <3>a, LowByte
    <3>1. PICK f : f = ByteMod /\ f \in Nat /\ ByteOf(v, 0) = v % f
      BY <3>0, <3>b
    <3>2. v \in 0 .. f - 1
      BY <2>2, <3>1, Zenon
    <3>3. v % f = v
      BY <3>1, <3>2
    <3> QED BY <3>1, <3>3
  <2>4. CASE RawEffects!Outside(<<x, 1>>)
    <3>1. Failed(s, write_byte(s, x, v), "MemoryBoundsError")
      BY <1>1, <2>4, WriteByteOutcome
    <3> QED BY <1>3, <2>1, <2>4, <3>1
  <2>5. CASE ~RawEffects!Outside(<<x, 1>>)
    <3>1. write_byte(s, x, v) = [s EXCEPT !.memory = [s.memory EXCEPT ![x] = ByteOf(v, 0)]]
      BY <1>1, <2>5, WriteByteOutcome
    <3> QED BY <1>2, <1>3, <1>5, <2>1, <2>3, <2>5, <3>1
  <2> QED BY <2>4, <2>5
<1> QED BY <1>4, <1>5

\* The copy of a byte that advances both addresses.
LEMMA CopyAdvanceEffect ==
  ASSUME NEW s \in Machine, Running(s)
  PROVE  Effects("C@C!", s, RawWord("C@C!", s))
<1> DEFINE D == DataItems(s)
           y == second(s)
           x == top(s)
<1>0. Len(D) \in Nat /\ Len(D) <= StackSize
  BY Depth
<1>1. "C@C!" \in MemoryWords /\ "C@C!" \in DataWords /\ RawEffects!Takes("C@C!") = 2
  BY MemoryIsData DEF MemoryWords, RawEffects!Takes
<1>2. PICK g : g = RawEffects!Gives("C@C!", D, ReturnItems(s), s.memory)
  OBVIOUS
<1>3. /\ g = <<to_cell(D[Len(D) - 1] + 1), to_cell(D[Len(D)] + 1)>> /\ Len(g) = 2
      /\ RawEffects!Blocks("C@C!", D) = {<<D[Len(D) - 1], 1>>, <<D[Len(D)], 1>>}
  <2> HIDE DEF D
  <2>1. g = <<RawEffects!to_cell(D[Len(D) - 1] + 1), RawEffects!to_cell(D[Len(D)] + 1)>>
    BY <1>2 DEF RawEffects!Gives
  <2>2. g = <<to_cell(D[Len(D) - 1] + 1), to_cell(D[Len(D)] + 1)>>
    BY <2>1, RawArithmetic, Zenon
  <2> QED BY <2>2, Tuples DEF RawEffects!Blocks
<1>a. Len(g) \in Nat /\ Len(g) <= 2 /\ 2 \in Nat
  BY <1>3
<1>4. PICK b, values, p, t : /\ b = windowed(s, 2) /\ values = <<y + 1, x + 1>>
                            /\ p = copy_byte(b, y, x) /\ t = replace_data_window(p, 2, values)
  OBVIOUS
<1>5. RawWord("C@C!", s) = t
  BY <1>1, <1>4, Families DEF raw_memory
<1>6. CASE Len(D) < 2
  <2>1. Failed(s, b, "StackUnderflow")
    BY <1>4, <1>6, WindowFails
  <2>2. /\ \A a, n : check_memory(b, a, n) = b
        /\ \A a, v : write_byte(b, a, v) = b
        /\ \A n, v : replace_data_window(b, n, v) = b
    BY <2>1, StaysFailed
  <2>3. p = b
    BY <1>4, <2>2, Zenon DEF copy_byte
  <2>4. t = b
    BY <1>4, <2>2, <2>3
  <2>5. FailureOf("C@C!", s) = "StackUnderflow"
    BY <1>1, <1>2, <1>3, <1>6, MemoryFailure
  <2> QED BY <1>5, <2>1, <2>4, <2>5, WordFails
<1>7. CASE Len(D) >= 2
  <2>1. x = D[Len(D)] /\ y = D[Len(D) - 1] /\ x \in Int /\ y \in Int
    BY <1>0, <1>7, TopItem
  <2>2. b = s
    BY <1>4, <1>7, WindowFails
  <2>3. PICK o : o <=> RawEffects!Outside(<<y, 1>>) \/ RawEffects!Outside(<<x, 1>>)
    OBVIOUS
  <2>4. (\E block \in RawEffects!Blocks("C@C!", D) : RawEffects!Outside(block)) <=> o
    BY <1>3, <2>1, <2>3
  <2>5. CASE o
    <3>1. FailureOf("C@C!", s) = "MemoryBoundsError"
      BY <1>1, <1>2, <1>a, <1>7, <2>4, <2>5, MemoryFailure
    <3>2. RawEffects!Outside(<<y, 1>>) \/ RawEffects!Outside(<<x, 1>>)
      BY <2>3, <2>5
    <3>3. Failed(s, p, "MemoryBoundsError")
      <4> HIDE DEF D, x, y
      <4> QED BY <1>4, <2>1, <2>2, <3>2, CopyByteOutcome
    <3>4. \A n, v : replace_data_window(p, n, v) = p
      BY <3>3, StaysFailed
    <3>5. t = p
      BY <1>4, <3>4
    <3> QED BY <1>5, <3>1, <3>3, <3>5, WordFails
  <2>6. CASE ~o
    <3>1. FailureOf("C@C!", s) = "none"
      BY <1>1, <1>2, <1>a, <1>7, <2>4, <2>6, MemoryFailure
    <3>2. ~RawEffects!Outside(<<y, 1>>) /\ ~RawEffects!Outside(<<x, 1>>)
      BY <2>3, <2>6
    <3>3. PICK m : m = [s.memory EXCEPT ![x] = s.memory[y]]
      OBVIOUS
    <3>4. p = [s EXCEPT !.memory = m]
      <4>1. PICK a, c : a = y /\ c = x /\ a \in Int /\ c \in Int
        BY <2>1
      <4>2. copy_byte(s, a, c) = [s EXCEPT !.memory = [s.memory EXCEPT ![c] = s.memory[a]]]
        <5>1. ~RawEffects!Outside(<<a, 1>>) /\ ~RawEffects!Outside(<<c, 1>>)
          BY <3>2, <4>1
        <5> HIDE DEF D, x, y
        <5> QED BY <4>1, <5>1, CopyByteOutcome
      <4> QED BY <1>4, <2>2, <3>3, <4>1, <4>2, Zenon
    <3>5. PICK u : u = replace_data_window(s, 2, values)
      OBVIOUS
    <3>6. t = [u EXCEPT !.memory = m]
      <4>1. 2 <= Len(DataItems(s)) /\ 2 \in Nat
        BY <1>0, <1>7
      <4>2. replace_data_window(WithMemory(s, m), 2, values) = WithMemory(replace_data_window(s, 2, values), m)
        BY <4>1, WindowAndMemory
      <4>3. p = WithMemory(s, m)
        BY <3>4, Zenon DEF WithMemory
      <4>4. t = WithMemory(u, m)
        BY <1>4, <3>5, <4>2, <4>3, Zenon
      <4> QED BY <4>4, Zenon DEF WithMemory
    <3>7. values[1] = y + 1 /\ values[2] = x + 1 /\ \A i \in 1 .. 2 : values[i] \in Int
      <4>1. PICK a, c : a = y + 1 /\ c = x + 1 /\ a \in Int /\ c \in Int
        BY <2>1
      <4>2. values = <<a, c>>
        BY <1>4, <4>1, Zenon
      <4>3. values[1] = a /\ values[2] = c /\ \A i \in 1 .. 2 : i = 1 \/ i = 2
        BY <4>2
      <4>4. values[1] = y + 1 /\ values[2] = x + 1
        BY <4>1, <4>3, Zenon
      <4>5. \A i \in 1 .. 2 : values[i] \in Int
        BY <4>1, <4>3, Zenon
      <4> QED BY <4>4, <4>5, Zenon
    <3>8. Replaced(s, u, 2, [i \in 1 .. 2 |-> to_cell(values[i])])
      <4>1. 2 <= Len(DataItems(s)) /\ 2 \in Nat \ {0} /\ \A i \in 1 .. 2 : values[i] \in Int
        BY <1>0, <1>7, <3>7
      <4> HIDE DEF D, x, y
      <4> QED BY <3>5, <4>1, WindowReplaced
    <3>9. g = [i \in 1 .. 2 |-> to_cell(values[i])]
      <4>1. g = <<to_cell(values[1]), to_cell(values[2])>>
        BY <1>3, <2>1, <3>7, Zenon
      <4> HIDE DEF D, x, y
      <4> QED BY <4>1
    <3>10. RawEffects!Stored("C@C!", D, s.memory) = m
      <4> HIDE DEF D, x, y
      <4> QED BY <2>1, <3>3 DEF RawEffects!Stored
    <3>11. t = [u EXCEPT !.memory = RawEffects!Stored("C@C!", D, s.memory)]
      BY <3>6, <3>10, Zenon
    <3>12. Replaced(s, u, 2, g)
      BY <3>8, <3>9, Zenon
    <3> QED BY <1>1, <1>2, <1>5, <3>1, <3>11, <3>12, DataSucceeds
  <2> QED BY <2>5, <2>6
<1> QED BY <1>0, <1>6, <1>7

\* The pointers count the free cells.
LEMMA Pointers ==
  ASSUME NEW s \in Machine
  PROVE  /\ s.dsp = StackSize - Len(DataItems(s)) /\ s.dsp \in Nat
         /\ s.rsp = StackSize - Len(ReturnItems(s)) /\ s.rsp \in Nat
<1>1. PICK d, r : d = Len(DataItems(s)) /\ d = StackSize - s.dsp
                  /\ r = Len(ReturnItems(s)) /\ r = StackSize - s.rsp
  BY ItemsFacts
<1>2. s.dsp \in Nat /\ s.rsp \in Nat
  BY DEF Machine
<1> QED BY <1>1, <1>2

\* The words that push a pointer.
LEMMA PointerEffect ==
  ASSUME NEW s \in Machine, Running(s), NEW w \in {"RSP@", "DSP@"}
  PROVE  Effects(w, s, RawWord(w, s))
<1> DEFINE D == DataItems(s)
           R == ReturnItems(s)
<1>0. Len(D) \in Nat /\ Len(D) <= StackSize /\ Len(R) \in Nat
  BY Depth
<1>1. w \in Plain /\ RawEffects!Takes(w) = 0 /\ w \in ReturnWords
  BY DEF Plain, Words, ReturnWords, MemoryWords, RawEffects!Takes
<1>2. PICK v : v = IF w = "RSP@" THEN s.rsp ELSE s.dsp
  OBVIOUS
<1>3. v \in Int
  BY <1>2, Pointers
<1>4. RawWord(w, s) = push_data(s, v)
  BY <1>1, <1>2, Families DEF raw_return
<1>5. PICK g : g = <<to_cell(v)>> /\ Len(g) = 1
  BY Tuples, Zenon
<1>6. RawEffects!Gives(w, D, R, s.memory) = g
  <2>1. CASE w = "RSP@"
    <3>1. v = StackSize - Len(R)
      BY <1>2, <2>1, Pointers
    <3>2. RawEffects!Gives(w, D, R, s.memory) = <<RawEffects!to_cell(StackSize - Len(R))>>
      <4> HIDE DEF D, R
      <4> QED BY <2>1 DEF RawEffects!Gives
    <3> QED BY <1>5, <3>1, <3>2, RawArithmetic, Zenon
  <2>2. CASE w = "DSP@"
    <3>1. v = StackSize - Len(D)
      BY <1>2, <2>2, Pointers
    <3>2. RawEffects!Gives(w, D, R, s.memory) = <<RawEffects!to_cell(StackSize - Len(D))>>
      <4> HIDE DEF D, R
      <4> QED BY <2>2 DEF RawEffects!Gives
    <3> QED BY <1>5, <3>1, <3>2, RawArithmetic, Zenon
  <2> QED BY <2>1, <2>2
<1>7. PICK t : t = push_data(s, v)
  OBVIOUS
<1>8. Replaced(s, s, 0, <<>>) /\ Len(<<>>) = 0
  BY TopItems, Tuples
<1>9. Append(<<>>, to_cell(v)) = g
  BY <1>5, Tuples, Zenon
<1>10. CASE Len(D) < StackSize
  <2>1. Len(D) - 0 + Len(<<>>) < StackSize
    BY <1>0, <1>8, <1>10
  <2>2. Replaced(s, t, 0, g)
    BY <1>3, <1>7, <1>8, <1>9, <2>1, PushReplaced
  <2>3. Len(D) >= 0 /\ ~(Len(D) - 0 + Len(g) > StackSize)
    BY <1>0, <1>5, <1>10
  <2>4. Effects(w, s, t)
    BY <1>1, <1>6, <2>2, <2>3, PlainEnds
  <2> QED BY <1>4, <1>7, <2>4, Zenon
<1>11. CASE Len(D) >= StackSize
  <2>1. Len(D) - 0 + Len(<<>>) >= StackSize
    BY <1>0, <1>8, <1>11
  <2>2. Failed(s, t, "StackOverflow")
    BY <1>7, <1>8, <2>1, PushFails
  <2>3. Len(D) >= 0 /\ Len(D) - 0 + Len(g) > StackSize
    BY <1>0, <1>5, <1>11
  <2>4. Effects(w, s, t)
    BY <1>1, <1>6, <2>2, <2>3, PlainEnds
  <2> QED BY <1>4, <1>7, <2>4, Zenon
<1> QED BY <1>0, <1>10, <1>11

\* What the failure of a word between the stacks depends on.
LEMMA ReturnFailure ==
  ASSUME NEW s \in Machine, NEW w \in {">R", "R>", "RDROP", "RSP!", "DSP!"},
         NEW k, k = IF w \in {"R>", "RDROP"} THEN 0 ELSE 1
  PROVE  /\ w \in ReturnWords /\ w \in Words
         /\ RawEffects!Takes(w) = k
         /\ FailureOf(w, s) =
              IF Len(DataItems(s)) < k \/ (w \in {"R>", "RDROP"} /\ ReturnItems(s) = <<>>)
              THEN "StackUnderflow"
              ELSE IF \/ w \in {"DSP!", "RSP!"} /\ DataItems(s)[Len(DataItems(s))] \notin 0 .. StackSize
                      \/ w = ">R" /\ Len(ReturnItems(s)) = StackSize
                      \/ w = "R>" /\ Len(DataItems(s)) = StackSize
              THEN "StackOverflow" ELSE "none"
<1> DEFINE D == DataItems(s)
           R == ReturnItems(s)
<1>0. Len(D) \in Nat /\ Len(D) <= StackSize
  BY Depth
<1>1. w \in ReturnWords /\ w \in Words /\ RawEffects!Takes(w) = k
  BY DEF ReturnWords, Words, RawEffects!Takes
<1>2. RawEffects!Blocks(w, D) = {}
  BY DEF RawEffects!Blocks
<1>3. PICK n : n = Len(RawEffects!Gives(w, D, R, s.memory))
  OBVIOUS
<1>4. n = IF w = "R>" THEN 1 ELSE 0
  <2> HIDE DEF D, R
  <2> QED BY <1>3, Tuples DEF RawEffects!Gives
<1>5. Len(D) - k + n > StackSize <=> w = "R>" /\ Len(D) = StackSize
  <2>1. PICK d : d = Len(D) /\ d \in Nat /\ d <= StackSize
    BY <1>0
  <2>2. CASE w = "R>"
    <3>1. k = 0 /\ n = 1
      BY <1>4, <2>2
    <3>2. d - 0 + 1 > StackSize <=> d = StackSize
      BY <2>1
    <3> QED BY <2>1, <2>2, <3>1, <3>2, Zenon
  <2>3. CASE w # "R>"
    <3>1. k \in {0, 1} /\ n = 0
      BY <1>4, <2>3
    <3>2. ~(d - k + 0 > StackSize)
      BY <2>1, <3>1
    <3> QED BY <2>1, <2>3, <3>1, <3>2, Zenon
  <2> QED BY <2>2, <2>3
<1>6. w # "/MOD"
  OBVIOUS
<1>7. FailureOf(w, s) =
              IF Len(D) < k \/ (w \in {"R>", "RDROP"} /\ R = <<>>) THEN "StackUnderflow"
              ELSE IF \/ w \in {"DSP!", "RSP!"} /\ D[Len(D)] \notin 0 .. StackSize
                      \/ w = ">R" /\ Len(R) = StackSize
                      \/ Len(D) - k + n > StackSize
              THEN "StackOverflow" ELSE "none"
  <2>1. FailureOf(w, s) = RawEffects!Failure(w, D, R, s.memory)
    BY Zenon DEF FailureOf
  <2> HIDE DEF D, R
  <2> QED BY <1>1, <1>2, <1>3, <1>6, <2>1, Zenon DEF RawEffects!Failure
<1> QED BY <1>1, <1>5, <1>7, Zenon

\* A word between the stacks that has had its effect.
LEMMA ReturnSucceeds ==
  ASSUME NEW s \in Machine, NEW w \in {">R", "R>", "RDROP", "RSP!", "DSP!"}, NEW t, NEW k, NEW g,
         FailureOf(w, s) = "none", t.err = "none", t.memory = s.memory, RawEffects!Takes(w) = k,
         RawEffects!Gives(w, DataItems(s), ReturnItems(s), s.memory) = g,
         IF w = "DSP!" THEN RawEffects!Exposed(RawEffects!Front(DataItems(s)), DataItems(t),
                                               StackSize - DataItems(s)[Len(DataItems(s))])
         ELSE DataItems(t) = Spliced(DataItems(s), k, g),
         IF w = ">R" THEN ReturnItems(t) = Append(ReturnItems(s), DataItems(s)[Len(DataItems(s))])
         ELSE IF w \in {"R>", "RDROP"} THEN ReturnItems(t) = RawEffects!Front(ReturnItems(s))
         ELSE IF w = "RSP!" THEN RawEffects!Exposed(ReturnItems(s), ReturnItems(t),
                                                    StackSize - DataItems(s)[Len(DataItems(s))])
         ELSE ReturnItems(t) = ReturnItems(s)
  PROVE  Effects(w, s, t)
<1> DEFINE D == DataItems(s)
           R == ReturnItems(s)
           DD == DataItems(t)
           RR == ReturnItems(t)
<1>1. RawEffects!Stored(w, D, s.memory) = t.memory
  BY DEF RawEffects!Stored
<1>2. IF w = "DSP!" THEN RawEffects!Exposed(RawEffects!Front(D), DD, StackSize - D[Len(D)])
      ELSE DD = SubSeq(D, 1, Len(D) - RawEffects!Takes(w)) \o RawEffects!Gives(w, D, R, s.memory)
  BY Zenon DEF Spliced
<1>3. IF w = ">R" THEN RR = Append(R, D[Len(D)])
      ELSE IF w \in {"R>", "RDROP"} THEN RR = RawEffects!Front(R)
      ELSE IF w = "RSP!" THEN RawEffects!Exposed(R, RR, StackSize - D[Len(D)])
      ELSE RR = R
  OBVIOUS
<1>4. RawEffects!Becomes(w, D, R, s.memory, DD, RR, t.memory)
  <2> HIDE DEF D, R, DD, RR
  <2> QED BY <1>1, <1>2, <1>3, Zenon DEF RawEffects!Becomes
<1> QED BY <1>4, Zenon DEF Effects

\* The machine with the return pointer elsewhere.
WithRsp(s, p) == [s EXCEPT !.rsp = p]

\* A return stack without its top item.
LEMMA ReturnFront ==
  ASSUME NEW s \in Machine, Len(ReturnItems(s)) > 0
  PROVE  /\ Items(s.return_stack, s.rsp + 1) = RawEffects!Front(ReturnItems(s))
         /\ RawEffects!IsPrefix(RawEffects!Front(ReturnItems(s)), ReturnItems(s))
         /\ s.rsp + 1 \in 0 .. StackSize
<1>1. PICK R, n : R = ReturnItems(s) /\ n = Len(R) /\ n > 0 /\ n = StackSize - s.rsp /\ R \in Seq(Cell)
  BY ItemsFacts
<1>2. s.rsp \in Nat /\ s.rsp + 1 \in 0 .. StackSize /\ n \in Nat
  BY <1>1, Pointers
<1>3. PICK u : u = [s EXCEPT !.rsp = s.rsp + 1] /\ u \in Machine
  BY <1>2, RspReplaced
<1>4. u.return_stack = s.return_stack /\ u.rsp = s.rsp + 1
  BY <1>3 DEF Machine
<1>5. PICK E : E = ReturnItems(u)
  OBVIOUS
<1>6. /\ E \in Seq(Cell) /\ Len(E) = StackSize - (s.rsp + 1)
      /\ \A i \in 1 .. StackSize - (s.rsp + 1) : E[i] = s.return_stack[StackSize - i]
  BY <1>3, <1>4, <1>5, ItemsFacts
<1>7. /\ Len(E) = n - 1 /\ \A i \in 1 .. n - 1 : E[i] = s.return_stack[StackSize - i]
  BY <1>1, <1>2, <1>6
<1>8. \A i \in 1 .. n : R[i] = s.return_stack[StackSize - i]
  BY <1>1, ItemsFacts
<1>9. \A i \in 1 .. n - 1 : E[i] = R[i]
  BY <1>2, <1>7, <1>8
<1>10. PICK F : F = SubSeq(R, 1, n - 1)
  OBVIOUS
<1>11. F \in Seq(Cell) /\ Len(F) = n - 1 /\ \A i \in 1 .. n - 1 : F[i] = R[i]
  <2>1. PICK m : m = n - 1 /\ m \in Nat /\ m <= Len(R)
    <3>1. n - 1 \in Nat /\ n - 1 <= n
      BY <1>1, <1>2
    <3> QED BY <1>1, <3>1, Zenon
  <2>a. R \in Seq(Cell)
    BY <1>1
  <2>2. SubSeq(R, 1, m) \in Seq(Cell) /\ Len(SubSeq(R, 1, m)) = m /\ \A i \in 1 .. m : SubSeq(R, 1, m)[i] = R[i]
    BY <2>a, <2>1
  <2> QED BY <1>10, <2>1, <2>2, Zenon
<1>12. E = F
  BY <1>6, <1>7, <1>9, <1>11, SeqEqual
<1>13. RawEffects!Front(R) = F
  BY <1>1, <1>10, Zenon DEF RawEffects!Front
<1>14. RawEffects!IsPrefix(F, R)
  <2>1. Len(F) <= Len(R) /\ \A i \in 1 .. Len(F) : F[i] = R[i]
    BY <1>1, <1>2, <1>11
  <2> QED BY <1>1, <1>11, <2>1, PrefixIntro
<1>15. E = Items(s.return_stack, s.rsp + 1)
  BY <1>4, <1>5, Zenon DEF ReturnItems
<1> QED BY <1>1, <1>2, <1>12, <1>13, <1>14, <1>15, Zenon

\* A pop of the return stack.
LEMMA PopReturnOutcome ==
  ASSUME NEW s \in Machine, Running(s)
  PROVE  /\ ReturnItems(s) = <<>> => Failed(s, pop_return(s), "StackUnderflow")
         /\ ReturnItems(s) # <<>> => /\ Len(ReturnItems(s)) > 0
                                     /\ pop_return(s) = WithRsp(s, s.rsp + 1)
<1>1. ReturnItems(s) \in Seq(Cell) /\ s.rsp = StackSize - Len(ReturnItems(s)) /\ s.rsp \in Nat
  BY ItemsFacts, Pointers
<1>2. ASSUME ReturnItems(s) = <<>> PROVE Failed(s, pop_return(s), "StackUnderflow")
  <2>1. ~(s.rsp < StackSize)
    BY <1>1, <1>2, Tuples
  <2>2. pop_return(s) = [s EXCEPT !.err = "StackUnderflow"]
    <3>1. ~Running([s EXCEPT !.err = "StackUnderflow"])
      BY ErrorRaised DEF Errors
    <3> QED BY <2>1, <3>1 DEF pop_return, Require
  <2>3. Replaced(s, s, 0, <<>>)
    BY TopItems
  <2> QED BY <2>2, <2>3, FailedFrom DEF Errors
<1>3. ASSUME ReturnItems(s) # <<>>
      PROVE  Len(ReturnItems(s)) > 0 /\ pop_return(s) = WithRsp(s, s.rsp + 1)
  <2>1. Len(ReturnItems(s)) > 0
    BY <1>1, <1>3
  <2>2. s.rsp < StackSize
    BY <1>1, <2>1
  <2> QED BY <2>1, <2>2 DEF pop_return, Require, WithRsp
<1> QED BY <1>2, <1>3

\* RDROP.
LEMMA ReturnDropEffect ==
  ASSUME NEW s \in Machine, Running(s)
  PROVE  Effects("RDROP", s, RawWord("RDROP", s))
<1> DEFINE D == DataItems(s)
           R == ReturnItems(s)
<1>0. Len(D) \in Nat
  BY Depth
<1>1. PICK k : k = 0
  OBVIOUS
<1>2. /\ "RDROP" \in ReturnWords /\ RawEffects!Takes("RDROP") = k
      /\ FailureOf("RDROP", s) = IF R = <<>> THEN "StackUnderflow" ELSE "none"
  <2>1. k = IF "RDROP" \in {"R>", "RDROP"} THEN 0 ELSE 1
    BY <1>1
  <2>2. ~(Len(D) < k)
    BY <1>0, <1>1
  <2> QED BY <2>1, <2>2, ReturnFailure
<1>3. PICK t : t = pop_return(s)
  OBVIOUS
<1>4. RawWord("RDROP", s) = t
  BY <1>2, <1>3, Families DEF raw_return
<1>5. CASE R = <<>>
  <2>1. Failed(s, t, "StackUnderflow")
    BY <1>3, <1>5, PopReturnOutcome
  <2> QED BY <1>2, <1>4, <1>5, <2>1, WordFails
<1>6. CASE R # <<>>
  <2>1. Len(R) > 0 /\ t = WithRsp(s, s.rsp + 1)
    BY <1>3, <1>6, PopReturnOutcome
  <2>2. t.err = "none" /\ t.memory = s.memory /\ t.dsp = s.dsp /\ t.data_stack = s.data_stack
        /\ t.rsp = s.rsp + 1 /\ t.return_stack = s.return_stack
    BY <2>1 DEF Machine, WithRsp, Running
  <2>3. ReturnItems(t) = RawEffects!Front(R)
    BY <2>1, <2>2, ReturnFront, Zenon DEF ReturnItems
  <2>4. DataItems(t) = Spliced(D, k, <<>>)
    <3>1. Replaced(s, s, 0, <<>>)
      BY TopItems
    <3>2. D = Spliced(D, 0, <<>>)
      BY <3>1, Zenon DEF Replaced
    <3> QED BY <1>1, <2>2, <3>2, Zenon DEF DataItems
  <2>5. RawEffects!Gives("RDROP", D, R, s.memory) = <<>>
    BY DEF RawEffects!Gives
  <2>6. FailureOf("RDROP", s) = "none"
    BY <1>2, <1>6
  <2>7. Effects("RDROP", s, t)
    <3> HIDE DEF D, R
    <3> QED BY <1>2, <2>2, <2>3, <2>4, <2>5, <2>6, ReturnSucceeds DEF D, R
  <2> QED BY <1>4, <2>7, Zenon
<1> QED BY <1>5, <1>6

\* What a pop of a running machine with an item leaves.
LEMMA PoppedFields ==
  ASSUME NEW s \in Machine, Running(s), Len(DataItems(s)) >= 1, NEW u, u = pop_data(s)
  PROVE  /\ Replaced(s, u, 1, <<>>) /\ u \in Machine /\ Running(u) /\ u.err = "none"
         /\ u.data_stack = s.data_stack /\ u.rsp = s.rsp /\ u.return_stack = s.return_stack
         /\ u.memory = s.memory
         /\ DataItems(u) = Spliced(DataItems(s), 1, <<>>)
<1>1. Replaced(s, u, 1, <<>>)
  BY PopsReplaced
<1>2. /\ u \in Machine /\ Running(u) /\ u.rsp = s.rsp /\ u.return_stack = s.return_stack
      /\ u.memory = s.memory /\ DataItems(u) = Spliced(DataItems(s), 1, <<>>)
  BY <1>1, Zenon DEF Replaced
<1>3. u = [s EXCEPT !.dsp = @ + 1]
  BY <1>2, PopFacts
<1>4. u.data_stack = s.data_stack
  BY <1>3 DEF Machine
<1> QED BY <1>1, <1>2, <1>4, Zenon DEF Running

\* R>: the item leaves the return stack before it arrives, if it does.
LEMMA FromReturnEffect ==
  ASSUME NEW s \in Machine, Running(s)
  PROVE  Effects("R>", s, RawWord("R>", s))
<1> DEFINE D == DataItems(s)
           R == ReturnItems(s)
<1>0. Len(D) \in Nat /\ Len(D) <= StackSize
  BY Depth
<1>1. PICK k : k = 0
  OBVIOUS
<1>2. /\ "R>" \in ReturnWords /\ RawEffects!Takes("R>") = k
      /\ FailureOf("R>", s) = IF R = <<>> THEN "StackUnderflow"
                              ELSE IF Len(D) = StackSize THEN "StackOverflow" ELSE "none"
  <2>1. k = IF "R>" \in {"R>", "RDROP"} THEN 0 ELSE 1
    BY <1>1
  <2>2. ~(Len(D) < k)
    BY <1>0, <1>1
  <2> QED BY <2>1, <2>2, ReturnFailure
<1>3. PICK p, v, t : p = pop_return(s) /\ v = peek_return(s) /\ t = push_data(p, v)
  OBVIOUS
<1>4. RawWord("R>", s) = t
  BY <1>2, <1>3, Families DEF raw_return
<1>5. CASE R = <<>>
  <2>1. Failed(s, p, "StackUnderflow")
    BY <1>3, <1>5, PopReturnOutcome
  <2>2. \A z : push_data(p, z) = p
    BY <2>1, StaysFailed
  <2>3. t = p
    BY <1>3, <2>2
  <2> QED BY <1>2, <1>4, <1>5, <2>1, <2>3, WordFails
<1>6. CASE R # <<>>
  <2>1. Len(R) > 0 /\ p = WithRsp(s, s.rsp + 1)
    BY <1>3, <1>6, PopReturnOutcome
  <2>2. /\ Items(s.return_stack, s.rsp + 1) = RawEffects!Front(R)
        /\ RawEffects!IsPrefix(RawEffects!Front(R), R) /\ s.rsp + 1 \in 0 .. StackSize
    BY <2>1, ReturnFront
  <2>3. v \in Cell /\ v = R[Len(R)]
    <3>1. PICK n : n = Len(R) /\ n > 0 /\ n = StackSize - s.rsp
      BY <2>1, ItemsFacts
    <3>2. s.rsp \in Nat
      BY Pointers
    <3>3. n \in 1 .. StackSize - s.rsp /\ StackSize - n = s.rsp /\ s.rsp \in 0 .. StackSize - 1
      BY <3>1, <3>2
    <3>4. R[n] = s.return_stack[s.rsp]
      BY <3>3, ItemsFacts
    <3>5. s.return_stack[s.rsp] \in Cell
      BY <3>3 DEF Machine
    <3> QED BY <1>3, <3>1, <3>4, <3>5, Zenon DEF peek_return
  <2>4. PICK u : u = push_data(s, v)
    OBVIOUS
  <2>5. t = WithRsp(u, s.rsp + 1)
    <3>1. /\ p.err = s.err /\ p.dsp = s.dsp /\ p.data_stack = s.data_stack /\ p \in Machine
          /\ p = [s EXCEPT !.rsp = s.rsp + 1]
      BY <2>1, <2>2 DEF Machine, WithRsp
    <3>2. CASE s.dsp > 0
      <4>1. u = [s EXCEPT !.dsp = s.dsp - 1, !.data_stack = [s.data_stack EXCEPT ![s.dsp - 1] = to_cell(v)]]
        BY <2>4, <3>2 DEF push_data, Require, Machine
      <4>2. t = [p EXCEPT !.dsp = s.dsp - 1, !.data_stack = [s.data_stack EXCEPT ![s.dsp - 1] = to_cell(v)]]
        BY <1>3, <3>1, <3>2 DEF push_data, Require, Machine, Running
      <4> QED BY <3>1, <4>1, <4>2 DEF Machine, WithRsp
    <3>3. CASE ~(s.dsp > 0)
      <4>1. u = [s EXCEPT !.err = "StackOverflow"]
        BY <2>4, <3>3 DEF push_data, Require, Machine, Running
      <4>2. t = [p EXCEPT !.err = "StackOverflow"]
        BY <1>3, <3>1, <3>3 DEF push_data, Require, Machine, Running
      <4> QED BY <3>1, <4>1, <4>2 DEF Machine, WithRsp
    <3> QED BY <3>2, <3>3
  <2>6. Replaced(s, s, 0, <<>>) /\ Len(<<>>) = 0 /\ Append(<<>>, v) = <<v>>
    BY TopItems, Tuples, Zenon
  <2>7. u \in Machine /\ u.return_stack = s.return_stack
    <3>1. v \in Int
      BY <2>3 DEF Cell
    <3>2. u \in Machine
      BY <2>4, <3>1, PushType
    <3> QED BY <2>4, <3>2 DEF push_data, Require, Machine
  <2>8. /\ t.err = u.err /\ t.memory = u.memory /\ DataItems(t) = DataItems(u)
        /\ ReturnItems(t) = RawEffects!Front(R)
    <3>1. /\ t.err = u.err /\ t.memory = u.memory /\ t.dsp = u.dsp /\ t.data_stack = u.data_stack
          /\ t.rsp = s.rsp + 1 /\ t.return_stack = s.return_stack
      BY <2>5, <2>7 DEF Machine, WithRsp
    <3> QED BY <2>2, <3>1, Zenon DEF DataItems, ReturnItems
  <2>9. CASE Len(D) = StackSize
    <3>1. Len(D) - 0 + Len(<<>>) >= StackSize
      BY <1>0, <2>6, <2>9
    <3>2. Failed(s, u, "StackOverflow")
      BY <2>4, <2>6, <3>1, PushFails
    <3>3. u.err = "StackOverflow" /\ RawEffects!Remains(D, R, s.memory, DataItems(u), ReturnItems(u), u.memory)
      BY <3>2, Zenon DEF Failed
    <3>4. RawEffects!Remains(D, R, s.memory, DataItems(t), ReturnItems(t), t.memory)
      BY <2>2, <2>8, <3>3, Zenon DEF RawEffects!Remains
    <3>5. Failed(s, t, "StackOverflow")
      BY <2>8, <3>3, <3>4 DEF Failed
    <3> QED BY <1>2, <1>4, <1>6, <2>9, <3>5, WordFails
  <2>10. CASE Len(D) # StackSize
    <3>1. Len(D) - 0 + Len(<<>>) < StackSize
      BY <1>0, <2>6, <2>10
    <3>2. Replaced(s, u, 0, <<v>>)
      BY <2>3, <2>4, <2>6, <3>1, PushItem
    <3>3. u.err = "none" /\ u.memory = s.memory /\ DataItems(u) = Spliced(D, 0, <<v>>)
      BY <3>2, Zenon DEF Replaced, Running
    <3>4. RawEffects!Gives("R>", D, R, s.memory) = <<v>>
      <4> HIDE DEF D, R
      <4> QED BY <2>3 DEF RawEffects!Gives
    <3>5. DataItems(t) = Spliced(D, k, <<v>>) /\ t.err = "none" /\ t.memory = s.memory
      BY <1>1, <2>8, <3>3, Zenon
    <3>6. FailureOf("R>", s) = "none"
      BY <1>2, <1>6, <2>10
    <3>7. Effects("R>", s, t)
      BY <1>2, <2>8, <3>4, <3>5, <3>6, ReturnSucceeds
    <3> QED BY <1>4, <3>7, Zenon
  <2> QED BY <2>9, <2>10
<1> QED BY <1>5, <1>6

\* >R.
LEMMA ToReturnEffect ==
  ASSUME NEW s \in Machine, Running(s)
  PROVE  Effects(">R", s, RawWord(">R", s))
<1> DEFINE D == DataItems(s)
           R == ReturnItems(s)
<1>0. Len(D) \in Nat /\ Len(R) \in Nat
  BY Depth
<1>1. PICK k : k = 1
  OBVIOUS
<1>2. /\ ">R" \in ReturnWords /\ RawEffects!Takes(">R") = k
      /\ FailureOf(">R", s) = IF Len(D) < k THEN "StackUnderflow"
                              ELSE IF Len(R) = StackSize THEN "StackOverflow" ELSE "none"
  <2>1. k = IF ">R" \in {"R>", "RDROP"} THEN 0 ELSE 1
    BY <1>1
  <2> QED BY <2>1, ReturnFailure
<1>3. PICK u, x, t : u = pop_data(s) /\ x = top(s) /\ t = push_return(u, x)
  OBVIOUS
<1>4. RawWord(">R", s) = t
  BY <1>2, <1>3, Families DEF raw_return
<1>5. CASE Len(D) < 1
  <2>1. Failed(s, u, "StackUnderflow")
    BY <1>3, <1>5, PopsFail
  <2>2. \A z : push_return(u, z) = u
    BY <2>1, StaysFailed
  <2>3. t = u
    BY <1>3, <2>2
  <2>4. FailureOf(">R", s) = "StackUnderflow"
    BY <1>1, <1>2, <1>5
  <2> QED BY <1>4, <2>1, <2>3, <2>4, WordFails
<1>6. CASE Len(D) >= 1
  <2>1. /\ Replaced(s, u, 1, <<>>) /\ u \in Machine /\ Running(u) /\ u.err = "none"
        /\ u.data_stack = s.data_stack /\ u.rsp = s.rsp /\ u.return_stack = s.return_stack
        /\ u.memory = s.memory /\ DataItems(u) = Spliced(D, 1, <<>>)
    BY <1>3, <1>6, PoppedFields
  <2>2. x = D[Len(D)] /\ x \in Cell /\ x \in Int
    BY <1>3, <1>6, TopItem
  <2>3. s.rsp = StackSize - Len(R) /\ s.rsp \in Nat
    BY Pointers
  <2>4. CASE Len(R) = StackSize
    <3>1. ~(u.rsp > 0)
      BY <1>0, <2>1, <2>3, <2>4
    <3>2. t = [u EXCEPT !.err = "StackOverflow"]
      <4>1. ~Running([u EXCEPT !.err = "StackOverflow"])
        BY <2>1, ErrorRaised DEF Errors
      <4> QED BY <1>3, <2>1, <3>1, <4>1 DEF push_return, Require
    <3>3. Failed(s, t, "StackOverflow")
      BY <2>1, <3>2, FailedFrom DEF Errors
    <3>4. FailureOf(">R", s) = "StackOverflow"
      BY <1>0, <1>1, <1>2, <1>6, <2>4
    <3> QED BY <1>4, <3>3, <3>4, WordFails
  <2>5. CASE Len(R) # StackSize
    <3>1. s.rsp > 0 /\ Len(R) + 1 <= StackSize
      BY <1>0, <2>3, <2>5
    <3>2. to_cell(x) = x
      BY <2>2, ToCell
    <3>3. t = [u EXCEPT !.rsp = s.rsp - 1, !.return_stack = [s.return_stack EXCEPT ![s.rsp - 1] = x]]
      BY <1>3, <2>1, <3>1, <3>2 DEF push_return, Require, Machine
    <3>4. t \in Machine
      BY <1>3, <2>1, <2>2, PushReturnType
    <3>5. /\ t.err = "none" /\ t.memory = s.memory /\ t.dsp = u.dsp /\ t.data_stack = u.data_stack
          /\ t.rsp = s.rsp - 1 /\ t.return_stack = [s.return_stack EXCEPT ![s.rsp - 1] = x]
      BY <2>1, <3>3 DEF Machine
    <3>6. DataItems(t) = Spliced(D, k, <<>>)
      BY <1>1, <2>1, <3>5, Zenon DEF DataItems
    <3>7. ReturnItems(t) = Append(R, D[Len(D)])
      <4>1. PICK E, n : E = ReturnItems(t) /\ n = Len(R) /\ n \in Nat /\ n + 1 <= StackSize /\ n = StackSize - s.rsp
        BY <1>0, <2>3, <3>1
      <4>2. StackSize - t.rsp = n + 1
        BY <2>3, <3>5, <4>1
      <4>3. E \in Seq(Cell) /\ Len(E) = n + 1 /\ \A i \in 1 .. n + 1 : E[i] = t.return_stack[StackSize - i]
        BY <3>4, <4>1, <4>2, ItemsFacts
      <4>4. R \in Seq(Cell) /\ \A i \in 1 .. n : R[i] = s.return_stack[StackSize - i]
        BY <4>1, ItemsFacts
      <4>5. PICK A : A = Append(R, x)
        OBVIOUS
      <4>6. A \in Seq(Cell) /\ Len(A) = n + 1 /\ (\A i \in 1 .. n : A[i] = R[i]) /\ A[n + 1] = x
        <5> HIDE DEF R
        <5>1. R \in Seq(Cell) /\ x \in Cell
          BY <2>2, <4>4
        <5>2. /\ Append(R, x) \in Seq(Cell) /\ Len(Append(R, x)) = Len(R) + 1
              /\ (\A i \in 1 .. Len(R) : Append(R, x)[i] = R[i]) /\ Append(R, x)[Len(R) + 1] = x
          BY <5>1, AppendProperties
        <5> QED BY <4>1, <4>5, <5>2, Zenon
      <4>7. \A i \in 1 .. n : StackSize - i \in 0 .. StackSize - 1 /\ StackSize - i # s.rsp - 1
        BY <2>3, <4>1
      <4>8. StackSize - (n + 1) = s.rsp - 1 /\ s.rsp - 1 \in 0 .. StackSize - 1
        BY <2>3, <3>1, <4>1
      <4>9. DOMAIN s.return_stack = 0 .. StackSize - 1
        BY DEF Machine
      <4>10. \A i \in 1 .. n : t.return_stack[StackSize - i] = s.return_stack[StackSize - i]
        BY <3>5, <4>7, <4>9
      <4>11. t.return_stack[s.rsp - 1] = x
        BY <3>5, <4>8, <4>9
      <4>12. \A i \in 1 .. n : i \in 1 .. n + 1
        BY <4>1
      <4>13. n + 1 \in 1 .. n + 1
        BY <4>1
      <4>14. \A i \in 1 .. n : E[i] = A[i]
        BY <4>3, <4>4, <4>6, <4>10, <4>12, Zenon
      <4>15. E[n + 1] = A[n + 1]
        BY <4>3, <4>6, <4>8, <4>11, <4>13, Zenon
      <4>16. \A i \in 1 .. n + 1 : i \in 1 .. n \/ i = n + 1
        BY <4>1
      <4>17. \A i \in 1 .. Len(E) : E[i] = A[i]
        BY <4>3, <4>14, <4>15, <4>16, Zenon
      <4>18. E = A
        BY <4>3, <4>6, <4>17, SeqEqual
      <4> QED BY <2>2, <4>1, <4>5, <4>18, Zenon
    <3>8. RawEffects!Gives(">R", D, R, s.memory) = <<>>
      BY DEF RawEffects!Gives
    <3>9. FailureOf(">R", s) = "none"
      BY <1>0, <1>1, <1>2, <1>6, <2>5
    <3>10. Effects(">R", s, t)
      BY <1>2, <3>5, <3>6, <3>7, <3>8, <3>9, ReturnSucceeds
    <3> QED BY <1>4, <3>10, Zenon
  <2> QED BY <2>4, <2>5
<1> QED BY <1>0, <1>5, <1>6

\* A pointer that is set where one may be.
LEMMA PointerOutcome ==
  ASSUME NEW s \in Machine, Running(s), Len(DataItems(s)) >= 1, NEW x \in Int
  PROVE  /\ x \notin 0 .. StackSize =>
              /\ Failed(s, set_rsp(pop_data(s), x), "StackOverflow")
              /\ Failed(s, set_dsp(pop_data(s), x), "StackOverflow")
         /\ x \in 0 .. StackSize =>
              /\ set_rsp(pop_data(s), x) = WithRsp(pop_data(s), x)
              /\ set_dsp(pop_data(s), x) = [pop_data(s) EXCEPT !.dsp = x]
<1>1. PICK u : u = pop_data(s)
  OBVIOUS
<1>2. Replaced(s, u, 1, <<>>) /\ u \in Machine /\ Running(u)
  BY <1>1, PoppedFields
<1>3. ASSUME x \notin 0 .. StackSize
      PROVE  /\ Failed(s, set_rsp(u, x), "StackOverflow")
             /\ Failed(s, set_dsp(u, x), "StackOverflow")
  <2>1. ~Running([u EXCEPT !.err = "StackOverflow"])
    BY <1>2, ErrorRaised DEF Errors
  <2>2. set_rsp(u, x) = [u EXCEPT !.err = "StackOverflow"]
    BY <1>2, <1>3, <2>1 DEF set_rsp, Require
  <2>3. set_dsp(u, x) = [u EXCEPT !.err = "StackOverflow"]
    BY <1>2, <1>3, <2>1 DEF set_dsp, Require
  <2>4. Failed(s, [u EXCEPT !.err = "StackOverflow"], "StackOverflow")
    BY <1>2, FailedFrom DEF Errors
  <2> QED BY <2>2, <2>3, <2>4, Zenon
<1>4. ASSUME x \in 0 .. StackSize
      PROVE  set_rsp(u, x) = WithRsp(u, x) /\ set_dsp(u, x) = [u EXCEPT !.dsp = x]
  BY <1>2, <1>4 DEF set_rsp, set_dsp, Require, WithRsp
<1> QED BY <1>1, <1>3, <1>4, Zenon

\* RSP! and DSP!.
LEMMA PointerSetEffect ==
  ASSUME NEW s \in Machine, Running(s), NEW w \in {"RSP!", "DSP!"}
  PROVE  Effects(w, s, RawWord(w, s))
<1> DEFINE D == DataItems(s)
           R == ReturnItems(s)
<1>0. Len(D) \in Nat /\ Len(D) <= StackSize
  BY Depth
<1>1. PICK k : k = 1
  OBVIOUS
<1>2. PICK u, x, t : u = pop_data(s) /\ x = top(s)
                     /\ t = IF w = "RSP!" THEN set_rsp(u, x) ELSE set_dsp(u, x)
  OBVIOUS
<1>3. /\ w \in ReturnWords /\ RawEffects!Takes(w) = k
      /\ FailureOf(w, s) = IF Len(D) < k THEN "StackUnderflow"
                           ELSE IF D[Len(D)] \notin 0 .. StackSize THEN "StackOverflow" ELSE "none"
  <2>1. k = IF w \in {"R>", "RDROP"} THEN 0 ELSE 1
    BY <1>1
  <2> HIDE DEF D
  <2> QED BY <2>1, ReturnFailure DEF D
<1>4. RawWord(w, s) = t
  <2>1. RawWord(w, s) = raw_return(w, s)
    BY <1>3, Families
  <2>2. CASE w = "RSP!"
    BY <1>2, <2>1, <2>2 DEF raw_return
  <2>3. CASE w = "DSP!"
    BY <1>2, <2>1, <2>3 DEF raw_return
  <2> QED BY <2>2, <2>3
<1>5. CASE Len(D) < 1
  <2>1. Failed(s, u, "StackUnderflow")
    BY <1>2, <1>5, PopsFail
  <2>2. \A z : set_rsp(u, z) = u /\ set_dsp(u, z) = u
    BY <2>1, StaysFailed
  <2>3. t = u
    BY <1>2, <2>2
  <2>4. FailureOf(w, s) = "StackUnderflow"
    BY <1>1, <1>3, <1>5
  <2> QED BY <1>4, <2>1, <2>3, <2>4, WordFails
<1>6. CASE Len(D) >= 1
  <2>1. /\ Replaced(s, u, 1, <<>>) /\ u \in Machine /\ Running(u) /\ u.err = "none"
        /\ u.data_stack = s.data_stack /\ u.rsp = s.rsp /\ u.return_stack = s.return_stack
        /\ u.memory = s.memory /\ DataItems(u) = Spliced(D, 1, <<>>)
    BY <1>2, <1>6, PoppedFields
  <2>2. x = D[Len(D)] /\ x \in Int
    BY <1>2, <1>6, TopItem
  <2>3. CASE x \notin 0 .. StackSize
    <3>1. Failed(s, t, "StackOverflow")
      BY <1>2, <1>6, <2>2, <2>3, PointerOutcome
    <3>2. FailureOf(w, s) = "StackOverflow"
      <4>1. ~(Len(D) < k)
        BY <1>0, <1>1, <1>6
      <4> QED BY <1>3, <2>2, <2>3, <4>1, Zenon
    <3> QED BY <1>4, <3>1, <3>2, WordFails
  <2>4. CASE x \in 0 .. StackSize
    <3>0. FailureOf(w, s) = "none"
      <4>1. ~(Len(D) < k)
        BY <1>0, <1>1, <1>6
      <4> QED BY <1>3, <2>2, <2>4, <4>1, Zenon
    <3>1. StackSize - x \in Nat
      BY <2>4
    <3>2. set_rsp(u, x) = WithRsp(u, x) /\ set_dsp(u, x) = [u EXCEPT !.dsp = x]
      BY <1>2, <1>6, <2>2, <2>4, PointerOutcome
    <3>3. RawEffects!Gives(w, D, R, s.memory) = <<>>
      BY DEF RawEffects!Gives
    <3>4. CASE w = "RSP!"
      <4>1. t = WithRsp(u, x)
        BY <1>2, <3>2, <3>4
      <4>2. /\ t.err = "none" /\ t.memory = s.memory /\ t.dsp = u.dsp /\ t.data_stack = u.data_stack
            /\ t.rsp = x /\ t.return_stack = s.return_stack
        BY <2>1, <4>1 DEF Machine, WithRsp
      <4>3. t \in Machine
        BY <2>1, <2>4, <4>1, RspReplaced DEF WithRsp
      <4>4. DataItems(t) = Spliced(D, k, <<>>)
        BY <1>1, <2>1, <4>2, Zenon DEF DataItems
      <4>5. PICK E, n : E = ReturnItems(t) /\ n = StackSize - x /\ n \in Nat
        BY <3>1
      <4>6. Len(E) = n /\ \A i \in 1 .. n : E[i] = s.return_stack[StackSize - i]
        BY <4>2, <4>3, <4>5, ItemsFacts
      <4>7. \A i \in 1 .. Len(R) : R[i] = s.return_stack[StackSize - i]
        BY ItemsFacts
      <4>8. \A i \in 1 .. n : i <= Len(R) => E[i] = R[i]
        <5>1. PICK q : q = Len(R) /\ q \in Nat
          BY Depth
        <5>2. \A i \in 1 .. n : i <= q => i \in 1 .. q
          BY <4>5, <5>1
        <5> QED BY <4>6, <4>7, <5>1, <5>2, Zenon
      <4>9. RawEffects!Exposed(R, E, n)
        BY <4>6, <4>8, Zenon DEF RawEffects!Exposed
      <4>10. RawEffects!Exposed(R, ReturnItems(t), StackSize - D[Len(D)])
        BY <2>2, <4>5, <4>9, Zenon
      <4>11. Effects(w, s, t)
        BY <1>3, <3>0, <3>3, <3>4, <4>2, <4>4, <4>10, ReturnSucceeds
      <4> QED BY <1>4, <4>11, Zenon
    <3>5. CASE w = "DSP!"
      <4>1. t = [u EXCEPT !.dsp = x]
        BY <1>2, <3>2, <3>5
      <4>2. /\ t.err = "none" /\ t.memory = s.memory /\ t.dsp = x /\ t.data_stack = s.data_stack
            /\ t.rsp = s.rsp /\ t.return_stack = s.return_stack
        BY <2>1, <4>1 DEF Machine
      <4>3. t \in Machine
        BY <2>1, <2>4, <4>1, DspReplaced
      <4>4. ReturnItems(t) = R
        BY <4>2, Zenon DEF ReturnItems
      <4>5. PICK E, n : E = DataItems(t) /\ n = StackSize - x /\ n \in Nat
        BY <3>1
      <4>6. Len(E) = n /\ \A i \in 1 .. n : E[i] = s.data_stack[StackSize - i]
        BY <4>2, <4>3, <4>5, ItemsFacts
      <4>7. D \in Seq(Cell) /\ \A i \in 1 .. Len(D) : D[i] = s.data_stack[StackSize - i]
        BY ItemsFacts
      <4>a. PICK q : q = Len(D) - 1 /\ q \in Nat /\ q <= Len(D)
        <5>1. Len(D) - 1 \in Nat /\ Len(D) - 1 <= Len(D)
          BY <1>0, <1>6
        <5> QED BY <5>1, Zenon
      <4>b. PICK F : F = SubSeq(D, 1, q)
        OBVIOUS
      <4>c. Len(F) = q /\ \A i \in 1 .. q : F[i] = D[i]
        <5> HIDE DEF D
        <5>1. D \in Seq(Cell)
          BY <4>7
        <5> QED BY <4>a, <4>b, <5>1
      <4>d. RawEffects!Front(D) = F
        BY <4>a, <4>b, Zenon DEF RawEffects!Front
      <4>8. \A i \in 1 .. n : i <= Len(F) => E[i] = F[i]
        <5>2. \A i \in 1 .. n : i <= q => i \in 1 .. q /\ i \in 1 .. Len(D)
          BY <1>0, <4>5, <4>a
        <5> QED BY <4>6, <4>7, <4>c, <5>2, Zenon
      <4>9. RawEffects!Exposed(F, E, n)
        BY <4>6, <4>8, Zenon DEF RawEffects!Exposed
      <4>10. RawEffects!Exposed(RawEffects!Front(D), DataItems(t), StackSize - D[Len(D)])
        BY <2>2, <4>5, <4>9, <4>d, Zenon
      <4>11. Effects(w, s, t)
        BY <1>3, <3>0, <3>3, <3>5, <4>2, <4>4, <4>10, ReturnSucceeds
      <4> QED BY <1>4, <4>11, Zenon
    <3> QED BY <3>4, <3>5
  <2> QED BY <2>3, <2>4
<1> QED BY <1>0, <1>5, <1>6

\* A raw word has the effect its docstring states.
LEMMA RawWordEffect ==
  ASSUME NEW s \in Machine, Running(s), NEW w \in Words
  PROVE  Effects(w, s, RawWord(w, s))
<1>1. CASE w \in StackWords
  <2>1. CASE w \in {"DROP", "2DROP"}
    BY <2>1, DropWords
  <2>2. CASE w = "SWAP"
    BY <2>2, SwapEffect
  <2>3. CASE w \in {"DUP", "OVER"}
    BY <2>3, DupEffect
  <2>4. CASE w \in {"ROT", "-ROT"}
    BY <2>4, RotEffect
  <2>5. CASE w = "2DUP"
    BY <2>5, TwoDupEffect
  <2>6. CASE w = "2SWAP"
    BY <2>6, TwoSwapEffect
  <2>7. CASE w = "?DUP"
    BY <2>7, QuestionDupEffect
  <2> QED BY <1>1, <2>1, <2>2, <2>3, <2>4, <2>5, <2>6, <2>7 DEF StackWords
<1>2. CASE w \in {"1+", "1-", "4+", "4-", "INVERT", "0=", "0<>", "0<", "0>", "0<=", "0>="}
  BY <1>2, UnaryWords
<1>3. CASE w \in {"+", "-", "*", "AND", "OR", "XOR", "=", "<>", "<", ">", "<=", ">="}
  BY <1>3, BinaryWords
<1>4. CASE w = "/MOD"
  BY <1>4, DivisionEffect
<1>5. CASE w \in MemoryWords
  <2>1. CASE w \in {"!", "+!", "-!"}
    BY <2>1, StoreEffect
  <2>2. CASE w \in {"@", "C@"}
    BY <2>2, FetchEffects
  <2>3. CASE w = "C!"
    BY <2>3, ByteStoreEffect
  <2>4. CASE w = "C@C!"
    BY <2>4, CopyAdvanceEffect
  <2>5. CASE w = "CMOVE"
    BY <2>5, MoveEffect
  <2> QED BY <1>5, <2>1, <2>2, <2>3, <2>4, <2>5 DEF MemoryWords
<1>6. CASE w \in ReturnWords
  <2>1. CASE w = ">R"
    BY <2>1, ToReturnEffect
  <2>2. CASE w = "R>"
    BY <2>2, FromReturnEffect
  <2>3. CASE w \in {"RSP@", "DSP@"}
    BY <2>3, PointerEffect
  <2>4. CASE w \in {"RSP!", "DSP!"}
    BY <2>4, PointerSetEffect
  <2>5. CASE w = "RDROP"
    BY <2>5, ReturnDropEffect
  <2> QED BY <1>6, <2>1, <2>2, <2>3, <2>4, <2>5 DEF ReturnWords
<1> QED BY <1>1, <1>2, <1>3, <1>4, <1>5, <1>6
        DEF Words, ArithmeticWords, ComparisonWords, ZeroTests, BitwiseWords

\* So has the word built from the kernels.
LEMMA KernelWordEffect ==
  ASSUME NEW s \in Machine, Running(s), NEW w \in Words
  PROVE  Effects(w, s, KernelWord(w, s))
<1>1. CASE w # "SWAP"
  <2>1. WordAgrees(w, s)
    <3>1. w \in (StackWords \ {"SWAP"}) \cup ArithmeticWords \cup ComparisonWords \cup ZeroTests
                  \cup BitwiseWords \cup MemoryWords \cup ReturnWords
      BY <1>1 DEF Words
    <3> QED BY <3>1, StackAgrees, ArithmeticAgrees, ComparisonAgrees, ZeroTestAgrees,
               BitwiseAgrees, MemoryAgrees, ReturnAgrees
  <2>2. KernelWord(w, s) = RawWord(w, s)
    BY <2>1, Zenon DEF WordAgrees
  <2> QED BY <2>2, RawWordEffect
<1>2. CASE w = "SWAP"
  <2> DEFINE D == DataItems(s)
  <2>1. "SWAP" \in StackWords /\ "SWAP" \in Words
    BY DEF StackWords, Words
  <2>2. "SWAP" \in Plain /\ RawEffects!Takes("SWAP") = 2 /\ 2 \in Nat
    BY <2>1, StackWordFacts
  <2>3. PICK g : g = RawEffects!Gives("SWAP", D, ReturnItems(s), s.memory)
    OBVIOUS
  <2>4. Len(g) = 2
    <3> HIDE DEF D
    <3> QED BY <2>3, Tuples DEF RawEffects!Gives
  <2>5. Len(D) \in Nat /\ Len(D) <= StackSize
    BY Depth
  <2>6. CASE Len(D) < 2
    <3>1. PICK b, values, t : /\ b = windowed(s, 2) /\ t = KernelWord("SWAP", s)
                             /\ t = replace_data_window(b, 2, values)
      <4>1. KernelWord("SWAP", s) = permute(s, 2, <<2, 1>>)
        BY <2>1, Families DEF kernel_stack
      <4> QED BY <4>1, Zenon DEF permute
    <3>2. Failed(s, b, "StackUnderflow")
      BY <2>6, <3>1, WindowFails
    <3>3. \A n, z : replace_data_window(b, n, z) = b
      BY <3>2, StaysFailed
    <3>4. t = b
      BY <3>1, <3>3
    <3>5. FailureOf("SWAP", s) = "StackUnderflow"
      BY <2>2, <2>3, <2>6, PlainFailure
    <3> QED BY <1>2, <3>1, <3>2, <3>4, <3>5, WordFails
  <2>7. CASE Len(D) >= 2
    <3>1. ~(Len(D) - 2 + Len(g) > StackSize)
      BY <2>4, <2>5
    <3>2. FailureOf("SWAP", s) = "none"
      BY <2>2, <2>3, <2>7, <3>1, PlainFailure
    <3>3. Effects("SWAP", s, RawWord("SWAP", s))
      BY SwapEffect
    <3>4. Running(RawWord("SWAP", s))
      BY <3>2, <3>3, Zenon DEF Effects, Running
    <3>5. KernelWord("SWAP", s) = RawWord("SWAP", s)
      BY <3>4, SwapAgrees
    <3> QED BY <1>2, <3>3, <3>5
  <2> QED BY <2>5, <2>6, <2>7
<1> QED BY <1>1, <1>2

\* What is proved of every machine holds of the machines of a state.
RawEffect == \A s \in Machine, w \in Words : Running(s) => Effects(w, s, RawWord(w, s))

\* The same of the words built from the kernels.
KernelEffect == \A s \in Machine, w \in Words : Running(s) => Effects(w, s, KernelWord(w, s))

\* So it is.
LEMMA WordEffects == RawEffect /\ KernelEffect
BY RawWordEffect, KernelWordEffect DEF RawEffect, KernelEffect

\* A step of the side-by-side run is a step of either variant's effects.
LEMMA EffectsStep ==
  ASSUME KernelInv, [Next]_vars
  PROVE  /\ [RawEffects!Next]_(<<RawEffects!effect, word>>)
         /\ [KernelEffects!Next]_(<<KernelEffects!effect, word>>)
<1>1. CASE Next
  <2>1. PICK w \in Words : Execute(w)
    BY <1>1 DEF Next
  <2>2. raw \in Machine /\ Running(raw) /\ kernel \in Machine /\ Running(kernel)
    BY <2>1 DEF KernelInv, TypeOK, Execute
  <2>3. raw' = RawWord(w, raw) /\ kernel' = KernelWord(w, kernel) /\ word' = w
    BY <2>1, Zenon DEF Execute
  <2>4. Effects(w, raw, RawWord(w, raw)) /\ Effects(w, kernel, KernelWord(w, kernel))
    BY <2>2, WordEffects, Zenon DEF RawEffect, KernelEffect
  <2>5. Effects(w, raw, raw') /\ Effects(w, kernel, kernel')
    BY <2>3, <2>4, Zenon
  <2>6. RawEffects!Succeed(w) \/ RawEffects!Fail(w)
    BY <2>2, <2>5, RawStep
  <2>7. KernelEffects!Succeed(w) \/ KernelEffects!Fail(w)
    BY <2>2, <2>5, KernelStep
  <2>8. RawEffects!Next
    BY <2>3, <2>6, Zenon DEF RawEffects!Next
  <2>9. KernelEffects!Next
    BY <2>3, <2>7, Zenon DEF KernelEffects!Next
  <2> QED BY <2>8, <2>9
<1>2. CASE UNCHANGED vars
  BY <1>2, Zenon DEF vars, RawEffects!effect, KernelEffects!effect
<1> QED BY <1>1, <1>2

\* Every word, raw and built from a kernel, has the stack effect its docstring
\* states and no other, for every size of the stacks, the memory and the cell:
\* it fails exactly for lack of items, room, a divisor or valid memory, with the
\* exception the effect names, and a failing word has stored nothing and altered
\* no item that was there.
THEOREM EffectsCorrect == Spec => WordsImplementEffects
<1>1. Init => RawEffects!Init /\ KernelEffects!Init
  <2> SUFFICES ASSUME Init PROVE RawEffects!Init /\ KernelEffects!Init
    OBVIOUS
  <2>1. PICK values \in DataSeeds, returns \in ReturnSeeds : raw = Seeded(values, returns)
    BY DEF Init
  <2>2. values \in Seq(Int) /\ returns \in Seq(Int)
    BY SeedAssumption
  <2>3. raw.err \in {"none", "StackOverflow"}
    BY <2>1, <2>2, SeededType DEF Seedlings
  <2>4. kernel = raw /\ word = "none"
    BY DEF Init
  <2> QED BY <2>3, <2>4 DEF RawEffects!Init, KernelEffects!Init
<1>2. KernelInv /\ [Next]_vars => /\ [RawEffects!Next]_(<<RawEffects!effect, word>>)
                                  /\ [KernelEffects!Next]_(<<KernelEffects!effect, word>>)
  BY EffectsStep
<1> QED BY <1>1, <1>2, KernelInvCorrect, PTL DEF Spec, WordsImplementEffects, RawEffects!Spec, KernelEffects!Spec

=============================================================================
