------------------------- MODULE CompiledMemory_proofs -------------------------
(***************************************************************************)
(* The compiled functions and the host protocols, one by one and then as   *)
(* the composition CompiledHelpers: what each call returns and leaves in   *)
(* memory, for every memory, list, program and order of calls.             *)
(***************************************************************************)
EXTENDS CompiledHelpers, HostProtocols_proofs, SequenceTheorems, SetInduction, TLAPS

(***************************************************************************)
(* Copies and comparisons of any length, in an arena of any size.  What    *)
(* an activation finds is what the call began with, but for the bytes the  *)
(* activations before it took off count; DoneInv relates the two.  Wide    *)
(* chunks are aligned because a chunk of 8 is taken while 8 bytes are left *)
(* and a chunk of 4 while 4 are: whatever was taken before was a multiple. *)
(***************************************************************************)

\* The bytes the activations so far have handled.
Done == call.count - env.count

\* Whatever is still wide enough for a chunk lies a multiple of it from the start.
DoneInv ==
  /\ env.count \in Nat /\ Done \in Nat
  /\ env.count >= 8 => Done % 8 = 0
  /\ env.count >= 4 => Done % 4 = 0

\* What the tests passed on the way to a block say of count.
CountInv ==
  /\ block = "count_is_zero" => env.count = 0
  /\ block \in {"check_8", "check_4", "copy_1", "cmp_1", "ret_1", "recurse_1"} => env.count >= 1
  /\ block \in {"copy_8", "cmp_8", "ret_8", "recurse_8"} => env.count >= 8
  /\ block \in {"copy_4", "cmp_4", "ret_4", "recurse_4"} => env.count >= 4
  /\ block \in {"check_4", "copy_4", "copy_1", "cmp_4", "ret_4", "recurse_4", "cmp_1", "ret_1", "recurse_1"} =>
       env.count < 8
  /\ block \in {"copy_1", "cmp_1", "ret_1", "recurse_1"} => env.count < 4

\* The greedy plan of a call, and where an activation is in it: among the chunks of 8, or past
\* the chunk of 4 if there is one.
Eights == call.count \div 8
Fours == (call.count % 8) \div 4
Ones == call.count % 4
Planned(i) == IF i < Eights THEN 8 ELSE IF i < Eights + Fours THEN 4 ELSE 1
GreedyInv ==
  /\ env.trace_index \in Nat
  /\ \/ env.trace_index <= Eights /\ env.count = call.count - 8 * env.trace_index
     \/ /\ env.trace_index >= Eights + Fours
        /\ env.count = Ones - (env.trace_index - (Eights + Fours))
  /\ memory.trace = [i \in Address |-> IF i < env.trace_index THEN Planned(i) ELSE 0]

CopyInv ==
  /\ call \in CopyCalls
  /\ block \in CopyLabels
  /\ DoneInv /\ CountInv /\ GreedyInv
  /\ block \in {"count_is_zero", "returned"} => env.count = 0
  /\ CopyIsExact

\* The two regions are the same up to byte n of them.
SameAt(i) == call.bytes[call.left + i] = call.bytes[call.right + i]
SameSoFar(n) == \A i \in 0 .. n - 1 : SameAt(i)

\* A comparison goes on while the regions are the same: an activation finds all that was handled
\* equal, and past the chunks of 8 once fewer than 8 bytes are left.
Alike ==
  /\ env.left = call.left + Done /\ env.right = call.right + Done
  /\ SameSoFar(Done)
  /\ env.count < 8 => Done >= 8 * (call.count \div 8)

\* What a result of the comparison means (CompareDecides).
Decided(r) ==
  LET differs == {i \in 0 .. call.count - 1 : ~SameAt(i)}
      dropped == {i \in differs : i < 8 * (call.count \div 8) /\ i % 8 >= 4}
  IN  r = 0 <=> \E i \in dropped \cup {call.count} : \A j \in differs : i <= j

CompareInv ==
  /\ call \in CompareCalls
  /\ block \in CompareLabels
  /\ memory = [bytes |-> call.bytes, trace |-> memory.trace]
  /\ block # "returned" => DoneInv /\ CountInv /\ Alike
  /\ block = "ret_8" => Difference(8) # 0
  /\ block = "ret_4" => Difference(4) # 0
  /\ block = "ret_1" => Difference(1) # 0
  /\ block = "recurse_8" => Difference(8) = 0
  /\ block = "recurse_4" => Difference(4) = 0
  /\ block = "recurse_1" => Difference(1) = 0
  /\ block = "returned" => Decided(env.result)

ChunkInv == CopyInv \/ CompareInv

(***************************************************************************)
(* Arithmetic and memory                                                   *)
(***************************************************************************)
\* Taking a chunk of w keeps what is left of the region aligned (the chunk sizes of the blocks).
LEMMA TakeChunk ==
  ASSUME NEW total \in Nat, NEW count \in Nat, NEW w \in {1, 4, 8}, count >= w,
         total - count \in Nat,
         w = 1 => count < 4, w = 4 => count < 8,
         count >= 8 => (total - count) % 8 = 0,
         count >= 4 => (total - count) % 4 = 0
  PROVE  /\ count - w \in Nat
         /\ total - (count - w) = (total - count) + w
         /\ (total - count) + w \in Nat
         /\ count - w >= 8 => ((total - count) + w) % 8 = 0
         /\ count - w >= 4 => ((total - count) + w) % 4 = 0
<1>1. CASE w = 8
  BY <1>1
<1>2. CASE w # 8
  <2>1. count - w < 4
    BY <1>2
  <2> QED BY <2>1
<1> QED BY <1>1, <1>2

\* The plan adds up to the bytes of the call.
LEMMA PlanTotal ==
  ASSUME NEW n \in Nat
  PROVE  /\ n \div 8 \in Nat /\ (n % 8) \div 4 \in {0, 1} /\ n % 4 \in 0 .. 3
         /\ n = 8 * (n \div 8) + 4 * ((n % 8) \div 4) + (n % 4)
OBVIOUS

\* One more chunk, of the size the tests choose, is one more step of the plan.
LEMMA PlanStep ==
  ASSUME NEW n \in Nat, NEW e \in Nat, NEW f \in {0, 1}, NEW r \in 0 .. 3, n = 8 * e + 4 * f + r,
         NEW k \in Nat, NEW count \in Nat, NEW w \in {1, 4, 8}, count >= w,
         w = 1 => count < 4, w = 4 => count < 8,
         (k <= e /\ count = n - 8 * k) \/ (k >= e + f /\ count = r - (k - (e + f)))
  PROVE  /\ w = IF k < e THEN 8 ELSE IF k < e + f THEN 4 ELSE 1
         /\ k < n
         /\ \/ k + 1 <= e /\ count - w = n - 8 * (k + 1)
            \/ k + 1 >= e + f /\ count - w = r - ((k + 1) - (e + f))
<1>1. CASE w = 8
  BY <1>1
<1>2. CASE w = 4
  <2>1. k = e /\ f = 1
    BY <1>2
  <2> QED BY <1>2, <2>1
<1>3. CASE w = 1
  <2>1. k >= e + f
    BY <1>3
  <2>2. count = r - (k - (e + f))
    BY <1>3, <2>1
  <2> QED BY <1>3, <2>1, <2>2
<1> QED BY <1>1, <1>2, <1>3

\* Nothing left is the end of the plan.
LEMMA PlanEnd ==
  ASSUME NEW n \in Nat, NEW e \in Nat, NEW f \in {0, 1}, NEW r \in 0 .. 3, n = 8 * e + 4 * f + r,
         NEW k \in Nat,
         (k <= e /\ 0 = n - 8 * k) \/ (k >= e + f /\ 0 = r - (k - (e + f)))
  PROVE  k = e + f + r
OBVIOUS

\* A distance that is a multiple of 8 or 4 from an 8-aligned address is aligned.
LEMMA AlignedSum ==
  ASSUME NEW base \in Nat, NEW d \in Nat, base % 8 = 0
  PROVE  /\ d % 8 = 0 => (base + d) % 8 = 0
         /\ d % 4 = 0 => (base + d) % 4 = 0
OBVIOUS

\* Copying a chunk behind what is copied already copies that much more, when the regions are
\* apart or the copy goes down: no source byte was overwritten before it was read.
LEMMA CopyMore ==
  ASSUME NEW bytes, NEW dst \in Nat, NEW src \in Nat, NEW done \in Nat, NEW w \in Nat,
         dst + (done + w) <= ArenaSize, src + (done + w) <= ArenaSize,
         dst <= src \/ src + (done + w) <= dst
  PROVE  CopyWord(CopyWord(bytes, dst, src, done), dst + done, src + done, w)
           = CopyWord(bytes, dst, src, done + w)
<1> DEFINE old == CopyWord(bytes, dst, src, done)
<1> DEFINE new == CopyWord(old, dst + done, src + done, w)
<1> DEFINE all == CopyWord(bytes, dst, src, done + w)
<1>0. ArenaSize \in Nat
  BY CopyCallsAssumption
<1>1. ASSUME NEW a \in Address PROVE new[a] = all[a]
  <2>1. /\ old[a] = IF a \in dst .. dst + done - 1 THEN bytes[src + (a - dst)] ELSE bytes[a]
        /\ all[a] = IF a \in dst .. dst + (done + w) - 1 THEN bytes[src + (a - dst)] ELSE bytes[a]
        /\ new[a] = IF a \in dst + done .. dst + done + w - 1
                    THEN old[(src + done) + (a - (dst + done))] ELSE old[a]
    BY DEF CopyWord
  <2>2. CASE a \in dst + done .. dst + done + w - 1
    <3> DEFINE s == src + (a - dst)
    <3>1. /\ (src + done) + (a - (dst + done)) = s
          /\ s \in Address
          /\ s \notin dst .. dst + done - 1
          /\ a \in dst .. dst + (done + w) - 1
      BY <1>0, <2>2 DEF Address
    <3>2. old[s] = bytes[s]
      BY <3>1 DEF CopyWord
    <3> HIDE DEF s
    <3>3. new[a] = old[s]
      BY <2>1, <2>2, <3>1
    <3>4. all[a] = bytes[s]
      BY <2>1, <3>1 DEF s
    <3> QED BY <3>2, <3>3, <3>4
  <2>3. CASE a \notin dst + done .. dst + done + w - 1
    <3>1. a \in dst .. dst + done - 1 <=> a \in dst .. dst + (done + w) - 1
      BY <1>0, <2>3 DEF Address
    <3> QED BY <2>1, <2>3, <3>1
  <2> QED BY <2>2, <2>3
<1>2. new = [a \in Address |-> new[a]] /\ all = [a \in Address |-> all[a]]
  BY DEF CopyWord
<1> QED BY <1>1, <1>2

\* Copying nothing changes nothing.
LEMMA CopyNothing ==
  ASSUME NEW bytes, bytes = [a \in Address |-> bytes[a]], NEW dst \in Nat, NEW src \in Nat
  PROVE  CopyWord(bytes, dst, src, 0) = bytes
<1>0. ArenaSize \in Nat
  BY CopyCallsAssumption
<1>1. \A a \in Address : a \notin dst .. dst + 0 - 1
  BY <1>0 DEF Address
<1> QED BY <1>1 DEF CopyWord

\* A remainder of zero is a whole number of turns.
LEMMA WholeTurns ==
  ASSUME NEW d \in Int, NEW m \in Nat \ {0}, d % m = 0
  PROVE  \E q \in Int : d = m * q
<1>1. d \div m \in Int /\ d = m * (d \div m) + (d % m)
  OBVIOUS
<1>2. d = m * (d \div m)
  BY <1>1
<1> QED BY <1>1, <1>2

\* A whole number of turns leaves no remainder.
LEMMA NoRemainder ==
  ASSUME NEW d \in Int, NEW m \in Nat \ {0}, NEW q \in Int, d = m * q
  PROVE  d % m = 0
<1>1. 0 \in 0 .. m - 1
  OBVIOUS
<1>2. (m * q + 0) % m = 0
  BY <1>1, RemainderUnique
<1>3. m * q + 0 = d
  OBVIOUS
<1> QED BY <1>2, <1>3

\* Division with remainder.
LEMMA Division ==
  ASSUME NEW b \in Int, NEW m \in Nat \ {0}
  PROVE  \E q \in Int, r \in 0 .. m - 1 : r = b % m /\ b = m * q + r
<1>1. b % m \in 0 .. m - 1 /\ b \div m \in Int /\ b = m * (b \div m) + (b % m)
  OBVIOUS
<1> QED BY <1>1

(***************************************************************************)
(* Words of bytes: a load is determined by the bytes it reads, and its low *)
(* half by the lower ones.                                                 *)
(***************************************************************************)
\* One step of the load's recursion.
LowStep(g, bytes, address, n) ==
  IF n = 0 THEN 0 ELSE g[n - 1] + bytes[address + n - 1] * WordSize(n - 1)
IsLow(g, bytes, address, w) == g = [n \in 0 .. w |-> LowStep(g, bytes, address, n)]

\* The recursion defines a function.
LEMMA LowExists ==
  ASSUME NEW bytes, NEW address, NEW w \in Nat
  PROVE  \E g : IsLow(g, bytes, address, w)
<1> DEFINE S == {n \in Nat : \E g : IsLow(g, bytes, address, n)}
<1>1. 0 \in S
  <2> DEFINE g == [n \in 0 .. 0 |-> 0]
  <2>1. g = [n \in 0 .. 0 |-> LowStep(g, bytes, address, n)]
    BY DEF LowStep
  <2>2. IsLow(g, bytes, address, 0)
    BY <2>1 DEF IsLow
  <2> QED BY <2>2
<1>2. ASSUME NEW n \in Nat, n \in S PROVE n + 1 \in S
  <2>1. PICK g : IsLow(g, bytes, address, n)
    BY <1>2
  <2> DEFINE last == LowStep(g, bytes, address, n + 1)
             h == [k \in 0 .. n + 1 |-> IF k = n + 1 THEN last ELSE g[k]]
  <2>2. ASSUME NEW k \in 0 .. n + 1 PROVE h[k] = LowStep(h, bytes, address, k)
    <3>1. CASE k = n + 1
      <4>1. h[k] = LowStep(g, bytes, address, n + 1)
        BY <3>1
      <4>2. k - 1 = n /\ n \in 0 .. n + 1 /\ n # n + 1
        BY <3>1
      <4>3. h[k - 1] = g[k - 1]
        BY <4>2
      <4> HIDE DEF h, last
      <4> QED BY <3>1, <4>1, <4>3 DEF LowStep
    <3>2. CASE k # n + 1
      <4>1. k \in 0 .. n /\ h[k] = g[k]
        BY <3>2
      <4>2. g[k] = LowStep(g, bytes, address, k)
        <5>1. g = [j \in 0 .. n |-> LowStep(g, bytes, address, j)]
          BY <2>1 DEF IsLow
        <5> QED BY <4>1, <5>1
      <4>3. k # 0 => h[k - 1] = g[k - 1]
        BY <3>2
      <4> HIDE DEF h
      <4> QED BY <4>1, <4>2, <4>3 DEF LowStep
    <3> QED BY <3>1, <3>2
  <2>3. h = [k \in 0 .. n + 1 |-> h[k]]
    OBVIOUS
  <2> HIDE DEF h
  <2>4. h = [k \in 0 .. n + 1 |-> LowStep(h, bytes, address, k)]
    BY <2>2, <2>3
  <2>5. IsLow(h, bytes, address, n + 1)
    BY <2>4 DEF IsLow
  <2> QED BY <2>5
<1> HIDE DEF S
<1>3. w \in S
  BY <1>1, <1>2, NatSetInduction
<1> QED BY <1>3 DEF S

\* A load is the last value of its recursion.
LEMMA WordAtIs ==
  ASSUME NEW bytes, NEW address, NEW w \in Nat
  PROVE  \E low : IsLow(low, bytes, address, w) /\ WordAt(bytes, address, w) = low[w]
<1> DEFINE Is(g) == IsLow(g, bytes, address, w)
<1>1. WordAt(bytes, address, w) = (CHOOSE g : Is(g))[w]
  BY DEF WordAt, IsLow, LowStep
<1>2. \E g : Is(g)
  BY LowExists
<1> HIDE DEF Is
<1>3. Is(CHOOSE g : Is(g))
  BY <1>2
<1> QED BY <1>1, <1>3 DEF Is

\* Loads of different widths agree on the bytes both read.
LEMMA LowUnique ==
  ASSUME NEW bytes, NEW address, NEW v \in Nat, NEW w \in Nat, v <= w,
         NEW g, NEW h, IsLow(g, bytes, address, v), IsLow(h, bytes, address, w)
  PROVE  g[v] = h[v]
<1> DEFINE S == {n \in Nat : n <= v => g[n] = h[n]}
<1>1. /\ \A n \in 0 .. v : g[n] = LowStep(g, bytes, address, n)
      /\ \A n \in 0 .. w : h[n] = LowStep(h, bytes, address, n)
  <2>1. /\ g = [n \in 0 .. v |-> LowStep(g, bytes, address, n)]
        /\ h = [n \in 0 .. w |-> LowStep(h, bytes, address, n)]
    BY DEF IsLow
  <2>2. ASSUME NEW n \in 0 .. v PROVE g[n] = LowStep(g, bytes, address, n)
    BY <2>1
  <2>3. ASSUME NEW n \in 0 .. w PROVE h[n] = LowStep(h, bytes, address, n)
    BY <2>1
  <2> QED BY <2>2, <2>3
<1>2. 0 \in S
  <2>1. 0 \in 0 .. v /\ 0 \in 0 .. w
    OBVIOUS
  <2> QED BY <1>1, <2>1 DEF LowStep
<1>3. ASSUME NEW n \in Nat, n \in S PROVE n + 1 \in S
  <2> SUFFICES ASSUME n + 1 <= v PROVE g[n + 1] = h[n + 1]
    OBVIOUS
  <2>1. n + 1 \in 0 .. v /\ n + 1 \in 0 .. w /\ n + 1 # 0 /\ (n + 1) - 1 = n
    OBVIOUS
  <2>2. g[n] = h[n]
    BY <1>3, <2>1
  <2>3. g[n + 1] = LowStep(g, bytes, address, n + 1) /\ h[n + 1] = LowStep(h, bytes, address, n + 1)
    BY <1>1, <2>1
  <2> QED BY <2>1, <2>2, <2>3 DEF LowStep
<1> HIDE DEF S
<1>4. v \in S
  BY <1>2, <1>3, NatSetInduction
<1> QED BY <1>4 DEF S

\* A load of nothing is zero, and one more byte is one more digit.
LEMMA WordAtNext ==
  ASSUME NEW bytes, NEW address \in Nat, NEW w \in Nat
  PROVE  /\ WordAt(bytes, address, 0) = 0
         /\ WordAt(bytes, address, w + 1) = WordAt(bytes, address, w) + bytes[address + w] * WordSize(w)
<1>1. WordAt(bytes, address, 0) = 0
  <2>1. PICK g : IsLow(g, bytes, address, 0) /\ WordAt(bytes, address, 0) = g[0]
    BY WordAtIs
  <2>2. g[0] = LowStep(g, bytes, address, 0)
    <3>1. g = [n \in 0 .. 0 |-> LowStep(g, bytes, address, n)]
      BY <2>1 DEF IsLow
    <3> QED BY <3>1
  <2> QED BY <2>1, <2>2 DEF LowStep
<1>2. PICK g : IsLow(g, bytes, address, w) /\ WordAt(bytes, address, w) = g[w]
  BY WordAtIs
<1>3. PICK h : IsLow(h, bytes, address, w + 1) /\ WordAt(bytes, address, w + 1) = h[w + 1]
  <2>1. w + 1 \in Nat
    OBVIOUS
  <2> QED BY <2>1, WordAtIs
<1>4. g[w] = h[w]
  <2>1. w + 1 \in Nat /\ w <= w + 1
    OBVIOUS
  <2> QED BY <1>2, <1>3, <2>1, LowUnique
<1>5. h[w + 1] = LowStep(h, bytes, address, w + 1)
  <2>1. h = [n \in 0 .. w + 1 |-> LowStep(h, bytes, address, n)]
    BY <1>3 DEF IsLow
  <2>2. w + 1 \in 0 .. w + 1
    OBVIOUS
  <2> QED BY <2>1, <2>2
<1>6. w + 1 # 0 /\ (w + 1) - 1 = w /\ address + (w + 1) - 1 = address + w
  OBVIOUS
<1>7. h[w + 1] = h[w] + bytes[address + w] * WordSize(w)
  BY <1>5, <1>6 DEF LowStep
<1> QED BY <1>1, <1>2, <1>3, <1>4, <1>7

\* The number of values of more bytes is a product.
LEMMA WordSizes ==
  ASSUME NEW m \in Nat, NEW n \in Nat
  PROVE  /\ WordSize(m) \in Nat \ {0} /\ WordSize(n) \in Nat \ {0}
         /\ WordSize(m + n) = WordSize(m) * WordSize(n)
         /\ WordSize(0) = 1 /\ WordSize(1) = ByteValues
<1>1. ByteBits \in Nat
  BY CopyCallsAssumption
<1>2. PICK a \in Nat, b \in Nat : a = ByteBits * m /\ b = ByteBits * n
  <2>1. ByteBits * m \in Nat /\ ByteBits * n \in Nat
    <3>1. \A x, y \in Nat : x * y \in Nat
      OBVIOUS
    <3> QED BY <1>1, <3>1
  <2> QED BY <2>1
<1>3. a + b = ByteBits * (m + n)
  <2>1. \A x, y, z \in Nat : x * y + x * z = x * (y + z)
    OBVIOUS
  <2> QED BY <1>1, <1>2, <2>1
<1>4. 2 ^ (a + b) = 2 ^ a * 2 ^ b
  BY PowerSum
<1>5. 2 ^ a \in Nat \ {0} /\ 2 ^ b \in Nat \ {0}
  BY PowerOfTwo
<1>6. WordSize(m) = 2 ^ a /\ WordSize(n) = 2 ^ b /\ WordSize(m + n) = 2 ^ (a + b)
  BY <1>2, <1>3, Zenon DEF WordSize
<1>7. WordSize(0) = 1
  <2>1. ByteBits * 0 = 0
    BY <1>1
  <2>2. 2 ^ 0 = 1
    <3>1. 2 ^ (0 + 0) = 2 ^ 0 * 2 ^ 0
      BY PowerSum
    <3>2. 2 ^ 0 \in Nat \ {0}
      BY PowerOfTwo
    <3>3. \A x \in Nat \ {0} : x = x * x => x = 1
      OBVIOUS
    <3>4. 0 + 0 = 0
      OBVIOUS
    <3> QED BY <3>1, <3>2, <3>3, <3>4
  <2> QED BY <2>1, <2>2, Zenon DEF WordSize
<1>8. WordSize(1) = ByteValues
  <2>1. ByteBits * 1 = ByteBits
    BY <1>1
  <2> QED BY <2>1 DEF WordSize, ByteValues
<1> QED BY <1>4, <1>5, <1>6, <1>7, <1>8

\* A digit above a smaller number stays below the next size.
LEMMA DigitAbove ==
  ASSUME NEW s \in Nat \ {0}, NEW b \in Nat \ {0}, NEW x \in 0 .. s - 1, NEW y \in 0 .. b - 1
  PROVE  x + y * s \in 0 .. s * b - 1
<1>1. y * s >= 0 /\ y * s \in Nat
  OBVIOUS
<1>2. y * s <= (b - 1) * s
  <2>1. (b - 1) - y \in Nat
    OBVIOUS
  <2>2. ((b - 1) - y) * s \in Nat
    <3>1. \A p, q \in Nat : p * q \in Nat
      OBVIOUS
    <3> QED BY <2>1, <3>1
  <2>3. ((b - 1) - y) * s = (b - 1) * s - y * s
    OBVIOUS
  <2> QED BY <2>2, <2>3, <1>1
<1>3. (b - 1) * s = s * b - s
  OBVIOUS
<1> QED BY <1>1, <1>2, <1>3

\* Numbers made of a smaller number and a digit are equal when both are.
LEMMA DigitsUnique ==
  ASSUME NEW s \in Nat \ {0}, NEW x \in 0 .. s - 1, NEW y \in Nat, NEW u \in 0 .. s - 1, NEW v \in Nat,
         x + y * s = u + v * s
  PROVE  x = u /\ y = v
<1>1. s * y + x = s * v + u
  OBVIOUS
<1>2. (s * y + x) % s = x /\ (s * v + u) % s = u
  BY RemainderUnique
<1>3. x = u
  BY <1>1, <1>2
<1>4. s * y = s * v
  BY <1>1, <1>3
<1>5. s * (y - v) = 0
  BY <1>4
<1> QED BY <1>3, <1>5

\* The bytes a load reads.
BytesAt(bytes, address, w) == \A i \in 0 .. w - 1 : bytes[address + i] \in Byte

\* What is loaded is a word.
LEMMA WordAtRange ==
  ASSUME NEW bytes, NEW address \in Nat, NEW w \in Nat, BytesAt(bytes, address, w)
  PROVE  WordAt(bytes, address, w) \in 0 .. WordSize(w) - 1
<1> DEFINE S == {n \in Nat : n <= w => WordAt(bytes, address, n) \in 0 .. WordSize(n) - 1}
<1>1. 0 \in S
  <2>1. WordAt(bytes, address, 0) = 0 /\ WordSize(0) = 1
    BY WordAtNext, WordSizes
  <2> QED BY <2>1
<1>2. ASSUME NEW n \in Nat, n \in S PROVE n + 1 \in S
  <2> SUFFICES ASSUME n + 1 <= w PROVE WordAt(bytes, address, n + 1) \in 0 .. WordSize(n + 1) - 1
    OBVIOUS
  <2>1. WordAt(bytes, address, n) \in 0 .. WordSize(n) - 1
    BY <1>2
  <2>2. bytes[address + n] \in 0 .. ByteValues - 1
    BY DEF BytesAt, Byte
  <2>3. /\ WordSize(n) \in Nat \ {0} /\ WordSize(1) \in Nat \ {0}
        /\ WordSize(n + 1) = WordSize(n) * WordSize(1) /\ WordSize(1) = ByteValues
    BY WordSizes
  <2>4. WordAt(bytes, address, n) + bytes[address + n] * WordSize(n) \in 0 .. WordSize(n) * ByteValues - 1
    BY <2>1, <2>2, <2>3, DigitAbove
  <2>5. WordAt(bytes, address, n + 1) = WordAt(bytes, address, n) + bytes[address + n] * WordSize(n)
    BY WordAtNext
  <2> QED BY <2>3, <2>4, <2>5, Zenon
<1> HIDE DEF S
<1>3. w \in S
  BY <1>1, <1>2, NatSetInduction
<1> QED BY <1>3 DEF S

\* The bytes of two loads are the same.
SameBytes(bytes, left, right, w) == \A i \in 0 .. w - 1 : bytes[left + i] = bytes[right + i]

\* Two loads are equal exactly when the bytes are.
LEMMA WordsEqual ==
  ASSUME NEW bytes, NEW left \in Nat, NEW right \in Nat, NEW w \in Nat,
         BytesAt(bytes, left, w), BytesAt(bytes, right, w)
  PROVE  WordAt(bytes, left, w) = WordAt(bytes, right, w)
           <=> SameBytes(bytes, left, right, w)
<1> DEFINE Same(n) == \A i \in 0 .. n - 1 : bytes[left + i] = bytes[right + i]
           S == {n \in Nat : n <= w => (WordAt(bytes, left, n) = WordAt(bytes, right, n) <=> Same(n))}
<1>1. 0 \in S
  <2>1. WordAt(bytes, left, 0) = 0 /\ WordAt(bytes, right, 0) = 0
    BY WordAtNext
  <2> QED BY <2>1
<1>2. ASSUME NEW n \in Nat, n \in S PROVE n + 1 \in S
  <2> SUFFICES ASSUME n + 1 <= w
               PROVE  WordAt(bytes, left, n + 1) = WordAt(bytes, right, n + 1) <=> Same(n + 1)
    OBVIOUS
  <2>1. WordAt(bytes, left, n) = WordAt(bytes, right, n) <=> Same(n)
    BY <1>2
  <2>2. Same(n + 1) <=> (Same(n) /\ bytes[left + n] = bytes[right + n])
    <3>1. 0 .. (n + 1) - 1 = (0 .. n - 1) \cup {n}
      OBVIOUS
    <3> QED BY <3>1
  <2> HIDE DEF Same
  <2>3. BytesAt(bytes, left, n) /\ BytesAt(bytes, right, n)
    BY DEF BytesAt
  <2>4. /\ WordAt(bytes, left, n) \in 0 .. WordSize(n) - 1
        /\ WordAt(bytes, right, n) \in 0 .. WordSize(n) - 1
    BY <2>3, WordAtRange
  <2>5. bytes[left + n] \in Nat /\ bytes[right + n] \in Nat
    <3>1. ByteValues \in Int
      BY WordSizes
    <3> QED BY <3>1 DEF BytesAt, Byte
  <2>6. WordSize(n) \in Nat \ {0}
    BY WordSizes
  <2>7. /\ WordAt(bytes, left, n + 1) = WordAt(bytes, left, n) + bytes[left + n] * WordSize(n)
        /\ WordAt(bytes, right, n + 1) = WordAt(bytes, right, n) + bytes[right + n] * WordSize(n)
    BY WordAtNext
  <2>8. WordAt(bytes, left, n + 1) = WordAt(bytes, right, n + 1)
          <=> (WordAt(bytes, left, n) = WordAt(bytes, right, n) /\ bytes[left + n] = bytes[right + n])
    <3>1. ASSUME WordAt(bytes, left, n + 1) = WordAt(bytes, right, n + 1)
          PROVE  WordAt(bytes, left, n) = WordAt(bytes, right, n) /\ bytes[left + n] = bytes[right + n]
      <4>1. WordAt(bytes, left, n) + bytes[left + n] * WordSize(n)
              = WordAt(bytes, right, n) + bytes[right + n] * WordSize(n)
        BY <2>7, <3>1, Zenon
      <4> DEFINE s == WordSize(n)  x == WordAt(bytes, left, n)  u == WordAt(bytes, right, n)
                 y == bytes[left + n]  v == bytes[right + n]
      <4>2. /\ s \in Nat \ {0} /\ x \in 0 .. s - 1 /\ u \in 0 .. s - 1 /\ y \in Nat /\ v \in Nat
            /\ x + y * s = u + v * s
        BY <2>4, <2>5, <2>6, <4>1
      <4> HIDE DEF s, x, u, y, v
      <4>3. x = u /\ y = v
        BY <4>2, DigitsUnique
      <4> QED BY <4>3 DEF x, u, y, v
    <3>2. ASSUME WordAt(bytes, left, n) = WordAt(bytes, right, n), bytes[left + n] = bytes[right + n]
          PROVE  WordAt(bytes, left, n + 1) = WordAt(bytes, right, n + 1)
      BY <2>7, <3>2, Zenon
    <3> QED BY <3>1, <3>2
  <2> QED BY <2>1, <2>2, <2>8
<1> HIDE DEF S
<1>3. w \in S
  BY <1>1, <1>2, NatSetInduction
<1> QED BY <1>3 DEF S, SameBytes

\* The bytes beyond the first m add whole multiples of the size of m bytes.
LEMMA LowPart ==
  ASSUME NEW bytes, NEW address \in Nat, NEW m \in Nat, NEW w \in Nat, BytesAt(bytes, address, m + w)
  PROVE  \E k \in Nat : WordAt(bytes, address, m + w) = WordAt(bytes, address, m) + WordSize(m) * k
<1> DEFINE S == {n \in Nat : n <= w => \E k \in Nat :
                    WordAt(bytes, address, m + n) = WordAt(bytes, address, m) + WordSize(m) * k}
<1>0. WordAt(bytes, address, m) \in Nat /\ WordSize(m) \in Nat
  <2>1. WordSize(m) \in Nat
    BY WordSizes
  <2>2. BytesAt(bytes, address, m)
    BY DEF BytesAt
  <2> QED BY <2>1, <2>2, WordAtRange
<1>1. 0 \in S
  <2>1. m + 0 = m
    OBVIOUS
  <2>2. WordAt(bytes, address, m + 0) = WordAt(bytes, address, m) + WordSize(m) * 0
    BY <1>0, <2>1
  <2> QED BY <2>2
<1>2. ASSUME NEW n \in Nat, n \in S PROVE n + 1 \in S
  <2> SUFFICES ASSUME n + 1 <= w
               PROVE  \E k \in Nat : WordAt(bytes, address, m + (n + 1))
                                       = WordAt(bytes, address, m) + WordSize(m) * k
    OBVIOUS
  <2>1. PICK k \in Nat : WordAt(bytes, address, m + n) = WordAt(bytes, address, m) + WordSize(m) * k
    BY <1>2
  <2>2. PICK j \in Nat : j = m + n /\ j + 1 = m + (n + 1)
    <3>1. m + n \in Nat /\ m + n + 1 = m + (n + 1)
      OBVIOUS
    <3> QED BY <3>1
  <2>3. WordAt(bytes, address, j + 1) = WordAt(bytes, address, j) + bytes[address + j] * WordSize(j)
    BY WordAtNext
  <2>4. WordSize(j) = WordSize(m) * WordSize(n) /\ WordSize(n) \in Nat
    BY <2>2, WordSizes
  <2>5. PICK b \in Nat : b = bytes[address + j]
    <3>1. ByteValues \in Int
      BY WordSizes
    <3>2. j \in 0 .. (m + w) - 1
      BY <2>2
    <3>3. bytes[address + j] \in Nat
      BY <3>1, <3>2 DEF BytesAt, Byte
    <3> QED BY <3>3
  <2>6. PICK z \in Nat : z = k + b * WordSize(n)
    <3>1. k + b * WordSize(n) \in Nat
      BY <2>4
    <3> QED BY <3>1
  <2>7. WordAt(bytes, address, m) + WordSize(m) * k + b * (WordSize(m) * WordSize(n))
          = WordAt(bytes, address, m) + WordSize(m) * z
    <3>1. \A a, x, y, p, q \in Nat : a + x * p + q * (x * y) = a + x * (p + q * y)
      OBVIOUS
    <3> QED BY <1>0, <2>4, <2>6, <3>1
  <2> QED BY <2>1, <2>2, <2>3, <2>4, <2>5, <2>7
<1> HIDE DEF S
<1>3. w \in S
  BY <1>1, <1>2, NatSetInduction
<1> QED BY <1>3 DEF S

(***************************************************************************)
(* The invariant                                                           *)
(***************************************************************************)
\* A call begins with nothing done (run_variant's calls).
LEMMA ChunkInitInvariant == ChunkInit => ChunkInv
<1>1. ASSUME CopyInit PROVE CopyInv
  <2>1. PICK c \in CopyCalls :
          /\ call = c /\ block = "entry"
          /\ env = [dst |-> c.dst, src |-> c.src, count |-> c.count, trace_index |-> 0]
          /\ memory = [bytes |-> c.bytes, trace |-> Untraced]
    BY <1>1 DEF CopyInit
  <2>2. /\ c.fn = "chunked_copy" /\ c.dst \in Nat /\ c.src \in Nat /\ c.count \in Nat
        /\ c.bytes \in [Address -> Byte]
    BY CopyCallsAssumption
  <2>3. Done = 0 /\ env.count = c.count /\ 0 % 8 = 0 /\ 0 % 4 = 0
    BY <2>1, <2>2 DEF Done
  <2>4. DoneInv /\ CountInv
    BY <2>1, <2>2, <2>3 DEF DoneInv, CountInv
  <2>5. CopyWord(c.bytes, c.dst, c.src, 0) = c.bytes
    BY <2>2, CopyNothing
  <2>6. CopyIsExact
    BY <2>1, <2>2, <2>3, <2>5 DEF CopyIsExact, Returned, Done
  <2>7. GreedyInv
    <3>1. ArenaSize \in Nat /\ Eights \in Nat
      BY <2>1, <2>2, PlanTotal, CopyCallsAssumption DEF Eights
    <3>2. env.trace_index = 0 /\ memory.trace = Untraced /\ env.count = call.count - 8 * 0
      BY <2>1, <2>2
    <3>3. \A i \in Address : ~(i < 0)
      BY <3>1 DEF Address
    <3> QED BY <3>1, <3>2, <3>3 DEF GreedyInv, Untraced
  <2> QED BY <2>1, <2>4, <2>6, <2>7 DEF CopyInv, CopyLabels
<1>2. ASSUME CompareInit PROVE CompareInv
  <2>1. PICK c \in CompareCalls :
          /\ call = c /\ block = "entry"
          /\ env = [left |-> c.left, right |-> c.right, count |-> c.count, trace_index |-> 0]
          /\ memory = [bytes |-> c.bytes, trace |-> Untraced]
    BY <1>2 DEF CompareInit
  <2>2. c.left \in Nat /\ c.right \in Nat /\ c.count \in Nat
    BY CompareCallsAssumption
  <2>3. Done = 0 /\ env.count = c.count /\ 0 % 8 = 0 /\ 0 % 4 = 0
    BY <2>1, <2>2 DEF Done
  <2>4. DoneInv /\ CountInv
    BY <2>1, <2>2, <2>3 DEF DoneInv, CountInv
  <2>5. env.left = call.left + Done /\ env.right = call.right + Done
    BY <2>1, <2>2, <2>3
  <2>6. SameSoFar(Done)
    BY <2>3 DEF SameSoFar
  <2>7. env.count < 8 => Done >= 8 * (call.count \div 8)
    <3>1. \A n \in Nat : n < 8 => 8 * (n \div 8) = 0
      OBVIOUS
    <3> QED BY <2>1, <2>2, <2>3, <3>1
  <2>8. memory = [bytes |-> call.bytes, trace |-> memory.trace]
    BY <2>1
  <2> QED BY <2>1, <2>4, <2>5, <2>6, <2>7, <2>8 DEF CompareInv, CompareLabels, Alike
<1> QED BY <1>1, <1>2 DEF ChunkInit, ChunkInv

\* A block that copies a chunk of w takes w bytes off what is left (copy_8, copy_4, copy_1).
LEMMA CopyChunkInvariant ==
  ASSUME CopyInv, NEW w \in {1, 4, 8}, env.count >= w, w = 1 => env.count < 4, w = 4 => env.count < 8,
         copy_chunk(w), call' = call
  PROVE  CopyInv'
<1>1. /\ call.fn = "chunked_copy"
      /\ call.dst \in Nat /\ call.src \in Nat /\ call.count \in Nat
      /\ call.dst + call.count <= ArenaSize /\ call.src + call.count <= ArenaSize
      /\ call.dst <= call.src \/ call.src + call.count <= call.dst
  BY CopyCallsAssumption DEF CopyInv
<1>2. /\ env' = [dst |-> env.dst + w, src |-> env.src + w, count |-> env.count - w,
                 trace_index |-> env.trace_index + 1]
      /\ memory'.bytes = CopyWord(memory.bytes, env.dst, env.src, w)
      /\ block' = "entry"
  BY DEF copy_chunk, recurse_copy, advance, GotoWith
<1>3. env'.dst = env.dst + w /\ env'.src = env.src + w /\ env'.count = env.count - w
  BY <1>2
<1>4. /\ env.count \in Nat /\ Done \in Nat
      /\ env.count >= 8 => Done % 8 = 0
      /\ env.count >= 4 => Done % 4 = 0
      /\ env.dst = call.dst + Done /\ env.src = call.src + Done
      /\ memory.bytes = CopyWord(call.bytes, call.dst, call.src, Done)
  BY <1>1 DEF CopyInv, DoneInv, CopyIsExact, Done
<1>5. /\ env.count - w \in Nat
      /\ Done' = Done + w /\ Done + w \in Nat
      /\ env.count - w >= 8 => (Done + w) % 8 = 0
      /\ env.count - w >= 4 => (Done + w) % 4 = 0
  BY <1>1, <1>3, <1>4, TakeChunk DEF Done
<1>6. DoneInv'
  BY <1>3, <1>5 DEF DoneInv
<1>7. /\ call.dst + (Done + w) <= ArenaSize /\ call.src + (Done + w) <= ArenaSize
      /\ call.dst <= call.src \/ call.src + (Done + w) <= call.dst
  <2>1. Done + w <= call.count
    BY <1>1, <1>4, <1>5 DEF Done
  <2>2. ArenaSize \in Nat
    BY CopyCallsAssumption
  <2> QED BY <1>1, <1>5, <2>1, <2>2
<1>8. memory'.bytes = CopyWord(call.bytes, call.dst, call.src, Done + w)
  <2>1. memory'.bytes = CopyWord(CopyWord(call.bytes, call.dst, call.src, Done),
                                 call.dst + Done, call.src + Done, w)
    BY <1>2, <1>4
  <2>2. w \in Nat
    OBVIOUS
  <2>3. CopyWord(CopyWord(call.bytes, call.dst, call.src, Done), call.dst + Done, call.src + Done, w)
          = CopyWord(call.bytes, call.dst, call.src, Done + w)
    <3> DEFINE from == call.bytes  d == call.dst  s == call.src  n == Done
    <3>1. /\ d \in Nat /\ s \in Nat /\ n \in Nat
          /\ d + (n + w) <= ArenaSize /\ s + (n + w) <= ArenaSize
          /\ d <= s \/ s + (n + w) <= d
      BY <1>1, <1>4, <1>7
    <3> HIDE DEF from, d, s, n
    <3>2. CopyWord(CopyWord(from, d, s, n), d + n, s + n, w) = CopyWord(from, d, s, n + w)
      BY <2>2, <3>1, CopyMore
    <3> QED BY <3>2 DEF from, d, s, n
  <2> QED BY <2>1, <2>3
<1>9. env'.dst = call.dst + (Done + w) /\ env'.src = call.src + (Done + w)
  BY <1>1, <1>3, <1>4
<1>10. CopyIsExact'
  <2>1. call'.count - env'.count = Done + w
    BY <1>5 DEF Done
  <2>2. ~Returned'
    BY <1>2 DEF Returned
  <2>3. memory'.bytes = CopyWord(call'.bytes, call'.dst, call'.src, call'.count - env'.count)
    BY <1>8, <2>1
  <2>4. /\ env'.dst = call'.dst + (call'.count - env'.count)
        /\ env'.src = call'.src + (call'.count - env'.count)
    BY <1>9, <2>1
  <2> QED BY <2>2, <2>3, <2>4 DEF CopyIsExact
<1>11. CountInv'
  BY <1>2 DEF CountInv
<1>12. GreedyInv'
  <2> DEFINE k == env.trace_index
  <2>1. /\ k \in Nat
        /\ \/ k <= Eights /\ env.count = call.count - 8 * k
           \/ k >= Eights + Fours /\ env.count = Ones - (k - (Eights + Fours))
        /\ memory.trace = [i \in Address |-> IF i < k THEN Planned(i) ELSE 0]
    BY DEF CopyInv, GreedyInv
  <2>2. /\ Eights \in Nat /\ Fours \in {0, 1} /\ Ones \in 0 .. 3
        /\ call.count = 8 * Eights + 4 * Fours + Ones
    BY <1>1, PlanTotal DEF Eights, Fours, Ones
  <2>3. Eights' = Eights /\ Fours' = Fours /\ Ones' = Ones
    BY DEF Eights, Fours, Ones
  <2>4. env'.trace_index = k + 1 /\ memory'.trace = [memory.trace EXCEPT ![k] = w]
    BY <1>2 DEF copy_chunk, emit_trace_step
  <2> HIDE DEF k
  <2>5. /\ w = IF k < Eights THEN 8 ELSE IF k < Eights + Fours THEN 4 ELSE 1
        /\ k < call.count
        /\ \/ k + 1 <= Eights /\ env.count - w = call.count - 8 * (k + 1)
           \/ k + 1 >= Eights + Fours /\ env.count - w = Ones - ((k + 1) - (Eights + Fours))
    <3>1. call.count \in Nat /\ env.count \in Nat
      BY <1>1, <1>4
    <3> QED BY <2>1, <2>2, <3>1, PlanStep
  <2>6. w = Planned(k)
    BY <2>5 DEF Planned
  <2>7. ArenaSize \in Nat /\ k \in Address
    BY <1>1, <2>1, <2>5, CopyCallsAssumption DEF Address
  <2>8. \A i \in Address : (i < k + 1 <=> i < k \/ i = k)
    BY <2>1, <2>7 DEF Address
  <2>9. \A i \in Address : memory'.trace[i] = IF i < k + 1 THEN Planned(i) ELSE 0
    BY <2>1, <2>4, <2>6, <2>7, <2>8
  <2>10. memory'.trace = [i \in Address |-> IF i < k + 1 THEN Planned(i) ELSE 0]
    BY <2>1, <2>4, <2>9
  <2>11. memory'.trace = [i \in Address |-> IF i < env'.trace_index THEN
                             (IF i < Eights' THEN 8 ELSE IF i < Eights' + Fours' THEN 4 ELSE 1) ELSE 0]
    BY <2>3, <2>4, <2>10 DEF Planned
  <2>12. env'.trace_index \in Nat
    BY <2>1, <2>4
  <2>13. \/ env'.trace_index <= Eights' /\ env'.count = call'.count - 8 * env'.trace_index
         \/ /\ env'.trace_index >= Eights' + Fours'
            /\ env'.count = Ones' - (env'.trace_index - (Eights' + Fours'))
    <3>1. env'.trace_index = k + 1 /\ env'.count = env.count - w /\ call'.count = call.count
      BY <1>3, <2>4
    <3>2. CASE k + 1 <= Eights /\ env.count - w = call.count - 8 * (k + 1)
      BY <2>3, <3>1, <3>2
    <3>3. CASE k + 1 >= Eights + Fours /\ env.count - w = Ones - ((k + 1) - (Eights + Fours))
      BY <2>3, <3>1, <3>3
    <3> QED BY <2>5, <3>2, <3>3
  <2> QED BY <2>11, <2>12, <2>13 DEF GreedyInv, Planned
<1> QED BY <1>2, <1>6, <1>10, <1>11, <1>12 DEF CopyInv, CopyLabels

\* Every block of the copy keeps the invariant.
LEMMA CopyInvariant == CopyInv /\ CopyNext => CopyInv'
<1> SUFFICES ASSUME CopyInv, CopyNext PROVE CopyInv'
  OBVIOUS
<1>1. env.count \in Nat
  BY DEF CopyInv, DoneInv
\* The blocks that only branch or return leave what was done alone.
<1>2. ASSUME call' = call, env' = env, memory' = memory, block' \in CopyLabels, CountInv',
             block' \in {"count_is_zero", "returned"} => env.count = 0
      PROVE  CopyInv'
  <2>1. DoneInv'
    BY <1>2 DEF CopyInv, DoneInv, Done
  <2>2. CopyIsExact'
    <3>1. block' = "returned" => call.count - env.count = call.count
      BY <1>2, CopyCallsAssumption DEF CopyInv
    <3> QED BY <1>2, <3>1 DEF CopyInv, CopyIsExact, Returned
  <2>3. GreedyInv'
    BY <1>2 DEF CopyInv, GreedyInv, Planned, Eights, Fours, Ones
  <2> QED BY <1>2, <2>1, <2>2, <2>3 DEF CopyInv
<1>3. CASE copy_entry
  <2>1. /\ call' = call /\ env' = env /\ memory' = memory
        /\ block' = IF env.count = 0 THEN "count_is_zero" ELSE "check_8"
    BY <1>3 DEF copy_entry, At, Branch, Goto
  <2>2. CountInv'
    BY <1>1, <2>1 DEF CountInv
  <2> QED BY <1>2, <2>1, <2>2 DEF CopyLabels
<1>4. CASE copy_zero
  <2>1. call' = call /\ env' = env /\ memory' = memory /\ block = "count_is_zero" /\ block' = "returned"
    BY <1>4 DEF copy_zero, At, RetVoid, Goto
  <2>2. CountInv'
    BY <2>1 DEF CountInv
  <2>3. env.count = 0
    BY <2>1 DEF CopyInv
  <2> QED BY <1>2, <2>1, <2>2, <2>3 DEF CopyLabels
<1>5. CASE copy_check_8
  <2>1. /\ call' = call /\ env' = env /\ memory' = memory /\ block = "check_8"
        /\ block' = IF env.count >= 8 THEN "copy_8" ELSE "check_4"
    BY <1>5 DEF copy_check_8, At, Branch, Goto
  <2>2. CountInv'
    BY <1>1, <2>1 DEF CopyInv, CountInv
  <2> QED BY <1>2, <2>1, <2>2 DEF CopyLabels
<1>6. CASE copy_check_4
  <2>1. /\ call' = call /\ env' = env /\ memory' = memory /\ block = "check_4"
        /\ block' = IF env.count >= 4 THEN "copy_4" ELSE "copy_1"
    BY <1>6 DEF copy_check_4, At, Branch, Goto
  <2>2. CountInv'
    BY <1>1, <2>1 DEF CopyInv, CountInv
  <2> QED BY <1>2, <2>1, <2>2 DEF CopyLabels
<1>7. CASE copy_8
  <2>1. env.count >= 8 /\ copy_chunk(8) /\ call' = call
    BY <1>7 DEF copy_8, At, CopyInv, CountInv
  <2> QED BY <2>1, CopyChunkInvariant
<1>8. CASE copy_4
  <2>1. env.count >= 4 /\ env.count < 8 /\ copy_chunk(4) /\ call' = call
    BY <1>8 DEF copy_4, At, CopyInv, CountInv
  <2> QED BY <2>1, CopyChunkInvariant
<1>9. CASE copy_1
  <2>1. env.count >= 1 /\ env.count < 4 /\ copy_chunk(1) /\ call' = call
    BY <1>9 DEF copy_1, At, CopyInv, CountInv
  <2> QED BY <2>1, CopyChunkInvariant
<1> QED BY <1>3, <1>4, <1>5, <1>6, <1>7, <1>8, <1>9 DEF CopyNext

\* A set of numbers has a least one.
LEMMA LeastOf ==
  ASSUME NEW S, S \subseteq Nat, S # {}
  PROVE  \E m \in S : \A k \in S : m <= k
<1> DEFINE T == Nat \ S
<1>1. SUFFICES ASSUME ~(\E m \in S : \A k \in S : m <= k) PROVE FALSE
  OBVIOUS
<1>2. ASSUME NEW n \in Nat, \A m \in 0 .. n - 1 : m \in T PROVE n \in T
  <2>1. SUFFICES ASSUME n \in S PROVE FALSE
    OBVIOUS
  <2>2. PICK k \in S : ~(n <= k)
    BY <1>1, <2>1
  <2>3. k \in 0 .. n - 1
    BY <2>2
  <2> QED BY <1>2, <2>3
<1>3. Nat \subseteq T
  <2> HIDE DEF T
  <2> QED BY <1>2, StrongSetInduction
<1> QED BY <1>3

\* A wrapped difference of words is zero exactly when they are equal.
LEMMA ZeroDifference ==
  ASSUME NEW m \in Nat \ {0}, NEW x \in 0 .. m - 1, NEW y \in 0 .. m - 1
  PROVE  /\ (x - y + m) % m \in 0 .. m - 1
         /\ (x - y + m) % m = 0 <=> x = y
         /\ \E q \in Int : (x - y + m) % m = (x - y) + m * q
<1> DEFINE d == x - y + m
<1>1. d \in Int
  OBVIOUS
<1>2. PICK q \in Int, r \in 0 .. m - 1 : r = d % m /\ d = m * q + r
  <2> HIDE DEF d
  <2> QED BY <1>1, Division
<1>3. r = (x - y) + m * (1 - q)
  <2>1. m * (1 - q) = m - m * q
    OBVIOUS
  <2>2. x - y + m = m * q + r /\ m * q \in Int
    BY <1>2
  <2> HIDE DEF d
  <2> QED BY <2>1, <2>2
<1>4. ASSUME x = y PROVE r = 0
  <2>1. m * 1 + 0 = d /\ 0 \in 0 .. m - 1
    BY <1>4
  <2>2. (m * 1 + 0) % m = 0
    BY <2>1, RemainderUnique
  <2> QED BY <1>2, <2>1, <2>2
<1>5. ASSUME r = 0 PROVE x = y
  <2>1. m * q = x - y + m
    BY <1>2, <1>5
  <2>2. CASE q >= 2
    <3>1. m * q >= m * 2
      <4>1. m * (q - 2) \in Nat
        <5>1. q - 2 \in Nat
          BY <2>2
        <5>2. \A a, b \in Nat : a * b \in Nat
          OBVIOUS
        <5> QED BY <5>1, <5>2
      <4>2. m * (q - 2) = m * q - m * 2
        OBVIOUS
      <4> QED BY <4>1, <4>2, <2>1
    <3> HIDE DEF d
    <3> QED BY <2>1, <3>1
  <2>3. CASE q <= 0
    <3>1. m * q <= 0
      <4>1. m * (-q) \in Nat
        <5>1. -q \in Nat
          BY <2>3
        <5>2. \A a, b \in Nat : a * b \in Nat
          OBVIOUS
        <5> QED BY <5>1, <5>2
      <4>2. m * (-q) = -(m * q)
        OBVIOUS
      <4> QED BY <4>1, <4>2, <2>1
    <3> HIDE DEF d
    <3> QED BY <2>1, <3>1
  <2>4. CASE q = 1
    BY <2>1, <2>4
  <2> QED BY <2>2, <2>3, <2>4
<1>6. 1 - q \in Int
  OBVIOUS
<1> QED BY <1>2, <1>3, <1>4, <1>5, <1>6

\* What the two words of an activation are: of the bytes of the call, after what was handled.
LEMMA ChunkWords ==
  ASSUME CompareInv, block # "returned", NEW w \in {1, 4, 8}, env.count >= w
  PROVE  /\ call.left \in Nat /\ call.right \in Nat /\ call.count \in Nat
         /\ Done \in Nat /\ Done + w <= call.count
         /\ env.left \in Nat /\ env.right \in Nat
         /\ \A v \in 0 .. w :
              /\ BytesAt(call.bytes, env.left, v) /\ BytesAt(call.bytes, env.right, v)
              /\ WordAt(call.bytes, env.left, v) = WordAt(call.bytes, env.right, v)
                   <=> \A i \in 0 .. v - 1 : SameAt(Done + i)
<1>1. /\ call.left \in Nat /\ call.right \in Nat /\ call.count \in Nat
      /\ call.left + call.count <= ArenaSize /\ call.right + call.count <= ArenaSize
      /\ call.bytes \in [Address -> Byte]
  BY CompareCallsAssumption DEF CompareInv
<1>2. ArenaSize \in Nat
  BY CopyCallsAssumption
<1>3. /\ env.count \in Nat /\ Done \in Nat
      /\ env.left = call.left + Done /\ env.right = call.right + Done
  BY DEF CompareInv, DoneInv, Alike
<1>4. Done + w <= call.count /\ env.left \in Nat /\ env.right \in Nat
  <2>1. Done = call.count - env.count
    BY DEF Done
  <2> QED BY <1>1, <1>3, <2>1
<1>5. ASSUME NEW v \in 0 .. w
      PROVE  /\ BytesAt(call.bytes, env.left, v) /\ BytesAt(call.bytes, env.right, v)
             /\ WordAt(call.bytes, env.left, v) = WordAt(call.bytes, env.right, v)
                  <=> \A i \in 0 .. v - 1 : SameAt(Done + i)
  <2>1. ASSUME NEW i \in 0 .. v - 1
        PROVE  /\ env.left + i \in Address /\ env.right + i \in Address
               /\ env.left + i = call.left + (Done + i) /\ env.right + i = call.right + (Done + i)
    <3>1. i \in Nat /\ i < w
      OBVIOUS
    <3>2. PICK l \in Nat, r \in Nat, d \in Nat, n \in Nat, size \in Nat :
            l = call.left /\ r = call.right /\ d = Done /\ n = call.count /\ size = ArenaSize
      BY <1>1, <1>2, <1>3
    <3>3. l + n <= size /\ r + n <= size /\ d + w <= n
      BY <1>1, <1>4, <3>2
    <3>4. /\ (l + d) + i \in 0 .. size - 1 /\ (r + d) + i \in 0 .. size - 1
          /\ (l + d) + i = l + (d + i) /\ (r + d) + i = r + (d + i)
      BY <3>1, <3>3
    <3> QED BY <1>3, <3>2, <3>4 DEF Address
  <2>2. BytesAt(call.bytes, env.left, v) /\ BytesAt(call.bytes, env.right, v)
    BY <1>1, <2>1 DEF BytesAt
  <2>3. v \in Nat
    OBVIOUS
  <2>4. WordAt(call.bytes, env.left, v) = WordAt(call.bytes, env.right, v)
          <=> \A i \in 0 .. v - 1 : call.bytes[env.left + i] = call.bytes[env.right + i]
    <3> DEFINE b == call.bytes  l == env.left  r == env.right
    <3>1. l \in Nat /\ r \in Nat /\ v \in Nat /\ BytesAt(b, l, v) /\ BytesAt(b, r, v)
      BY <1>4, <2>2, <2>3
    <3> HIDE DEF b, l, r
    <3>2. WordAt(b, l, v) = WordAt(b, r, v) <=> SameBytes(b, l, r, v)
      BY ONLY <3>1, WordsEqual
    <3> QED BY <3>2 DEF b, l, r, SameBytes
  <2>5. \A i \in 0 .. v - 1 : call.bytes[env.left + i] = call.bytes[env.right + i] <=> SameAt(Done + i)
    BY <2>1 DEF SameAt
  <2> QED BY <2>2, <2>4, <2>5
<1> QED BY <1>1, <1>3, <1>4, <1>5

\* The difference of a chunk is zero exactly when its bytes are the same on both sides.
LEMMA DifferenceTells ==
  ASSUME CompareInv, block # "returned", NEW w \in {1, 4, 8}, env.count >= w
  PROVE  /\ Difference(w) \in 0 .. WordSize(w) - 1 /\ WordSize(w) \in Nat \ {0}
         /\ Difference(w) = 0 <=> \A i \in 0 .. w - 1 : SameAt(Done + i)
<1> DEFINE x == WordAt(call.bytes, env.left, w)
           y == WordAt(call.bytes, env.right, w)
           s == WordSize(w)
<1>1. Difference(w) = (x - y + s) % s
  <2>1. memory.bytes = call.bytes
    BY DEF CompareInv
  <2> QED BY <2>1, Zenon DEF Difference
<1>2. w \in Nat /\ w \in 0 .. w
  OBVIOUS
<1>3. /\ env.left \in Nat /\ env.right \in Nat
      /\ BytesAt(call.bytes, env.left, w) /\ BytesAt(call.bytes, env.right, w)
      /\ x = y <=> \A i \in 0 .. w - 1 : SameAt(Done + i)
  BY <1>2, ChunkWords
<1>4. s \in Nat \ {0} /\ x \in 0 .. s - 1 /\ y \in 0 .. s - 1
  BY <1>2, <1>3, WordSizes, WordAtRange
<1> HIDE DEF x, y, s
<1>5. (x - y + s) % s \in 0 .. s - 1 /\ ((x - y + s) % s = 0 <=> x = y)
  BY <1>4, ZeroDifference
<1> QED BY <1>1, <1>3, <1>4, <1>5 DEF s

\* The low half of an 8-byte difference, which the truncation keeps, is zero exactly when the
\* first four bytes are the same.
LEMMA LowHalfTells ==
  ASSUME CompareInv, block # "returned", env.count >= 8
  PROVE  /\ Difference(8) % WordSize(4) \in 0 .. WordSize(4) - 1
         /\ Difference(8) % WordSize(4) = 0 <=> \A i \in 0 .. 3 : SameAt(Done + i)
<1> DEFINE x == WordAt(call.bytes, env.left, 8)
           y == WordAt(call.bytes, env.right, 8)
           u == WordAt(call.bytes, env.left, 4)
           v == WordAt(call.bytes, env.right, 4)
           s == WordSize(4)
           t == WordSize(8)
           d == Difference(8)
<1>1. d = (x - y + t) % t
  <2>1. memory.bytes = call.bytes
    BY DEF CompareInv
  <2> QED BY <2>1, Zenon DEF Difference
<1>2. 4 \in 0 .. 8 /\ 8 \in 0 .. 8 /\ 4 - 1 = 3 /\ 4 + 4 = 8
  OBVIOUS
<1>3. /\ env.left \in Nat /\ env.right \in Nat
      /\ BytesAt(call.bytes, env.left, 8) /\ BytesAt(call.bytes, env.right, 8)
      /\ BytesAt(call.bytes, env.left, 4) /\ BytesAt(call.bytes, env.right, 4)
      /\ u = v <=> \A i \in 0 .. 3 : SameAt(Done + i)
  <2>1. /\ env.left \in Nat /\ env.right \in Nat
        /\ \A n \in 0 .. 8 :
              /\ BytesAt(call.bytes, env.left, n) /\ BytesAt(call.bytes, env.right, n)
              /\ WordAt(call.bytes, env.left, n) = WordAt(call.bytes, env.right, n)
                   <=> \A i \in 0 .. n - 1 : SameAt(Done + i)
    BY ChunkWords
  <2>2. u = v <=> \A i \in 0 .. 4 - 1 : SameAt(Done + i)
    BY <1>2, <2>1
  <2> QED BY <1>2, <2>1, <2>2
<1>4. /\ s \in Nat \ {0} /\ t = s * s /\ t \in Nat \ {0}
      /\ u \in 0 .. s - 1 /\ v \in 0 .. s - 1 /\ x \in 0 .. t - 1 /\ y \in 0 .. t - 1
  <2>1. s \in Nat \ {0} /\ WordSize(4 + 4) = s * s /\ t \in Nat \ {0}
    BY WordSizes
  <2>2. t = s * s
    BY <2>1, <1>2
  <2>3. u \in 0 .. s - 1 /\ v \in 0 .. s - 1
    BY <1>3, WordAtRange
  <2>4. x \in 0 .. t - 1 /\ y \in 0 .. t - 1
    BY <1>3, WordAtRange
  <2> HIDE DEF s, t, u, v, x, y
  <2> QED BY <2>1, <2>2, <2>3, <2>4
<1>5. /\ \E j \in Nat : x = u + s * j
      /\ \E k \in Nat : y = v + s * k
  <2>1. /\ \E j \in Nat : WordAt(call.bytes, env.left, 4 + 4) = u + s * j
        /\ \E k \in Nat : WordAt(call.bytes, env.right, 4 + 4) = v + s * k
    <3>1. BytesAt(call.bytes, env.left, 4 + 4) /\ BytesAt(call.bytes, env.right, 4 + 4)
      BY <1>2, <1>3
    <3> DEFINE b == call.bytes  l == env.left  r == env.right
    <3>2. l \in Nat /\ r \in Nat /\ BytesAt(b, l, 4 + 4) /\ BytesAt(b, r, 4 + 4)
      BY <1>3, <3>1
    <3> HIDE DEF b, l, r
    <3>3. /\ \E j \in Nat : WordAt(b, l, 4 + 4) = WordAt(b, l, 4) + WordSize(4) * j
          /\ \E k \in Nat : WordAt(b, r, 4 + 4) = WordAt(b, r, 4) + WordSize(4) * k
      BY ONLY <3>2, LowPart, 4 \in Nat
    <3> QED BY <3>3 DEF b, l, r
  <2> QED BY <1>2, <2>1
<1> HIDE DEF x, y, u, v, s, t, d
<1>6. PICK j \in Nat, k \in Nat : x = u + s * j /\ y = v + s * k
  BY <1>5
<1>7. PICK q \in Int : d = (x - y) + t * q
  <2>1. PICK e \in Int : e = x - y + t
    <3>1. x - y + t \in Int
      BY <1>4
    <3> QED BY <3>1
  <2>2. PICK p \in Int, r \in 0 .. t - 1 : r = e % t /\ e = t * p + r
    BY <1>4, Division
  <2>3. t * p \in Int /\ t * (1 - p) = t - t * p /\ 1 - p \in Int
    BY <1>4
  <2>4. r = (x - y) + t * (1 - p)
    BY <1>4, <2>1, <2>2, <2>3
  <2> QED BY <1>1, <2>1, <2>2, <2>3, <2>4
<1>8. PICK z \in Int : d = (u - v) + s * z
  <2>1. (j - k) + s * q \in Int
    BY <1>4
  <2>2. d = (u - v) + s * ((j - k) + s * q)
    <3>1. \A a, b, c, e, f, g \in Int : ((a + c * e) - (b + c * f)) + (c * c) * g = (a - b) + c * ((e - f) + c * g)
      OBVIOUS
    <3>2. u \in Int /\ v \in Int /\ s \in Int /\ j \in Int /\ k \in Int
      BY <1>4
    <3> QED BY <1>4, <1>6, <1>7, <3>1, <3>2
  <2> QED BY <2>1, <2>2
<1>9. PICK p \in Int, r \in 0 .. s - 1 : r = d % s /\ d = s * p + r
  <2>1. d \in Int
    <3>1. s * z \in Int /\ u - v \in Int
      BY <1>4
    <3> QED BY <1>8, <3>1
  <2> QED BY <1>4, <2>1, Division
<1>10. ASSUME u = v PROVE r = 0
  <2>1. d = s * z /\ d \in Int
    <3>1. s * z \in Int /\ u - v = 0
      BY <1>4, <1>10
    <3> QED BY <1>8, <3>1
  <2>2. d % s = 0
    BY <1>4, <2>1, NoRemainder
  <2> QED BY <1>9, <2>2
<1>11. ASSUME r = 0 PROVE u = v
  <2>1. s * p = (u - v) + s * z
    <3>1. s * p \in Int
      BY <1>4
    <3> QED BY <1>8, <1>9, <1>11, <3>1
  <2>2. PICK c \in Int : c = z - p
    OBVIOUS
  <2>3. s * c = v - u
    <3>1. s * c = s * z - s * p /\ s * z \in Int /\ s * p \in Int
      BY <1>4, <2>2
    <3> QED BY <1>4, <2>1, <3>1
  <2>4. u + c * s = v + 0 * s
    <3>1. c * s = s * c /\ 0 * s = 0
      BY <1>4
    <3> QED BY <1>4, <2>3, <3>1
  <2>5. CASE c >= 0
    BY <1>4, <2>4, <2>5, DigitsUnique
  <2>6. CASE c < 0
    <3>1. PICK e \in Nat : e = -c
      BY <2>6
    <3>2. v + e * s = u + 0 * s
      <4>1. e * s = -(s * c) /\ 0 * s = 0 /\ s * c \in Int
        BY <1>4, <3>1
      <4> QED BY <1>4, <2>3, <4>1
    <3> QED BY <1>4, <3>2, DigitsUnique
  <2> QED BY <2>5, <2>6
<1> QED BY <1>3, <1>9, <1>10, <1>11 DEF d, s

\* A truncated or sign-extended word is zero when the word is.
LEMMA SignedZero ==
  ASSUME NEW m \in Nat \ {0}, NEW n \in 0 .. m - 1
  PROVE  SignedWord(n, m) = 0 <=> n = 0
BY DEF SignedWord

\* A result that tells whether the first difference was dropped is the one promised.
LEMMA FirstDecides ==
  ASSUME call.count \in Nat, NEW f \in 0 .. call.count - 1, SameSoFar(f), ~SameAt(f),
         NEW r, r = 0 <=> f < 8 * (call.count \div 8) /\ f % 8 >= 4
  PROVE  Decided(r)
<1> DEFINE n == call.count
           differs == {i \in 0 .. n - 1 : ~SameAt(i)}
           dropped == {i \in differs : i < 8 * (n \div 8) /\ i % 8 >= 4}
<1>1. f \in differs /\ \A i \in differs : f <= i
  <2>1. ASSUME NEW i \in differs, ~(f <= i) PROVE FALSE
    <3>1. i \in 0 .. f - 1
      BY <2>1
    <3> QED BY <2>1, <3>1 DEF SameSoFar
  <2> QED BY <2>1
<1>2. (\E i \in dropped \cup {n} : \A j \in differs : i <= j) <=> f \in dropped
  <2>1. ASSUME NEW i \in dropped \cup {n}, \A j \in differs : i <= j PROVE f \in dropped
    <3>1. i <= f
      BY <1>1, <2>1
    <3>2. i # n
      BY <3>1
    <3>3. i \in dropped /\ f <= i
      BY <1>1, <2>1, <3>2
    <3>4. i = f
      BY <3>1, <3>3
    <3> QED BY <3>3, <3>4
  <2> QED BY <1>1, <2>1
<1>3. f \in dropped <=> f < 8 * (n \div 8) /\ f % 8 >= 4
  BY <1>1
<1>4. r = 0 <=> \E i \in dropped \cup {n} : \A j \in differs : i <= j
  BY <1>2, <1>3
<1> QED BY <1>4 DEF Decided

\* So is zero when there is no difference.
LEMMA NothingDiffers ==
  ASSUME call.count \in Nat, SameSoFar(call.count)
  PROVE  Decided(0)
<1> DEFINE n == call.count
           differs == {i \in 0 .. n - 1 : ~SameAt(i)}
           dropped == {i \in differs : i < 8 * (n \div 8) /\ i % 8 >= 4}
<1>1. differs = {}
  BY DEF SameSoFar
<1>2. \E i \in dropped \cup {n} : \A j \in differs : i <= j
  BY <1>1
<1> QED BY <1>2 DEF Decided

\* A difference in a chunk that starts after equal bytes is the first one, at its place there.
LEMMA FirstInChunk ==
  ASSUME NEW w \in {1, 4, 8}, Done \in Nat, SameSoFar(Done), ~(\A i \in 0 .. w - 1 : SameAt(Done + i))
  PROVE  \E j \in 0 .. w - 1 : /\ ~SameAt(Done + j) /\ SameSoFar(Done + j)
                               /\ \A i \in 0 .. j - 1 : SameAt(Done + i)
<1> DEFINE S == {i \in 0 .. w - 1 : ~SameAt(Done + i)}
<1>1. S \subseteq Nat /\ S # {}
  OBVIOUS
<1>2. PICK j \in S : \A k \in S : j <= k
  <2> HIDE DEF S
  <2> QED BY <1>1, LeastOf
<1>3. j \in 0 .. w - 1 /\ ~SameAt(Done + j)
  BY <1>2
<1>4. \A i \in 0 .. j - 1 : SameAt(Done + i)
  <2>1. SUFFICES ASSUME NEW i \in 0 .. j - 1, ~SameAt(Done + i) PROVE FALSE
    OBVIOUS
  <2>2. i \in 0 .. w - 1 /\ ~(j <= i)
    BY <1>3
  <2> QED BY <1>2, <2>1, <2>2
<1>5. SameSoFar(Done + j)
  <2> SUFFICES ASSUME NEW i \in 0 .. Done + j - 1 PROVE SameAt(i)
    BY DEF SameSoFar
  <2>1. PICK n \in Nat : n = Done
    OBVIOUS
  <2>2. CASE i < n
    <3>1. i \in 0 .. n - 1
      BY <2>2
    <3> QED BY <2>1, <3>1 DEF SameSoFar
  <2>3. CASE ~(i < n)
    <3>1. i - n \in 0 .. j - 1 /\ n + (i - n) = i
      BY <1>3, <2>1, <2>3
    <3> QED BY <1>4, <2>1, <3>1
  <2> QED BY <2>2, <2>3
<1> QED BY <1>3, <1>4, <1>5

\* A comparison that goes on takes the chunk off both sides (recurse_8, recurse_4, recurse_1).
LEMMA RecurseInvariant ==
  ASSUME CompareInv, NEW w \in {1, 4, 8}, env.count >= w, w = 1 => env.count < 4, w = 4 => env.count < 8,
         Difference(w) = 0, recurse_compare(w), call' = call, block # "returned"
  PROVE  CompareInv'
<1>1. call.left \in Nat /\ call.right \in Nat /\ call.count \in Nat
  BY CompareCallsAssumption DEF CompareInv
<1>2. /\ env'.left = env.left + w /\ env'.right = env.right + w /\ env'.count = env.count - w
      /\ block' = "entry" /\ memory' = memory
  BY DEF recurse_compare, advance, GotoWith
<1>3. /\ env.count \in Nat /\ Done \in Nat
      /\ env.count >= 8 => Done % 8 = 0
      /\ env.count >= 4 => Done % 4 = 0
      /\ env.left = call.left + Done /\ env.right = call.right + Done
      /\ SameSoFar(Done) /\ (env.count < 8 => Done >= 8 * (call.count \div 8))
  BY DEF CompareInv, DoneInv, Alike
<1>4. /\ env.count - w \in Nat
      /\ Done' = Done + w /\ Done + w \in Nat
      /\ env.count - w >= 8 => (Done + w) % 8 = 0
      /\ env.count - w >= 4 => (Done + w) % 4 = 0
  BY <1>1, <1>2, <1>3, TakeChunk DEF Done
<1>5. DoneInv' /\ CountInv'
  BY <1>2, <1>4 DEF DoneInv, CountInv
<1>6. env'.left = call.left + Done' /\ env'.right = call.right + Done'
  BY <1>1, <1>2, <1>3, <1>4
<1>7. SameSoFar(Done + w)
  <2>1. \A i \in 0 .. w - 1 : SameAt(Done + i)
    BY DifferenceTells
  <2>2. PICK n \in Nat : n = Done
    BY <1>3
  <2> SUFFICES ASSUME NEW i \in 0 .. (n + w) - 1 PROVE SameAt(i)
    BY <2>2 DEF SameSoFar
  <2>3. CASE i < n
    <3>1. i \in 0 .. n - 1
      BY <2>2, <2>3
    <3> QED BY <1>3, <2>2, <3>1 DEF SameSoFar
  <2>4. CASE ~(i < n)
    <3>1. i - n \in 0 .. w - 1 /\ n + (i - n) = i
      BY <2>2, <2>4
    <3> QED BY <2>1, <2>2, <3>1
  <2> QED BY <2>3, <2>4
<1>8. SameSoFar(Done)'
  BY <1>4, <1>7 DEF SameSoFar, SameAt
<1>9. env'.count < 8 => Done + w >= 8 * (call.count \div 8)
  <2>1. PICK n \in Nat, c \in Nat, d \in Nat : n = call.count /\ c = env.count /\ d = Done /\ d = n - c
    BY <1>1, <1>3 DEF Done
  <2>2. CASE c < 8
    <3>1. d >= 8 * (n \div 8) /\ 8 * (n \div 8) \in Nat
      BY <1>3, <2>1, <2>2
    <3> QED BY <2>1, <3>1
  <2>3. CASE c >= 8
    <3>1. d % 8 = 0
      BY <1>3, <2>1, <2>3
    <3>2. c - 8 < 8 => d + 8 >= 8 * (n \div 8)
      BY <2>1, <2>3, <3>1
    <3>3. w = 8
      BY <2>1, <2>3
    <3> QED BY <1>2, <2>1, <3>2, <3>3
  <2> QED BY <2>1, <2>2, <2>3
<1>10. Alike'
  BY <1>2, <1>4, <1>6, <1>8, <1>9 DEF Alike
<1> QED BY <1>2, <1>5, <1>10 DEF CompareInv, CompareLabels

\* A difference is returned as the comparison promises (ret_8, ret_4, ret_1).
LEMMA ReturnInvariant ==
  ASSUME CompareInv, NEW w \in {1, 4, 8}, env.count >= w, w = 1 => env.count < 4, w = 4 => env.count < 8,
         Difference(w) # 0, Ret(DifferenceResult(w)), call' = call, memory' = memory, block # "returned"
  PROVE  CompareInv'
<1>1. block' = "returned" /\ env'.result = DifferenceResult(w)
  BY DEF Ret, GotoWith
<1>2. /\ call.count \in Nat /\ Done \in Nat /\ Done + w <= call.count
  BY ChunkWords
<1>3. /\ SameSoFar(Done) /\ env.count \in Nat /\ Done = call.count - env.count
      /\ env.count < 8 => Done >= 8 * (call.count \div 8)
      /\ env.count >= 8 => Done % 8 = 0
  BY DEF CompareInv, Alike, DoneInv, Done
<1>4. ~(\A i \in 0 .. w - 1 : SameAt(Done + i))
  BY DifferenceTells
<1>5. PICK j \in 0 .. w - 1 : /\ ~SameAt(Done + j) /\ SameSoFar(Done + j)
                              /\ \A i \in 0 .. j - 1 : SameAt(Done + i)
  BY <1>2, <1>3, <1>4, FirstInChunk
<1>6. PICK f \in Nat : f = Done + j
  BY <1>2
<1>7. f \in 0 .. call.count - 1
  BY <1>2, <1>6
<1>8. DifferenceResult(w) = 0 <=> f < 8 * (call.count \div 8) /\ f % 8 >= 4
  <2>1. CASE w = 8
    <3>1. DifferenceResult(w) = SignedWord(Difference(8) % WordSize(4), WordSize(4))
      BY <2>1 DEF DifferenceResult
    <3>2. /\ Difference(8) % WordSize(4) \in 0 .. WordSize(4) - 1
          /\ Difference(8) % WordSize(4) = 0 <=> \A i \in 0 .. 3 : SameAt(Done + i)
      BY <2>1, LowHalfTells
    <3>3. WordSize(4) \in Nat \ {0}
      BY WordSizes
    <3>4. DifferenceResult(w) = 0 <=> \A i \in 0 .. 3 : SameAt(Done + i)
      <4>1. SignedWord(Difference(8) % WordSize(4), WordSize(4)) = 0 <=> Difference(8) % WordSize(4) = 0
        BY <3>2, <3>3, SignedZero
      <4> QED BY <3>1, <3>2, <4>1
    <3>5. (\A i \in 0 .. 3 : SameAt(Done + i)) <=> j >= 4
      <4>1. CASE j >= 4
        <5>1. \A i \in 0 .. 3 : i \in 0 .. j - 1
          BY <4>1
        <5> QED BY <1>5, <4>1, <5>1
      <4>2. CASE ~(j >= 4)
        <5>1. j \in 0 .. 3
          BY <4>2
        <5> QED BY <1>5, <4>2, <5>1
      <4> QED BY <4>1, <4>2
    <3>6. f < 8 * (call.count \div 8) /\ f % 8 = j
      <4>1. PICK n \in Nat, d \in Nat : n = call.count /\ d = Done /\ d + 8 <= n /\ d % 8 = 0
        BY <1>2, <1>3, <2>1
      <4>2. j \in 0 .. 7 /\ f = d + j
        BY <1>6, <2>1, <4>1
      <4>3. d + j < 8 * (n \div 8) /\ (d + j) % 8 = j
        BY <4>1, <4>2
      <4> QED BY <4>1, <4>2, <4>3
    <3> QED BY <3>4, <3>5, <3>6
  <2>2. CASE w # 8
    <3>1. DifferenceResult(w) = SignedWord(Difference(w) % WordSize(w), WordSize(w))
      BY <2>2 DEF DifferenceResult
    <3>2. Difference(w) \in 0 .. WordSize(w) - 1 /\ WordSize(w) \in Nat \ {0}
      BY DifferenceTells
    <3>3. Difference(w) % WordSize(w) = Difference(w)
      <4>1. PICK s \in Nat \ {0} : s = WordSize(w)
        BY <3>2
      <4>2. PICK d \in 0 .. s - 1 : d = Difference(w)
        BY <3>2, <4>1
      <4>3. (s * 0 + d) % s = d /\ s * 0 + d = d
        BY RemainderUnique
      <4> QED BY <4>1, <4>2, <4>3
    <3>4. DifferenceResult(w) # 0
      <4>1. SignedWord(Difference(w), WordSize(w)) # 0
        BY <3>2, SignedZero
      <4> QED BY <3>1, <3>3, <4>1
    <3>5. ~(f < 8 * (call.count \div 8))
      <4>1. env.count < 8
        BY <1>3, <2>2
      <4>2. PICK e \in Nat : e = 8 * (call.count \div 8)
        <5>1. \A n \in Nat : 8 * (n \div 8) \in Nat
          OBVIOUS
        <5> QED BY <1>2, <5>1
      <4> QED BY <1>2, <1>3, <1>6, <4>1, <4>2
    <3> QED BY <3>4, <3>5
  <2> QED BY <2>1, <2>2
<1>9. Decided(DifferenceResult(w))
  BY <1>2, <1>5, <1>6, <1>7, <1>8, FirstDecides
<1>10. Decided(env.result)'
  BY <1>1, <1>9 DEF Decided, SameAt
<1> QED BY <1>1, <1>10 DEF CompareInv, CompareLabels

\* Every block of the comparison keeps the invariant.
LEMMA CompareInvariant == CompareInv /\ CompareNext => CompareInv'
<1> SUFFICES ASSUME CompareInv, CompareNext PROVE CompareInv'
  OBVIOUS
<1>1. block # "returned" => env.count \in Nat
  BY DEF CompareInv, DoneInv
<1>2. /\ block # "returned" /\ call' = call /\ memory'.bytes = memory.bytes
      /\ memory' = [bytes |-> call'.bytes, trace |-> memory'.trace]
  <2>1. block # "returned" /\ call' = call /\ (memory' = memory \/ \E t : memory' = [memory EXCEPT !.trace = t])
    BY DEF CompareNext, compare_entry, compare_zero, compare_check_8, cmp_8, ret_8, recurse_8,
           compare_check_4, cmp_4, ret_4, recurse_4, cmp_1, ret_1, recurse_1, At, compare_chunk, recurse_compare
  <2>2. memory = [bytes |-> call.bytes, trace |-> memory.trace]
    BY DEF CompareInv
  <2> QED BY <2>1, <2>2
\* The blocks that only branch leave what was done alone, whatever they trace.
<1>3. ASSUME block' \in CompareLabels, block' # "returned", env' = env, CountInv',
             block' = "ret_8" => Difference(8) # 0, block' = "recurse_8" => Difference(8) = 0,
             block' = "ret_4" => Difference(4) # 0, block' = "recurse_4" => Difference(4) = 0,
             block' = "ret_1" => Difference(1) # 0, block' = "recurse_1" => Difference(1) = 0
      PROVE  CompareInv'
  <2>1. Difference(8)' = Difference(8) /\ Difference(4)' = Difference(4) /\ Difference(1)' = Difference(1)
    BY <1>2, <1>3, Zenon DEF Difference
  <2>2. DoneInv' /\ Alike'
    BY <1>2, <1>3 DEF CompareInv, DoneInv, Done, Alike, SameSoFar, SameAt
  <2> QED BY <1>2, <1>3, <2>1, <2>2 DEF CompareInv
<1>4. CASE compare_entry
  <2>1. /\ env' = env /\ block = "entry"
        /\ block' = IF env.count = 0 THEN "count_is_zero" ELSE "check_8"
    BY <1>4 DEF compare_entry, At, Branch, Goto
  <2>2. CountInv'
    BY <1>1, <2>1 DEF CountInv
  <2> QED BY <1>3, <2>1, <2>2 DEF CompareLabels
<1>5. CASE compare_zero
  <2>1. block = "count_is_zero" /\ block' = "returned" /\ env'.result = 0
    BY <1>5 DEF compare_zero, At, Ret, GotoWith
  <2>2. call.count \in Nat /\ SameSoFar(call.count)
    <3>1. call.count \in Nat
      BY CompareCallsAssumption DEF CompareInv
    <3>2. env.count = 0 /\ SameSoFar(Done)
      BY <2>1 DEF CompareInv, CountInv, Alike
    <3>3. Done = call.count
      BY <3>1, <3>2 DEF Done
    <3> QED BY <3>1, <3>2, <3>3
  <2>3. Decided(0)
    BY <2>2, NothingDiffers
  <2>4. Decided(env.result)'
    BY <1>2, <2>1, <2>3 DEF Decided, SameAt
  <2> QED BY <1>2, <2>1, <2>4 DEF CompareInv, CompareLabels
<1>6. CASE compare_check_8
  <2>1. /\ env' = env /\ block = "check_8"
        /\ block' = IF env.count >= 8 THEN "cmp_8" ELSE "check_4"
    BY <1>6 DEF compare_check_8, At, Branch, Goto
  <2>2. CountInv'
    BY <1>1, <2>1 DEF CompareInv, CountInv
  <2> QED BY <1>3, <2>1, <2>2 DEF CompareLabels
<1>7. CASE compare_check_4
  <2>1. /\ env' = env /\ block = "check_4"
        /\ block' = IF env.count >= 4 THEN "cmp_4" ELSE "cmp_1"
    BY <1>7 DEF compare_check_4, At, Branch, Goto
  <2>2. CountInv'
    BY <1>1, <2>1 DEF CompareInv, CountInv
  <2> QED BY <1>3, <2>1, <2>2 DEF CompareLabels
<1>8. CASE cmp_8
  <2>1. env' = env /\ block = "cmp_8" /\ block' = IF Difference(8) # 0 THEN "ret_8" ELSE "recurse_8"
    BY <1>8, Zenon DEF cmp_8, compare_chunk, At, Branch, Goto
  <2>2. CountInv'
    BY <1>1, <2>1 DEF CompareInv, CountInv
  <2> QED BY <1>3, <2>1, <2>2 DEF CompareLabels
<1>9. CASE cmp_4
  <2>1. env' = env /\ block = "cmp_4" /\ block' = IF Difference(4) # 0 THEN "ret_4" ELSE "recurse_4"
    BY <1>9, Zenon DEF cmp_4, compare_chunk, At, Branch, Goto
  <2>2. CountInv'
    BY <1>1, <2>1 DEF CompareInv, CountInv
  <2> QED BY <1>3, <2>1, <2>2 DEF CompareLabels
<1>10. CASE cmp_1
  <2>1. env' = env /\ block = "cmp_1" /\ block' = IF Difference(1) # 0 THEN "ret_1" ELSE "recurse_1"
    BY <1>10, Zenon DEF cmp_1, compare_chunk, At, Branch, Goto
  <2>2. CountInv'
    BY <1>1, <2>1 DEF CompareInv, CountInv
  <2> QED BY <1>3, <2>1, <2>2 DEF CompareLabels
<1>11. CASE recurse_8
  <2>1. block = "recurse_8" /\ env.count >= 8 /\ Difference(8) = 0 /\ recurse_compare(8) /\ call' = call
    BY <1>11 DEF recurse_8, At, CompareInv, CountInv
  <2> QED BY <2>1, RecurseInvariant
<1>12. CASE recurse_4
  <2>1. /\ block = "recurse_4" /\ env.count >= 4 /\ env.count < 8 /\ Difference(4) = 0
        /\ recurse_compare(4) /\ call' = call
    BY <1>12 DEF recurse_4, At, CompareInv, CountInv
  <2> QED BY <2>1, RecurseInvariant
<1>13. CASE recurse_1
  <2>1. /\ block = "recurse_1" /\ env.count >= 1 /\ env.count < 4 /\ Difference(1) = 0
        /\ recurse_compare(1) /\ call' = call
    BY <1>13 DEF recurse_1, At, CompareInv, CountInv
  <2> QED BY <2>1, RecurseInvariant
<1>14. CASE ret_8
  <2>1. /\ block = "ret_8" /\ env.count >= 8 /\ Difference(8) # 0
        /\ Ret(DifferenceResult(8)) /\ memory' = memory /\ call' = call
    BY <1>14 DEF ret_8, At, CompareInv, CountInv
  <2> QED BY <2>1, ReturnInvariant
<1>15. CASE ret_4
  <2>1. /\ block = "ret_4" /\ env.count >= 4 /\ env.count < 8 /\ Difference(4) # 0
        /\ Ret(DifferenceResult(4)) /\ memory' = memory /\ call' = call
    BY <1>15 DEF ret_4, At, CompareInv, CountInv
  <2> QED BY <2>1, ReturnInvariant
<1>16. CASE ret_1
  <2>1. /\ block = "ret_1" /\ env.count >= 1 /\ env.count < 4 /\ Difference(1) # 0
        /\ Ret(DifferenceResult(1)) /\ memory' = memory /\ call' = call
    BY <1>16 DEF ret_1, At, CompareInv, CountInv
  <2> QED BY <2>1, ReturnInvariant
<1> QED BY <1>4, <1>5, <1>6, <1>7, <1>8, <1>9, <1>10, <1>11, <1>12, <1>13, <1>14, <1>15, <1>16 DEF CompareNext

\* A step is one of the function that was called.
LEMMA ChunkNextInvariant == ChunkInv /\ [ChunkNext]_vars => ChunkInv'
<1> SUFFICES ASSUME ChunkInv, [ChunkNext]_vars PROVE ChunkInv'
  OBVIOUS
<1>1. CopyInv => call.fn = "chunked_copy"
  BY CopyCallsAssumption DEF CopyInv
<1>2. CompareInv => call.fn = "chunked_compare"
  BY CompareCallsAssumption DEF CompareInv
<1>3. CASE CopyNext
  <2>1. call.fn = "chunked_copy"
    BY <1>3 DEF CopyNext, copy_entry, copy_zero, copy_check_8, copy_8, copy_check_4, copy_4, copy_1, At
  <2>2. CopyInv
    BY <1>2, <2>1 DEF ChunkInv
  <2> QED BY <1>3, <2>2, CopyInvariant DEF ChunkInv
<1>4. CASE CompareNext
  <2>1. call.fn = "chunked_compare"
    BY <1>4 DEF CompareNext, compare_entry, compare_zero, compare_check_8, cmp_8, ret_8, recurse_8,
                compare_check_4, cmp_4, ret_4, recurse_4, cmp_1, ret_1, recurse_1, At
  <2>2. CompareInv
    BY <1>1, <2>1 DEF ChunkInv
  <2> QED BY <1>4, <2>2, CompareInvariant DEF ChunkInv
<1>5. CASE UNCHANGED vars
  <2>1. CopyInv => CopyInv'
    BY <1>5 DEF vars, CopyInv, DoneInv, CountInv, Done, CopyIsExact, Returned, GreedyInv, Planned, Eights, Fours, Ones
  <2>2. CompareInv => CompareInv'
    <3>1. /\ DoneInv' = DoneInv /\ CountInv' = CountInv /\ Alike' = Alike
          /\ Difference(8)' = Difference(8) /\ Difference(4)' = Difference(4) /\ Difference(1)' = Difference(1)
          /\ Decided(env.result)' = Decided(env.result)
      BY <1>5, Zenon DEF vars, DoneInv, CountInv, Done, Alike, SameSoFar, SameAt, Difference, Decided
    <3> QED BY <1>5, <3>1 DEF vars, CompareInv
  <2> QED BY <2>1, <2>2 DEF ChunkInv
<1> QED BY <1>3, <1>4, <1>5 DEF ChunkNext

\* The invariant holds throughout.
LEMMA ChunkInvariantHolds == ChunkSpec => []ChunkInv
BY ChunkInitInvariant, ChunkNextInvariant, PTL DEF ChunkSpec

(***************************************************************************)
(* The theorems                                                            *)
(***************************************************************************)
\* What the invariant says of the bytes copied.
LEMMA ChunkCopied == ChunkInv => CopyIsExact
BY CompareCallsAssumption DEF ChunkInv, CopyInv, CompareInv, CopyIsExact

\* However long the region, a copy that has returned has copied it whole, each byte as it was
\* when the call began, and has touched nothing else.
THEOREM CopyExact == ChunkSpec => []CopyIsExact
BY ChunkCopied, ChunkInvariantHolds, PTL

\* What the invariant says of the trace.
LEMMA ChunkTraced == ChunkInv => TraceIsPlan
<1>1. ASSUME ChunkInv, call.fn = "chunked_copy", Returned PROVE TraceIsPlan
  <2>1. CopyInv
    BY <1>1, CompareCallsAssumption DEF ChunkInv, CompareInv
  <2>2. call.count \in Nat /\ ArenaSize \in Nat
    BY <2>1, CopyCallsAssumption DEF CopyInv
  <2>3. /\ env.count = 0
        /\ env.trace_index \in Nat
        /\ \/ env.trace_index <= Eights /\ env.count = call.count - 8 * env.trace_index
           \/ /\ env.trace_index >= Eights + Fours
              /\ env.count = Ones - (env.trace_index - (Eights + Fours))
        /\ memory.trace = [i \in Address |-> IF i < env.trace_index THEN Planned(i) ELSE 0]
    BY <1>1, <2>1 DEF CopyInv, GreedyInv, Returned
  <2>4. /\ Eights \in Nat /\ Fours \in {0, 1} /\ Ones \in 0 .. 3
        /\ call.count = 8 * Eights + 4 * Fours + Ones
    BY <2>2, PlanTotal DEF Eights, Fours, Ones
  <2>5. env.trace_index = Eights + Fours + Ones
    BY <2>2, <2>3, <2>4, PlanEnd
  <2>6. ASSUME NEW i \in Address
        PROVE  memory.trace[i] = CASE i < Eights -> 8
                                   [] i >= Eights /\ i < Eights + Fours -> 4
                                   [] i >= Eights + Fours /\ i < env.trace_index -> 1
                                   [] OTHER -> 0
    <3>1. memory.trace[i] = IF i < env.trace_index THEN Planned(i) ELSE 0
      BY <2>3
    <3>2. i \in Nat
      BY <2>2 DEF Address
    <3>3. CASE i < Eights
      BY <2>4, <2>5, <3>1, <3>2, <3>3 DEF Planned
    <3>4. CASE i >= Eights /\ i < Eights + Fours
      BY <2>4, <2>5, <3>1, <3>2, <3>4 DEF Planned
    <3>5. CASE i >= Eights + Fours /\ i < env.trace_index
      BY <2>4, <2>5, <3>1, <3>2, <3>5 DEF Planned
    <3>6. CASE i >= env.trace_index
      BY <2>4, <2>5, <3>1, <3>2, <3>6 DEF Planned
    <3> QED BY <2>3, <2>4, <3>2, <3>3, <3>4, <3>5, <3>6
  <2> QED BY <2>5, <2>6 DEF TraceIsPlan, Eights, Fours, Ones
<1> QED BY <1>1 DEF TraceIsPlan

\* The trace of a finished copy is the greedy plan, however long the region.
THEOREM TracePlanned == ChunkSpec => []TraceIsPlan
BY ChunkTraced, ChunkInvariantHolds, PTL

\* What the invariant says of the accesses.
LEMMA ChunkAligned == ChunkInv => ChunksAligned
<1>1. ASSUME CopyInv PROVE ChunksAligned
  <2>1. call.fn = "chunked_copy" /\ call.dst \in Nat /\ call.src \in Nat /\ call.dst % 8 = 0 /\ call.src % 8 = 0
    BY <1>1, CopyCallsAssumption DEF CopyInv
  <2>2. Done \in Nat /\ env.dst = call.dst + Done /\ env.src = call.src + Done
    BY <1>1, <2>1 DEF CopyInv, DoneInv, CopyIsExact, Done
  <2>3. /\ block = "copy_8" => Done % 8 = 0
        /\ block = "copy_4" => Done % 4 = 0
        /\ block # "cmp_8" /\ block # "cmp_4"
    BY <1>1 DEF CopyInv, CountInv, DoneInv, CopyLabels
  <2> QED BY <2>1, <2>2, <2>3, AlignedSum DEF ChunksAligned
<1>2. ASSUME CompareInv PROVE ChunksAligned
  <2>1. call.left \in Nat /\ call.right \in Nat /\ call.left % 8 = 0 /\ call.right % 8 = 0
    BY <1>2, CompareCallsAssumption DEF CompareInv
  <2>2. block # "returned" => Done \in Nat /\ env.left = call.left + Done /\ env.right = call.right + Done
    BY <1>2 DEF CompareInv, DoneInv, Alike
  <2>3. /\ block = "cmp_8" => Done % 8 = 0
        /\ block = "cmp_4" => Done % 4 = 0
        /\ block # "copy_8" /\ block # "copy_4"
    BY <1>2 DEF CompareInv, CountInv, DoneInv, CompareLabels
  <2> QED BY <2>1, <2>2, <2>3, AlignedSum DEF ChunksAligned
<1> QED BY <1>1, <1>2 DEF ChunkInv

\* Every wide access of either function is at the alignment it promises LLVM.
THEOREM AlignedAccesses == ChunkSpec => []ChunksAligned
BY ChunkAligned, ChunkInvariantHolds, PTL

\* Together: the chunks add up to the copy, aligned, and as the trace tells.
THEOREM CopyMade == ChunkSpec => []ChunksMakeTheCopy
BY CopyExact, AlignedAccesses, TracePlanned, PTL DEF ChunksMakeTheCopy

\* What the invariant says of a comparison's result.
LEMMA ChunkCompared == ChunkInv => CompareDecides
<1> SUFFICES ASSUME ChunkInv, call.fn = "chunked_compare", Returned PROVE CompareDecides
  BY DEF CompareDecides
<1>1. CompareInv
  BY CopyCallsAssumption DEF ChunkInv, CopyInv
<1>2. Decided(env.result)
  BY <1>1 DEF CompareInv, Returned
<1> QED BY <1>2 DEF Decided, SameAt, CompareDecides

\* Whatever the regions' length and contents, a comparison returns zero when they are equal, and
\* otherwise only when the first difference lies where the truncation to i32 drops it.
THEOREM ComparesCorrect == ChunkSpec => []CompareDecides
BY ChunkCompared, ChunkInvariantHolds, PTL

(***************************************************************************)
(* Arenas of any number of nodes.  The arena is the history of the appends *)
(* because a node is written whole behind everything there was; a walk is  *)
(* right because what it holds is always the node as far from the newest   *)
(* as it has counted, and it has not met the end before.                   *)
(***************************************************************************)

Length == Len(call.appended)
Functions_ == {"append", "count", "get_nth"}

ShapeInv ==
  /\ call.fn \in Functions_
  /\ block \in ListLabels
  /\ call.fn = "append" => block \in {"entry", "returned"}
  /\ call.fn = "count" => block \in {"entry", "head", "body", "exit", "returned"}
  /\ call.appended \in Seq(NodeValues) /\ Length <= MaxNodes
  /\ call.fn = "append" => Length > 0 /\ call.value = call.appended[Length]
  /\ call.fn = "get_nth" => call.n \in Int
  /\ memory \in [cells : [Offsets -> Int], here : Nat, latest : Nat]

\* The node get_nth is asked for, counted from the newest.
Nth(n) == IF n \in 0 .. Length - 1 THEN DataOffset(Length - n) ELSE -1

\* Where a walk is: env.offset is the node env.count back from the newest.
WalkInv ==
  /\ call.fn # "append" /\ block = "entry" => env.latest = memory.latest
  /\ block \in {"head", "body", "found", "continue"} \/ (call.fn = "count" /\ block = "exit") =>
       env.count \in 0 .. Length /\ env.offset = DataOffset(Length - env.count)
  /\ block \in {"body", "found", "continue"} => env.count < Length
  /\ call.fn = "count" /\ block = "exit" => env.count = Length
  /\ call.fn = "get_nth" /\ block \in {"head", "body"} => call.n \notin 0 .. env.count - 1
  /\ block = "found" => call.n = env.count
  /\ block = "continue" => call.n \notin 0 .. env.count
  /\ call.fn = "get_nth" /\ block = "exit" => env.result = Nth(call.n)

ListInv == ShapeInv /\ ArenaIsHistory /\ WalkInv /\ ListResults

(***************************************************************************)
(* Offsets                                                                 *)
(***************************************************************************)
\* The cells of the k-th node lie in the arena (ByteArena, FIRST_NODE_OFFSET).
LEMMA NodeOffsets ==
  ASSUME NEW k \in 1 .. MaxNodes
  PROVE  /\ DataOffset(k) = 8 * k - 4
         /\ DataOffset(k) \in Offsets /\ DataOffset(k) - CELL_BYTES \in Offsets
         /\ DataOffset(k) - CELL_BYTES = 8 * k - 8
<1>1. MaxNodes \in Nat /\ k \in Nat /\ k > 0
  BY MaxNodesAssumption
<1>2. DataOffset(k) = 8 * k - 4
  BY <1>1 DEF DataOffset, NODE_BYTES, CELL_BYTES
<1>3. 2 * k - 1 \in 0 .. 2 * MaxNodes - 1 /\ 8 * k - 4 = 4 * (2 * k - 1)
  BY <1>1
<1>4. 2 * k - 2 \in 0 .. 2 * MaxNodes - 1 /\ 8 * k - 8 = 4 * (2 * k - 2)
  BY <1>1
<1>5. 8 * k - 4 \in Offsets
  BY <1>3 DEF Offsets, CELL_BYTES
<1>6. 8 * k - 8 \in Offsets
  BY <1>4 DEF Offsets, CELL_BYTES
<1>7. DataOffset(k) - CELL_BYTES = 8 * k - 8
  BY <1>1, <1>2 DEF CELL_BYTES
<1> QED BY <1>2, <1>5, <1>6, <1>7

\* An offset tells how many nodes are left, NULL that there is none.
LEMMA OffsetIsNull ==
  ASSUME NEW k \in Nat
  PROVE  DataOffset(k) \in Nat /\ (DataOffset(k) = NULL_OFFSET <=> k = 0)
BY DEF DataOffset, NULL_OFFSET, NODE_BYTES, CELL_BYTES

(***************************************************************************)
(* The invariant                                                           *)
(***************************************************************************)
\* The arena begins empty (ByteArena.__init__).
LEMMA ListInitInvariant == ListInit => ListInv
<1> SUFFICES ASSUME ListInit PROVE ListInv
  OBVIOUS
<1>1. /\ call = [fn |-> "get_nth", n |-> 0, appended |-> <<>>]
      /\ block = "entry" /\ env = [latest |-> 0]
      /\ memory = [cells |-> [o \in Offsets |-> 0], here |-> 4, latest |-> 0]
  BY DEF ListInit, NULL_OFFSET, FIRST_NODE_OFFSET, CELL_BYTES
<1>2. Length = 0 /\ Stored = 0
  BY <1>1 DEF Length, Stored
<1>3. ShapeInv
  BY <1>1, <1>2, MaxNodesAssumption DEF ShapeInv, Functions_, ListLabels
<1>4. ArenaIsHistory
  BY <1>1, <1>2 DEF ArenaIsHistory, DataOffset, NULL_OFFSET, NODE_BYTES, CELL_BYTES
<1>5. WalkInv /\ ListResults
  BY <1>1 DEF WalkInv, ListResults, Returned
<1> QED BY <1>3, <1>4, <1>5 DEF ListInv

\* A new call finds the arena as the last one left it (main's calls).
LEMMA ListCallerInvariant == ListInv /\ ListCaller => ListInv'
<1> SUFFICES ASSUME ListInv, ListCaller PROVE ListInv'
  OBVIOUS
<1>1. /\ call.fn \in Functions_ /\ block = "returned" /\ memory' = memory
      /\ block' = "entry" /\ env' = [latest |-> memory.latest]
  BY DEF ListCaller, CallAppend, CallCount, CallGetNth, ListIdle, Enter, GotoWith, Returned, Functions_
<1>2. /\ call.appended \in Seq(NodeValues) /\ Length <= MaxNodes /\ Length \in Nat
      /\ memory \in [cells : [Offsets -> Int], here : Nat, latest : Nat]
  BY DEF ListInv, ShapeInv, Length
<1>3. Stored = Length
  BY <1>1, <1>2 DEF Stored, Length
<1>4. /\ memory.latest = DataOffset(Length) /\ memory.here = DataOffset(Length + 1)
      /\ \A k \in 1 .. Length : /\ memory.cells[DataOffset(k)] = call.appended[k]
                                /\ memory.cells[DataOffset(k) - CELL_BYTES] = DataOffset(k - 1)
  BY <1>1, <1>3 DEF ListInv, ArenaIsHistory, previous_link, Functions_
<1>5. WalkInv' /\ ListResults'
  BY <1>1 DEF WalkInv, ListResults, Returned
<1>6. CASE CallAppend
  <2>1. PICK v \in NodeValues :
          /\ call' = [fn |-> "append", value |-> v, appended |-> Append(call.appended, v)]
          /\ Length < MaxNodes
    BY <1>6 DEF CallAppend, Enter, Length
  <2>2. /\ call'.appended \in Seq(NodeValues) /\ Length' = Length + 1
        /\ call'.appended[Length + 1] = v
        /\ \A k \in 1 .. Length : call'.appended[k] = call.appended[k]
    BY <1>2, <2>1 DEF Length
  <2>3. Stored' = Length
    BY <1>1, <1>2, <2>1, <2>2 DEF Stored, Length
  <2>4. ShapeInv'
    <3>1. Length' <= MaxNodes /\ Length' > 0
      BY <1>2, <2>1, <2>2, MaxNodesAssumption
    <3> QED BY <1>1, <1>2, <2>1, <2>2, <3>1 DEF ShapeInv, Functions_, ListLabels
  <2>5. ArenaIsHistory'
    BY <1>1, <1>4, <2>2, <2>3 DEF ArenaIsHistory, previous_link
  <2> QED BY <1>5, <2>4, <2>5 DEF ListInv
<1>7. CASE CallCount \/ CallGetNth
  <2>1. /\ call'.appended = call.appended /\ call'.fn \in {"count", "get_nth"}
        /\ call'.fn = "get_nth" => call'.n \in Int
    <3>1. CASE CallCount
      BY <3>1 DEF CallCount, Enter
    <3>2. CASE CallGetNth
      <4>1. PICK n \in -1 .. MaxNodes : call' = [fn |-> "get_nth", n |-> n, appended |-> call.appended]
        BY <3>2 DEF CallGetNth, Enter
      <4>2. n \in Int
        BY MaxNodesAssumption
      <4> QED BY <4>1, <4>2
    <3> QED BY <1>7, <3>1, <3>2
  <2>2. Length' = Length /\ Stored' = Length
    <3>1. Length' = Length /\ Length - 0 = Length
      BY <1>2, <2>1 DEF Length
    <3>2. Stored' = Length' - 0
      BY <2>1 DEF Length, Stored
    <3> QED BY <3>1, <3>2
  <2>3. ShapeInv'
    BY <1>1, <1>2, <2>1, <2>2 DEF ShapeInv, Functions_, ListLabels
  <2>4. ArenaIsHistory'
    BY <1>1, <1>4, <2>1, <2>2 DEF ArenaIsHistory, previous_link
  <2> QED BY <1>5, <2>3, <2>4 DEF ListInv
<1> QED BY <1>6, <1>7 DEF ListCaller

\* append writes the new node behind the others and leaves them alone (PreviousLinkListIR.append).
LEMMA AppendInvariant == ListInv /\ append_entry => ListInv'
<1> SUFFICES ASSUME ListInv, append_entry PROVE ListInv'
  OBVIOUS
<1>1. /\ call.fn = "append" /\ block = "entry" /\ call' = call
      /\ memory' = StoreNode(memory.here, call.value)
      /\ block' = "returned" /\ env' = [result |-> memory.here]
  BY DEF append_entry, At, Ret, GotoWith
<1>2. /\ call.appended \in Seq(NodeValues) /\ Length \in 1 .. MaxNodes /\ MaxNodes \in Nat
      /\ call.value = call.appended[Length] /\ call.value \in Int
      /\ memory \in [cells : [Offsets -> Int], here : Nat, latest : Nat]
  <2>1. /\ call.appended \in Seq(NodeValues) /\ Length <= MaxNodes /\ Length > 0 /\ MaxNodes \in Nat
        /\ call.value = call.appended[Length]
        /\ memory \in [cells : [Offsets -> Int], here : Nat, latest : Nat]
    BY <1>1, MaxNodesAssumption DEF ListInv, ShapeInv
  <2>2. Length \in Nat
    BY <2>1 DEF Length
  <2>3. Length \in 1 .. MaxNodes
    BY <2>1, <2>2
  <2>4. call.appended[Length] \in NodeValues
    BY <2>1, <2>3 DEF Length
  <2> QED BY <2>1, <2>3, <2>4, MaxNodesAssumption
<1>3. Stored = Length - 1 /\ Stored' = Length /\ Length' = Length
  BY <1>1, <1>2 DEF Stored, Length
<1>4. /\ memory.latest = DataOffset(Length - 1) /\ memory.here = DataOffset(Length)
      /\ \A k \in 1 .. Length - 1 : /\ memory.cells[DataOffset(k)] = call.appended[k]
                                    /\ memory.cells[DataOffset(k) - CELL_BYTES] = DataOffset(k - 1)
  <2>1. (Length - 1) + 1 = Length
    BY <1>2
  <2> QED BY <1>1, <1>3, <2>1 DEF ListInv, ArenaIsHistory, previous_link
<1>5. /\ memory.here = 8 * Length - 4 /\ memory.here - CELL_BYTES = 8 * Length - 8
      /\ memory.here \in Offsets /\ memory.here - CELL_BYTES \in Offsets
  BY <1>2, <1>4, NodeOffsets
<1> DEFINE node == memory.here
<1>6. /\ memory'.cells = [memory.cells EXCEPT ![node - CELL_BYTES] = memory.latest, ![node] = call.value]
      /\ memory'.here = node + NODE_BYTES /\ memory'.latest = node
      /\ memory' \in [cells : [Offsets -> Int], here : Nat, latest : Nat]
  <2>1. memory' = [memory EXCEPT !.cells = [memory.cells EXCEPT ![node - CELL_BYTES] = memory.latest, ![node] = call.value],
                                 !.here = node + NODE_BYTES, !.latest = node]
    BY <1>1, <1>2 DEF StoreNode
  <2>2. /\ memory'.cells = [memory.cells EXCEPT ![node - CELL_BYTES] = memory.latest, ![node] = call.value]
        /\ memory'.here = node + NODE_BYTES /\ memory'.latest = node
        /\ memory' = [cells |-> memory'.cells, here |-> memory'.here, latest |-> memory'.latest]
    BY <1>2, <2>1
  <2>3. node \in Nat /\ node + NODE_BYTES \in Nat /\ memory.latest \in Nat
    BY <1>2 DEF NODE_BYTES, CELL_BYTES
  <2>4. memory'.cells \in [Offsets -> Int]
    <3>1. memory.cells \in [Offsets -> Int] /\ memory.latest \in Int
      BY <1>2, <2>3
    <3>2. [memory.cells EXCEPT ![node - CELL_BYTES] = memory.latest] \in [Offsets -> Int]
      BY <3>1
    <3> QED BY <1>2, <2>2, <3>2
  <2> QED BY <2>2, <2>3, <2>4
<1>7. memory'.cells[node - CELL_BYTES] = memory.latest /\ memory'.cells[node] = call.value
  <2>1. node # node - CELL_BYTES
    BY <1>2, <1>5
  <2> QED BY <1>2, <1>5, <1>6, <2>1
<1>8. ASSUME NEW k \in 1 .. Length - 1
      PROVE  /\ memory'.cells[DataOffset(k)] = call.appended[k]
             /\ memory'.cells[DataOffset(k) - CELL_BYTES] = DataOffset(k - 1)
  <2>1. k \in 1 .. MaxNodes
    BY <1>2
  <2>2. /\ DataOffset(k) = 8 * k - 4 /\ DataOffset(k) - CELL_BYTES = 8 * k - 8
        /\ DataOffset(k) \in Offsets /\ DataOffset(k) - CELL_BYTES \in Offsets
    BY <2>1, NodeOffsets
  <2>3. 8 * k - 4 < 8 * Length - 8 /\ 8 * k - 8 < 8 * k - 4 /\ 8 * Length - 8 < 8 * Length - 4
    BY <1>2
  <2>4. /\ DataOffset(k) # node /\ DataOffset(k) # node - CELL_BYTES
        /\ DataOffset(k) - CELL_BYTES # node /\ DataOffset(k) - CELL_BYTES # node - CELL_BYTES
    BY <1>2, <1>5, <2>2, <2>3
  <2>5. /\ memory'.cells[DataOffset(k)] = memory.cells[DataOffset(k)]
        /\ memory'.cells[DataOffset(k) - CELL_BYTES] = memory.cells[DataOffset(k) - CELL_BYTES]
    BY <1>2, <1>6, <2>2, <2>4
  <2> QED BY <1>4, <2>5
<1>9. ArenaIsHistory'
  <2>1. memory'.latest = DataOffset(Length)
    BY <1>4, <1>6
  <2>2. memory'.here = DataOffset(Length + 1)
    BY <1>2, <1>5, <1>6 DEF DataOffset, NODE_BYTES, CELL_BYTES
  <2>3. ASSUME NEW k \in 1 .. Length
        PROVE  /\ memory'.cells[DataOffset(k)] = call.appended[k]
               /\ memory'.cells[DataOffset(k) - CELL_BYTES] = DataOffset(k - 1)
    <3>1. k = Length \/ k \in 1 .. Length - 1
      BY <1>2
    <3> QED BY <1>2, <1>4, <1>7, <1>8, <3>1
  <2> QED BY <1>1, <1>3, <2>1, <2>2, <2>3 DEF ArenaIsHistory, previous_link
<1>10. ShapeInv'
  BY <1>1, <1>2, <1>3, <1>6 DEF ListInv, ShapeInv, ListLabels
<1>11. WalkInv'
  BY <1>1 DEF WalkInv
<1>12. ListResults'
  BY <1>1, <1>4 DEF ListResults, Returned, Length
<1> QED BY <1>9, <1>10, <1>11, <1>12 DEF ListInv

\* What a walk knows of the arena: the newest node, and the link of each.
LEMMA WalkFacts ==
  ASSUME ListInv, call.fn \in {"count", "get_nth"}
  PROVE  /\ Length \in 0 .. MaxNodes /\ Length \in Nat
         /\ memory.latest = DataOffset(Length)
         /\ \A k \in 1 .. Length : previous_link(DataOffset(k)) = DataOffset(k - 1)
<1>1. Stored = Length /\ Length \in Nat /\ Length <= MaxNodes /\ MaxNodes \in Nat
  <2>1. Length \in Nat /\ Length <= MaxNodes /\ MaxNodes \in Nat
    BY MaxNodesAssumption DEF ListInv, ShapeInv, Length
  <2>2. Stored = Length - 0
    BY DEF Stored, Length
  <2> QED BY <2>1, <2>2
<1> QED BY <1>1 DEF ListInv, ArenaIsHistory

\* A step of a walk leaves the arena and the appended values alone.
LEMMA WalkStep ==
  ASSUME ListInv, call.fn \in {"count", "get_nth"}, call' = call, memory' = memory,
         block' \in ListLabels, call.fn = "count" => block' \in {"entry", "head", "body", "exit", "returned"},
         WalkInv', ListResults'
  PROVE  ListInv'
<1>1. ShapeInv'
  BY DEF ListInv, ShapeInv, Length
<1>2. ArenaIsHistory'
  BY DEF ListInv, ArenaIsHistory, Stored, previous_link
<1> QED BY <1>1, <1>2 DEF ListInv

\* One node further is one link back.
LEMMA OneFurther ==
  ASSUME NEW k \in Nat, NEW n \in Nat, k < n
  PROVE  n - k \in 1 .. n /\ (n - k) - 1 = n - (k + 1) /\ k + 1 \in 0 .. n /\ n - k \in Nat
OBVIOUS

\* count reaches NULL when it has counted every node (PreviousLinkListIR.count).
LEMMA CountInvariant == ListInv /\ CountList => ListInv'
<1> SUFFICES ASSUME ListInv, CountList PROVE ListInv'
  OBVIOUS
<1>1. call.fn = "count" /\ call' = call /\ memory' = memory /\ Length' = Length
  BY DEF CountList, count_begin, count_head, count_previous, count_return, InList, At, Length
<1>2. /\ Length \in Nat /\ memory.latest = DataOffset(Length)
      /\ \A k \in 1 .. Length : previous_link(DataOffset(k)) = DataOffset(k - 1)
  BY <1>1, WalkFacts
<1>3. CASE count_begin
  <2>1. /\ block = "entry" /\ block' = "head" /\ env' = [offset |-> env.latest, count |-> 0]
    BY <1>3 DEF count_begin, InList, At, ToHead, GotoWith
  <2>2. env'.count = 0 /\ env'.offset = DataOffset(Length) /\ Length - 0 = Length
    BY <1>1, <1>2, <2>1 DEF ListInv, WalkInv
  <2>3. WalkInv'
    BY <1>1, <1>2, <2>1, <2>2 DEF WalkInv
  <2>4. ListResults'
    BY <2>1 DEF ListResults, Returned
  <2> QED BY <1>1, <2>1, <2>3, <2>4, WalkStep DEF ListLabels
<1>4. CASE count_head
  <2>1. /\ block = "head" /\ env' = env
        /\ block' = IF env.offset # NULL_OFFSET THEN "body" ELSE "exit"
    BY <1>4 DEF count_head, InList, At, Branch, Goto
  <2>2. env.count \in 0 .. Length /\ env.offset = DataOffset(Length - env.count)
    BY <2>1 DEF ListInv, WalkInv
  <2>3. Length - env.count \in Nat /\ (env.offset = NULL_OFFSET <=> env.count = Length)
    <3>1. Length - env.count \in Nat
      BY <1>2, <2>2
    <3>2. env.offset = NULL_OFFSET <=> Length - env.count = 0
      BY <2>2, <3>1, OffsetIsNull
    <3> QED BY <1>2, <2>2, <3>1, <3>2
  <2>4. WalkInv'
    BY <1>1, <1>2, <2>1, <2>2, <2>3 DEF WalkInv
  <2>5. ListResults'
    BY <2>1 DEF ListResults, Returned
  <2> QED BY <1>1, <2>1, <2>4, <2>5, WalkStep DEF ListLabels
<1>5. CASE count_previous
  <2>1. /\ block = "body" /\ block' = "head"
        /\ env' = [offset |-> previous_link(env.offset), count |-> env.count + 1]
    BY <1>5 DEF count_previous, InList, At, ToHead, GotoWith
  <2>2. env.count \in 0 .. Length /\ env.offset = DataOffset(Length - env.count) /\ env.count < Length
    BY <2>1 DEF ListInv, WalkInv
  <2>3. /\ Length - env.count \in 1 .. Length /\ (Length - env.count) - 1 = Length - (env.count + 1)
        /\ env.count + 1 \in 0 .. Length
    BY <1>2, <2>2, OneFurther
  <2>4. env'.count = env.count + 1 /\ env'.offset = DataOffset(Length - (env.count + 1))
    BY <1>2, <2>1, <2>2, <2>3
  <2>5. WalkInv'
    BY <1>1, <2>1, <2>3, <2>4 DEF WalkInv
  <2>6. ListResults'
    BY <2>1 DEF ListResults, Returned
  <2> QED BY <1>1, <2>1, <2>5, <2>6, WalkStep DEF ListLabels
<1>6. CASE count_return
  <2>1. block = "exit" /\ block' = "returned" /\ env' = [result |-> env.count]
    BY <1>6 DEF count_return, InList, At, Ret, GotoWith
  <2>2. env.count = Length
    BY <1>1, <2>1 DEF ListInv, WalkInv
  <2>3. WalkInv'
    BY <1>1, <2>1 DEF WalkInv
  <2>4. ListResults'
    BY <1>1, <2>1, <2>2 DEF ListResults, Length
  <2> QED BY <1>1, <2>1, <2>3, <2>4, WalkStep DEF ListLabels
<1> QED BY <1>3, <1>4, <1>5, <1>6 DEF CountList

\* get_nth stops at the node it is asked for, or at NULL past the oldest
\* (PreviousLinkListIR.get_nth_offset).
LEMMA NthInvariant == ListInv /\ GetNth => ListInv'
<1> SUFFICES ASSUME ListInv, GetNth PROVE ListInv'
  OBVIOUS
<1>1. call.fn = "get_nth" /\ call' = call /\ memory' = memory /\ Length' = Length
  BY DEF GetNth, nth_begin, nth_head, nth_body, nth_found, nth_continue, nth_return, InList, At, Length
<1>2. /\ Length \in Nat /\ memory.latest = DataOffset(Length) /\ call.n \in Int
      /\ \A k \in 1 .. Length : previous_link(DataOffset(k)) = DataOffset(k - 1)
  BY <1>1, WalkFacts DEF ListInv, ShapeInv
<1>n. \A n : Nth(n)' = Nth(n)
  BY <1>1 DEF Nth
<1>3. CASE nth_begin
  <2>1. /\ block = "entry" /\ block' = "head" /\ env' = [offset |-> env.latest, count |-> 0]
    BY <1>3 DEF nth_begin, InList, At, ToHead, GotoWith
  <2>2. env'.count = 0 /\ env'.offset = DataOffset(Length) /\ Length - 0 = Length
    BY <1>1, <1>2, <2>1 DEF ListInv, WalkInv
  <2>3. WalkInv'
    BY <1>1, <1>2, <2>1, <2>2 DEF WalkInv
  <2>4. ListResults'
    BY <2>1 DEF ListResults, Returned
  <2> QED BY <1>1, <2>1, <2>3, <2>4, WalkStep DEF ListLabels
<1>4. CASE nth_head
  <2>1. /\ block = "head"
        /\ IF env.offset # NULL_OFFSET THEN block' = "body" /\ env' = env
           ELSE block' = "exit" /\ env' = [result |-> -1]
    BY <1>4 DEF nth_head, InList, At, NthExit, Goto, GotoWith
  <2>2. env.count \in 0 .. Length /\ env.offset = DataOffset(Length - env.count) /\ call.n \notin 0 .. env.count - 1
    BY <1>1, <2>1 DEF ListInv, WalkInv
  <2>3. Length - env.count \in Nat /\ (env.offset = NULL_OFFSET <=> env.count = Length)
    <3>1. Length - env.count \in Nat
      BY <1>2, <2>2
    <3>2. env.offset = NULL_OFFSET <=> Length - env.count = 0
      BY <2>2, <3>1, OffsetIsNull
    <3> QED BY <1>2, <2>2, <3>1, <3>2
  <2>4. env.offset = NULL_OFFSET => Nth(call.n) = -1
    BY <2>2, <2>3 DEF Nth
  <2>5. WalkInv'
    <3>1. CASE env.offset = NULL_OFFSET
      BY <1>1, <1>n, <2>1, <2>4, <3>1 DEF WalkInv
    <3>2. CASE env.offset # NULL_OFFSET
      BY <1>1, <1>2, <2>1, <2>2, <2>3, <3>2 DEF WalkInv
    <3> QED BY <3>1, <3>2
  <2>6. ListResults'
    BY <2>1 DEF ListResults, Returned
  <2> QED BY <1>1, <2>1, <2>5, <2>6, WalkStep DEF ListLabels
<1>5. CASE nth_body
  <2>1. block = "body" /\ env' = env /\ block' = IF env.count = call.n THEN "found" ELSE "continue"
    BY <1>5 DEF nth_body, InList, At, Branch, Goto
  <2>2. /\ env.count \in 0 .. Length /\ env.offset = DataOffset(Length - env.count)
        /\ env.count < Length /\ call.n \notin 0 .. env.count - 1
    BY <1>1, <2>1 DEF ListInv, WalkInv
  <2>3. env.count # call.n => call.n \notin 0 .. env.count
    BY <1>2, <2>2
  <2>4. WalkInv'
    BY <1>1, <2>1, <2>2, <2>3 DEF WalkInv
  <2>5. ListResults'
    BY <2>1 DEF ListResults, Returned
  <2> QED BY <1>1, <2>1, <2>4, <2>5, WalkStep DEF ListLabels
<1>6. CASE nth_found
  <2>1. block = "found" /\ block' = "exit" /\ env' = [result |-> env.offset]
    BY <1>6 DEF nth_found, InList, At, NthExit, GotoWith
  <2>2. /\ env.count \in 0 .. Length /\ env.offset = DataOffset(Length - env.count)
        /\ env.count < Length /\ call.n = env.count
    BY <2>1 DEF ListInv, WalkInv
  <2>3. env.offset = Nth(call.n)
    <3>1. call.n \in 0 .. Length - 1
      BY <1>2, <2>2
    <3> QED BY <2>2, <3>1 DEF Nth
  <2>4. WalkInv'
    BY <1>1, <1>n, <2>1, <2>3 DEF WalkInv
  <2>5. ListResults'
    BY <2>1 DEF ListResults, Returned
  <2> QED BY <1>1, <2>1, <2>4, <2>5, WalkStep DEF ListLabels
<1>7. CASE nth_continue
  <2>1. /\ block = "continue" /\ block' = "head"
        /\ env' = [offset |-> previous_link(env.offset), count |-> env.count + 1]
    BY <1>7 DEF nth_continue, InList, At, ToHead, GotoWith
  <2>2. /\ env.count \in 0 .. Length /\ env.offset = DataOffset(Length - env.count)
        /\ env.count < Length /\ call.n \notin 0 .. env.count
    BY <2>1 DEF ListInv, WalkInv
  <2>3. /\ Length - env.count \in 1 .. Length /\ (Length - env.count) - 1 = Length - (env.count + 1)
        /\ env.count + 1 \in 0 .. Length /\ (env.count + 1) - 1 = env.count
    BY <1>2, <2>2, OneFurther
  <2>4. env'.count = env.count + 1 /\ env'.offset = DataOffset(Length - (env.count + 1))
    BY <1>2, <2>1, <2>2, <2>3
  <2>5. WalkInv'
    BY <1>1, <2>1, <2>2, <2>3, <2>4 DEF WalkInv
  <2>6. ListResults'
    BY <2>1 DEF ListResults, Returned
  <2> QED BY <1>1, <2>1, <2>5, <2>6, WalkStep DEF ListLabels
<1>8. CASE nth_return
  <2>1. block = "exit" /\ block' = "returned" /\ env' = [result |-> env.result]
    BY <1>8 DEF nth_return, InList, At, Ret, GotoWith
  <2>2. env.result = Nth(call.n)
    BY <1>1, <2>1 DEF ListInv, WalkInv
  <2>3. WalkInv'
    BY <1>1, <2>1 DEF WalkInv
  <2>4. ListResults'
    BY <1>1, <2>1, <2>2 DEF ListResults, Nth, Length
  <2> QED BY <1>1, <2>1, <2>3, <2>4, WalkStep DEF ListLabels
<1> QED BY <1>3, <1>4, <1>5, <1>6, <1>7, <1>8 DEF GetNth

\* Every step of the caller and the functions keeps the invariant.
LEMMA ListStep == ListInv /\ [ListNext]_vars => ListInv'
<1> SUFFICES ASSUME ListInv, [ListNext]_vars PROVE ListInv'
  OBVIOUS
<1>1. CASE ListCaller
  BY <1>1, ListCallerInvariant
<1>2. CASE ListBlocks
  BY <1>2, AppendInvariant, CountInvariant, NthInvariant DEF ListBlocks
<1>3. CASE UNCHANGED vars
  <2>1. call' = call /\ block' = block /\ env' = env /\ memory' = memory
    BY <1>3 DEF vars
  <2>2. ShapeInv' /\ WalkInv'
    BY <2>1 DEF ListInv, ShapeInv, WalkInv, Nth, Length
  <2>3. ArenaIsHistory' /\ ListResults'
    BY <2>1 DEF ListInv, ArenaIsHistory, ListResults, Stored, Returned, previous_link
  <2> QED BY <2>2, <2>3 DEF ListInv
<1> QED BY <1>1, <1>2, <1>3 DEF ListNext

\* The invariant holds throughout.
LEMMA ListInvariantHolds == ListSpec => []ListInv
BY ListInitInvariant, ListStep, PTL DEF ListSpec

(***************************************************************************)
(* The theorems                                                            *)
(***************************************************************************)
\* However many nodes, the arena is the history of the appends: each node holds its value and
\* links to the one before, and no call in between changes it.
THEOREM ArenaHistory == ListSpec => []ArenaIsHistory
<1>1. ListInv => ArenaIsHistory
  BY DEF ListInv
<1> QED BY <1>1, ListInvariantHolds, PTL

\* append, count and get_nth return what the appended sequence says, get_nth -1 past its end.
THEOREM ResultsCorrect == ListSpec => []ListResults
<1>1. ListInv => ListResults
  BY DEF ListInv
<1> QED BY <1>1, ListInvariantHolds, PTL

(***************************************************************************)
(* Bit fields of any offsets and widths that do not overlap, in storage of *)
(* any width: stores do not disturb each other or the bits of no field.    *)
(* The argument is bit by bit.  StoredBits says what either store leaves   *)
(* in one bit of the storage, which is all the invariant's step needs.     *)
(***************************************************************************)

BitCalls == [fn : BitFunctions, found : Int_(StorageBits),
             last : [FieldNames -> UNION {Int_(n) : n \in Nat}]]

BitInv ==
  /\ call \in BitCalls
  /\ memory \in Int_(StorageBits)
  /\ Returned
  /\ FieldsAreIndependent

(***************************************************************************)
(* Operators                                                               *)
(***************************************************************************)
\* What ctypes guarantees of one field (BoundBitField's offset and width).
LEMMA FieldFits ==
  ASSUME NEW f \in FieldNames
  PROVE  /\ bit_offset[f] \in Nat /\ bit_width[f] \in Nat
         /\ bit_offset[f] + bit_width[f] <= StorageBits
         /\ StorageBits \in Nat
BY BitFieldAssumption

\* A load reads the field's bits in place (BoundBitField.load).
LEMMA LoadedBits ==
  ASSUME NEW f \in FieldNames, NEW x
  PROVE  loaded(x, f) = [i \in Bits(bit_width[f]) |-> x[i + bit_offset[f]]]
<1>1. \A i \in Bits(bit_width[f]) : i \in Bits(StorageBits) /\ i + bit_offset[f] < StorageBits
  BY FieldFits DEF Bits
<1>2. \A i \in Bits(bit_width[f]) : lshr(x, StorageBits, bit_offset[f])[i] = x[i + bit_offset[f]]
  BY <1>1 DEF lshr
<1> QED BY <1>2 DEF loaded, trunc

\* A resized value has the width asked for (the trunc and zext of BoundBitField.store).
LEMMA ResizeType ==
  ASSUME NEW v \in Nat, NEW n \in Nat, NEW x \in Int_(v)
  PROVE  Resize(x, v, n) \in Int_(n)
<1>1. CASE v > n
  <2>1. \A i \in Bits(n) : x[i] \in BOOLEAN
    BY <1>1 DEF Int_, Bits
  <2> QED BY <1>1, <2>1 DEF Resize, trunc, Int_
<1>2. CASE ~(v > n)
  <2>1. ASSUME NEW i \in Bits(n) PROVE (IF i < v THEN x[i] ELSE FALSE) \in BOOLEAN
    <3>1. i < v => i \in Bits(v)
      BY DEF Bits
    <3>2. i < v => x[i] \in BOOLEAN
      BY <3>1 DEF Int_
    <3>3. CASE i < v
      BY <3>2, <3>3
    <3>4. CASE ~(i < v)
      BY <3>4
    <3> QED BY <3>3, <3>4
  <2> QED BY <1>2, <2>1 DEF Resize, zext, Int_
<1> QED BY <1>1, <1>2

\* A value shifted into place is FALSE outside its field, and its own bits inside.
LEMMA PositionedBits ==
  ASSUME NEW f \in FieldNames, NEW v \in ValueBits, NEW x \in Int_(v), NEW i \in Bits(StorageBits)
  PROVE  Positioned(x, v, f)[i] =
           IF i \in FieldBits(f) THEN Resize(x, v, bit_width[f])[i - bit_offset[f]] ELSE FALSE
<1> DEFINE y == Resize(x, v, bit_width[f])
<1> DEFINE wide == Resize(y, bit_width[f], StorageBits)
<1>1. ~(bit_width[f] > StorageBits)
  BY FieldFits
<1>2. wide = zext(y, bit_width[f], StorageBits)
  BY <1>1 DEF Resize
<1>3. Positioned(x, v, f)[i] = IF i >= bit_offset[f] THEN wide[i - bit_offset[f]] ELSE FALSE
  BY DEF Positioned, shl
<1>4. CASE i < bit_offset[f]
  <2>1. i \notin FieldBits(f) /\ ~(i >= bit_offset[f])
    BY <1>4, FieldFits DEF FieldBits, Bits
  <2> QED BY <1>3, <2>1
<1>5. CASE i >= bit_offset[f]
  <2>1. i - bit_offset[f] \in Bits(StorageBits)
    BY <1>5, FieldFits DEF Bits
  <2>2. wide[i - bit_offset[f]] =
          IF i - bit_offset[f] < bit_width[f] THEN y[i - bit_offset[f]] ELSE FALSE
    BY <1>2, <2>1 DEF zext
  <2>3. i - bit_offset[f] < bit_width[f] <=> i \in FieldBits(f)
    BY <1>5, FieldFits DEF FieldBits, Bits
  <2> QED BY <1>3, <1>5, <2>2, <2>3
<1>6. i < bit_offset[f] \/ i >= bit_offset[f]
  BY FieldFits DEF Bits
<1> QED BY <1>4, <1>5, <1>6

\* Both stores replace the bits of the field and keep every other (BoundBitField.store and the
\* lab's BoundLogicalField.store).
LEMMA StoredBits ==
  ASSUME NEW f \in FieldNames, NEW v \in ValueBits, NEW x \in Int_(v),
         NEW word \in Int_(StorageBits), NEW stored,
         stored = promoted_store(word, x, v, f) \/ stored = reified_store(word, x, v, f)
  PROVE  /\ stored \in Int_(StorageBits)
         /\ \A i \in Bits(StorageBits) :
              stored[i] = IF i \in FieldBits(f)
                          THEN Resize(x, v, bit_width[f])[i - bit_offset[f]] ELSE word[i]
<1> DEFINE y == Resize(x, v, bit_width[f])
<1> DEFINE p == Positioned(x, v, f)
<1>y. y \in Int_(bit_width[f])
  BY ResizeType, FieldFits, BitFieldAssumption
<1>1. \A i \in Bits(StorageBits) :
        /\ word[i] \in BOOLEAN
        /\ Outside(f)[i] = (i \notin FieldBits(f))
        /\ FieldMask(f)[i] = (i \in FieldBits(f))
  BY DEF Int_, Outside, FieldMask
<1>2. \A i \in Bits(StorageBits) : i \in FieldBits(f) => y[i - bit_offset[f]] \in BOOLEAN
  <2> SUFFICES ASSUME NEW i \in Bits(StorageBits), i \in FieldBits(f)
               PROVE  i - bit_offset[f] \in Bits(bit_width[f])
    BY <1>y DEF Int_
  <2> QED BY FieldFits DEF Bits, FieldBits
<1>3. \A i \in Bits(StorageBits) :
        p[i] = IF i \in FieldBits(f) THEN y[i - bit_offset[f]] ELSE FALSE
  BY PositionedBits
<1>4. /\ DOMAIN stored = Bits(StorageBits)
      /\ stored = [i \in Bits(StorageBits) |-> stored[i]]
  BY DEF promoted_store, reified_store, bit_or
<1>5. \A i \in Bits(StorageBits) :
        \/ stored[i] = ((word[i] /\ Outside(f)[i]) \/ (p[i] /\ FieldMask(f)[i]))
        \/ stored[i] = ((word[i] /\ Outside(f)[i]) \/ p[i])
  BY DEF promoted_store, reified_store, bit_or, bit_and
<1>6. ASSUME NEW i \in Bits(StorageBits)
      PROVE  stored[i] = IF i \in FieldBits(f) THEN y[i - bit_offset[f]] ELSE word[i]
  <2>1. CASE i \in FieldBits(f)
    <3>1. /\ Outside(f)[i] = FALSE /\ FieldMask(f)[i] = TRUE /\ p[i] = y[i - bit_offset[f]]
          /\ y[i - bit_offset[f]] \in BOOLEAN
      BY <1>1, <1>2, <1>3, <2>1
    <3>2. stored[i] = ((word[i] /\ FALSE) \/ (p[i] /\ TRUE)) \/ stored[i] = ((word[i] /\ FALSE) \/ p[i])
      BY <1>5, <3>1
    <3> HIDE DEF y, p
    <3> QED BY <2>1, <3>1, <3>2
  <2>2. CASE i \notin FieldBits(f)
    <3> HIDE DEF y, p
    <3>1. Outside(f)[i] = TRUE /\ FieldMask(f)[i] = FALSE /\ p[i] = FALSE /\ word[i] \in BOOLEAN
      <4>1. p[i] = FALSE
        BY <1>3, <2>2
      <4>2. Outside(f)[i] = TRUE
        BY <1>1, <2>2
      <4>3. FieldMask(f)[i] = FALSE
        <5>1. FieldMask(f)[i] = (i \in FieldBits(f))
          BY <1>1
        <5>2. (i \in FieldBits(f)) = FALSE
          BY <2>2
        <5> QED BY <5>1, <5>2
      <4>4. word[i] \in BOOLEAN
        BY <1>1
      <4> QED BY <4>1, <4>2, <4>3, <4>4
    <3>2. stored[i] = ((word[i] /\ TRUE) \/ (FALSE /\ FALSE)) \/ stored[i] = ((word[i] /\ TRUE) \/ FALSE)
      BY <1>5, <3>1
    <3> QED BY <2>2, <3>1, <3>2
  <2> QED BY <2>1, <2>2
<1>7. \A i \in Bits(StorageBits) : stored[i] \in BOOLEAN
  BY <1>1, <1>2, <1>6
<1>8. stored \in Int_(StorageBits)
  BY <1>4, <1>7 DEF Int_
<1> QED BY <1>6, <1>8

(***************************************************************************)
(* The invariant                                                           *)
(***************************************************************************)
\* A struct begins as it is found: every field holds what it held (the view of a caller's struct).
LEMMA BitInitInvariant == BitInit => BitInv
<1> SUFFICES ASSUME BitInit PROVE BitInv
  OBVIOUS
<1>1. PICK word \in Int_(StorageBits) :
        /\ call = [fn |-> "field_load", found |-> word, last |-> [f \in FieldNames |-> loaded(word, f)]]
        /\ block = "returned" /\ memory = word
  BY DEF BitInit
<1>2. \A f \in FieldNames : loaded(word, f) \in Int_(bit_width[f]) /\ bit_width[f] \in Nat
  <2> SUFFICES ASSUME NEW f \in FieldNames
               PROVE  \A i \in Bits(bit_width[f]) : word[i + bit_offset[f]] \in BOOLEAN
    BY LoadedBits, FieldFits DEF Int_
  <2> SUFFICES ASSUME NEW i \in Bits(bit_width[f]) PROVE i + bit_offset[f] \in Bits(StorageBits)
    BY DEF Int_
  <2> QED BY FieldFits DEF Bits
<1>3. [f \in FieldNames |-> loaded(word, f)] \in [FieldNames -> UNION {Int_(n) : n \in Nat}]
  BY <1>2
<1>4. call \in BitCalls
  BY <1>1, <1>3 DEF BitCalls, BitFunctions
<1>5. FieldsAreIndependent
  BY <1>1 DEF FieldsAreIndependent
<1> QED BY <1>1, <1>4, <1>5 DEF BitInv, Returned

\* A store keeps the invariant: its field holds the new value, the others are elsewhere.
LEMMA BitStoreInvariant ==
  ASSUME BitInv, NEW fn \in BitFunctions, NEW f \in FieldNames, NEW v \in ValueBits, NEW x \in Int_(v),
         call' = [call EXCEPT !.fn = fn, !.last[f] = Resize(x, v, bit_width[f])],
         memory' = promoted_store(memory, x, v, f) \/ memory' = reified_store(memory, x, v, f),
         block' = block
  PROVE  BitInv'
<1> DEFINE y == Resize(x, v, bit_width[f])
<1>1. /\ memory' \in Int_(StorageBits)
      /\ \A i \in Bits(StorageBits) :
           memory'[i] = IF i \in FieldBits(f) THEN y[i - bit_offset[f]] ELSE memory[i]
  BY StoredBits DEF BitInv
<1>y. y \in Int_(bit_width[f]) /\ bit_width[f] \in Nat
  BY ResizeType, FieldFits, BitFieldAssumption
<1>c. call \in BitCalls
  BY DEF BitInv
<1> HIDE DEF y
<1>2. /\ call'.fn = fn /\ call'.found = call.found
      /\ call'.last = [call.last EXCEPT ![f] = y]
  BY <1>c DEF BitCalls, y
<1>3. call.last \in [FieldNames -> UNION {Int_(n) : n \in Nat}]
  BY <1>c DEF BitCalls
<1>4. call'.last \in [FieldNames -> UNION {Int_(n) : n \in Nat}]
  BY <1>2, <1>3, <1>y
<1>5. call' \in BitCalls
  <2>1. call' = [fn |-> fn, found |-> call.found, last |-> [call.last EXCEPT ![f] = y]]
    BY <1>c DEF BitCalls, y
  <2>2. call.found \in Int_(StorageBits)
    BY <1>c DEF BitCalls
  <2> QED BY <2>1, <2>2, <1>2, <1>4 DEF BitCalls
<1>6. ASSUME NEW g \in FieldNames PROVE loaded(memory', g) = call'.last[g]
  <2>1. CASE g = f
    <3>1. \A i \in Bits(bit_width[f]) :
            /\ i + bit_offset[f] \in Bits(StorageBits)
            /\ i + bit_offset[f] \in FieldBits(f)
            /\ (i + bit_offset[f]) - bit_offset[f] = i
      BY FieldFits DEF Bits, FieldBits
    <3>2. \A i \in Bits(bit_width[f]) : memory'[i + bit_offset[f]] = y[i]
      BY <1>1, <3>1
    <3>3. loaded(memory', f) = [i \in Bits(bit_width[f]) |-> y[i]]
      BY <3>2, LoadedBits
    <3>4. y = [i \in Bits(bit_width[f]) |-> y[i]]
      BY <1>y DEF Int_
    <3>5. call'.last[f] = y
      BY <1>2, <1>3
    <3> QED BY <2>1, <3>3, <3>4, <3>5
  <2>2. CASE g # f
    <3>1. \A i \in Bits(bit_width[g]) :
            i + bit_offset[g] \in Bits(StorageBits) /\ i + bit_offset[g] \in FieldBits(g)
      BY FieldFits DEF Bits, FieldBits
    <3>2. FieldBits(f) \cap FieldBits(g) = {}
      BY <2>2, BitFieldAssumption
    <3>3. \A i \in Bits(bit_width[g]) : memory'[i + bit_offset[g]] = memory[i + bit_offset[g]]
      BY <1>1, <3>1, <3>2
    <3>4. loaded(memory', g) = loaded(memory, g)
      BY <3>3, LoadedBits
    <3>5. loaded(memory, g) = call.last[g]
      BY <1>c DEF BitInv, FieldsAreIndependent, BitCalls
    <3>6. call'.last[g] = call.last[g]
      BY <1>2, <1>3, <2>2
    <3> QED BY <3>4, <3>5, <3>6
  <2> QED BY <2>1, <2>2
<1>7. ASSUME NEW i \in Bits(StorageBits), \A g \in FieldNames : i \notin FieldBits(g)
      PROVE  memory'[i] = call'.found[i]
  <2>1. memory'[i] = memory[i]
    BY <1>1, <1>7
  <2>2. memory[i] = call.found[i]
    BY <1>7, <1>c DEF BitInv, FieldsAreIndependent, BitCalls
  <2> QED BY <1>2, <2>1, <2>2
<1>8. FieldsAreIndependent'
  BY <1>6, <1>7 DEF FieldsAreIndependent
<1> QED BY <1>1, <1>5, <1>8 DEF BitInv, Returned

\* Every call of the struct's fields keeps the invariant.
LEMMA BitNextInvariant == BitInv /\ [BitNext]_vars => BitInv'
<1> SUFFICES ASSUME BitInv, [BitNext]_vars PROVE BitInv'
  OBVIOUS
<1>1. CASE LoadField
  <2>1. call' = [call EXCEPT !.fn = "field_load"] /\ memory' = memory /\ block' = block
    BY <1>1 DEF LoadField, InvokeBits
  <2>2. call \in BitCalls
    BY DEF BitInv
  <2>3. call' \in BitCalls /\ call'.found = call.found /\ call'.last = call.last
    BY <2>1, <2>2 DEF BitCalls, BitFunctions
  <2>4. call.fn \in BitFunctions
    BY <2>2 DEF BitCalls
  <2> QED BY <2>1, <2>3, <2>4 DEF BitInv, Returned, FieldsAreIndependent
<1>2. CASE PromotedStore
  <2>1. PICK f \in FieldNames, v \in ValueBits : \E x \in Int_(v) :
          /\ call' = [call EXCEPT !.fn = "promoted_store", !.last[f] = Resize(x, v, bit_width[f])]
          /\ memory' = promoted_store(memory, x, v, f) /\ block' = block
    BY <1>2 DEF PromotedStore, StoreField, InvokeBits
  <2>2. "promoted_store" \in BitFunctions
    BY DEF BitFunctions
  <2> QED BY <2>1, <2>2, BitStoreInvariant
<1>3. CASE ReifiedStore
  <2>1. PICK f \in FieldNames, v \in ValueBits : \E x \in Int_(v) :
          /\ call' = [call EXCEPT !.fn = "reified_store", !.last[f] = Resize(x, v, bit_width[f])]
          /\ memory' = reified_store(memory, x, v, f) /\ block' = block
    BY <1>3 DEF ReifiedStore, StoreField, InvokeBits
  <2>2. "reified_store" \in BitFunctions
    BY DEF BitFunctions
  <2> QED BY <2>1, <2>2, BitStoreInvariant
<1>4. CASE UNCHANGED vars
  BY <1>4 DEF BitInv, Returned, FieldsAreIndependent, vars
<1> QED BY <1>1, <1>2, <1>3, <1>4 DEF BitNext

\* For storage of any width and fields anywhere in it, every field holds what was last stored in
\* it by either emitter, and the bits of no field are as they were found.
THEOREM FieldsIndependent == BitSpec => []FieldsAreIndependent
<1>1. BitInv => FieldsAreIndependent
  BY DEF BitInv
<1> QED BY <1>1, BitInitInvariant, BitNextInvariant, PTL DEF BitSpec

(***************************************************************************)
(* Walks over a list.  The two phis of the loop header tell one place: the *)
(* cursor is at the node that count nodes come before, and index_of_value  *)
(* has found none of those.                                                *)
(***************************************************************************)
Walked ==
  /\ env.count \in 0 .. Len(call.values)
  /\ env.cursor = IF env.count = Len(call.values) THEN NullNode ELSE env.count + 1

\* index_of_value has seen n nodes and not the value.
NotYet(n) ==
  call.fn = "index_of_value" => \A k \in 1 .. n : call.values[k] # call.needle

\* The place index_of_value is asked for.
IsPlace(r) ==
  \/ r = -1 /\ NotYet(Len(call.values))
  \/ /\ r \in 0 .. Len(call.values) - 1
     /\ NotYet(r) /\ call.values[r + 1] = call.needle

ChainInv ==
  /\ call \in WalkCalls
  /\ WalkTypeOK
  /\ block = "entry" => env.head = IF call.values = <<>> THEN NullNode ELSE 1
  /\ block \in {"loop_header", "body", "found", "advance"} => Walked /\ NotYet(env.count)
  /\ block \in {"body", "found", "advance"} => env.count < Len(call.values)
  /\ block = "found" => call.values[env.count + 1] = call.needle
  /\ block = "advance" => call.values[env.count + 1] # call.needle
  /\ block = "not_found" => NotYet(Len(call.values))
  /\ block = "exit" => IF call.fn = "count_nodes" THEN env.count = Len(call.values)
                                                  ELSE IsPlace(env.result)
  /\ Returned => IF call.fn = "count_nodes" THEN env.result = Len(call.values)
                                            ELSE IsPlace(env.result)

\* The call finds its list laid out.
LEMMA ChainInit == WalkInit => ChainInv
<1> SUFFICES ASSUME WalkInit PROVE ChainInv
  OBVIOUS
<1>1. /\ call \in WalkCalls /\ block = "entry" /\ memory = NodesOf(call.values)
      /\ env = [head |-> IF call.values = <<>> THEN NullNode ELSE 1]
  BY DEF WalkInit
<1>2. DOMAIN env = {"head"} /\ env.head = IF call.values = <<>> THEN NullNode ELSE 1
  BY <1>1
<1> QED BY <1>1, <1>2 DEF ChainInv, WalkTypeOK, WalkLabels, Returned

\* What the caller laid out is read back: values, and links in the order of the list.
LEMMA ChainNodes ==
  ASSUME ChainInv
  PROVE  /\ call.values \in Seq(Int) /\ Len(call.values) \in Nat
         /\ call.fn \in {"count_nodes", "index_of_value"}
         /\ \A k \in 1 .. Len(call.values) :
              /\ NodeValue(k) = call.values[k]
              /\ NodeNext(k) = IF k = Len(call.values) THEN NullNode ELSE k + 1
<1>1. /\ call.values \in Seq(Int) /\ Len(call.values) \in Nat
      /\ call.fn \in {"count_nodes", "index_of_value"}
  BY WalkCallsAssumption DEF ChainInv
<1>2. memory = NodesOf(call.values)
  BY <1>1 DEF ChainInv, WalkTypeOK
<1> QED BY <1>1, <1>2 DEF NodesOf, NodeValue, NodeNext

\* The edges into the header keep the place and the count together.
LEMMA ChainHeader ==
  ASSUME ChainInv, call' = call, memory' = memory, NEW cursor, NEW count, Header(cursor, count),
         count \in 0 .. Len(call.values),
         cursor = IF count = Len(call.values) THEN NullNode ELSE count + 1,
         NotYet(count)
  PROVE  ChainInv'
<1>1. /\ block' = "loop_header" /\ DOMAIN env' = {"cursor", "count"}
      /\ env'.cursor = cursor /\ env'.count = count
  BY DEF Header, GotoWith
<1>2. Walked' /\ NotYet(env.count)'
  BY <1>1 DEF Walked, NotYet
<1>3. WalkTypeOK'
  BY <1>1 DEF ChainInv, WalkTypeOK, WalkLabels
<1>4. call' \in WalkCalls
  BY DEF ChainInv
<1> QED BY <1>1, <1>2, <1>3, <1>4 DEF ChainInv, Returned

\* Every block of the two functions keeps the invariant.
LEMMA ChainNext == ChainInv /\ WalkNext => ChainInv'
<1> SUFFICES ASSUME ChainInv, WalkNext PROVE ChainInv'
  OBVIOUS
<1>1. /\ call.values \in Seq(Int) /\ Len(call.values) \in Nat
      /\ call.fn \in {"count_nodes", "index_of_value"}
      /\ \A k \in 1 .. Len(call.values) :
           /\ NodeValue(k) = call.values[k]
           /\ NodeNext(k) = IF k = Len(call.values) THEN NullNode ELSE k + 1
  BY ChainNodes
<1>2. call' = call /\ memory' = memory
  BY DEF WalkNext, CountNodes, IndexOfValue, count_entry, count_header, count_body, count_exit,
         index_entry, index_header, index_body, index_found, index_advance, index_not_found,
         index_exit, InWalk, At
<1>3. call' \in WalkCalls
  BY <1>2 DEF ChainInv
<1>4. ASSUME block' \in WalkLabels, env' = env PROVE WalkTypeOK'
  BY <1>2, <1>4 DEF ChainInv, WalkTypeOK
<1>5. ASSUME block \in {"body", "found", "advance"}, Walked, env.count < Len(call.values)
      PROVE  env.cursor = env.count + 1 /\ env.cursor \in 1 .. Len(call.values)
  BY <1>1, <1>5 DEF Walked
<1>6. CASE count_entry \/ index_entry
  <2>1. block = "entry" /\ Header(env.head, 0)
    BY <1>6 DEF count_entry, index_entry, InWalk, At
  <2>2. env.head = IF 0 = Len(call.values) THEN NullNode ELSE 0 + 1
    BY <1>1, <2>1 DEF ChainInv
  <2>3. NotYet(0)
    BY DEF NotYet
  <2> QED BY <1>1, <1>2, <2>1, <2>2, <2>3, ChainHeader
<1>7. CASE count_header \/ index_header
  <2>1. /\ block = "loop_header" /\ env' = env
        /\ block' = IF env.cursor # NullNode THEN "body"
                    ELSE IF call.fn = "count_nodes" THEN "exit" ELSE "not_found"
    BY <1>7 DEF count_header, index_header, InWalk, At, Branch, Goto
  <2>2. Walked /\ NotYet(env.count)
    BY <2>1 DEF ChainInv
  <2>3. env.cursor = NullNode <=> env.count = Len(call.values)
    BY <1>1, <2>2 DEF Walked, NullNode
  <2>4. env.cursor # NullNode => env.count < Len(call.values)
    BY <1>1, <2>2, <2>3 DEF Walked
  <2>5. Walked' /\ NotYet(env.count)' /\ WalkTypeOK'
    BY <1>2, <1>4, <2>1, <2>2 DEF Walked, NotYet, WalkLabels
  <2>6. env.cursor = NullNode => NotYet(Len(call.values))'
    BY <1>2, <2>2, <2>3 DEF NotYet
  <2> QED BY <1>2, <1>3, <2>1, <2>3, <2>4, <2>5, <2>6 DEF ChainInv, Returned
<1>8. CASE count_body \/ index_advance
  <2>1. /\ block \in {"body", "advance"} /\ Header(NodeNext(env.cursor), env.count + 1)
        /\ call.fn = "index_of_value" => block = "advance"
    BY <1>8 DEF count_body, index_advance, InWalk, At
  <2>2. Walked /\ NotYet(env.count) /\ env.count < Len(call.values)
    BY <2>1 DEF ChainInv
  <2>3. PICK n \in 0 .. Len(call.values) - 1 : n = env.count
    BY <1>1, <2>2 DEF Walked
  <2>4. env.cursor = n + 1 /\ n + 1 \in 1 .. Len(call.values)
    BY <1>1, <1>5, <2>1, <2>2, <2>3
  <2>5. NodeNext(env.cursor) = IF n + 1 = Len(call.values) THEN NullNode ELSE (n + 1) + 1
    BY <1>1, <2>4
  <2>6. call.fn = "index_of_value" => call.values[n + 1] # call.needle
    BY <2>1, <2>3 DEF ChainInv
  <2>7. NotYet(n + 1)
    BY <2>2, <2>3, <2>6 DEF NotYet
  <2> QED BY <1>1, <1>2, <2>1, <2>3, <2>4, <2>5, <2>7, ChainHeader
<1>9. CASE index_body
  <2>1. /\ block = "body" /\ env' = env
        /\ block' = IF NodeValue(env.cursor) = call.needle THEN "found" ELSE "advance"
    BY <1>9 DEF index_body, InWalk, At, Branch, Goto
  <2>2. Walked /\ NotYet(env.count) /\ env.count < Len(call.values)
    BY <2>1 DEF ChainInv
  <2>3. NodeValue(env.cursor) = call.values[env.count + 1]
    BY <1>1, <1>5, <2>1, <2>2
  <2>4. Walked' /\ NotYet(env.count)' /\ WalkTypeOK'
    BY <1>2, <1>4, <2>1, <2>2 DEF Walked, NotYet, WalkLabels
  <2> QED BY <1>2, <1>3, <2>1, <2>2, <2>3, <2>4 DEF ChainInv, Returned
<1>10. CASE index_found \/ index_not_found
  <2>1. /\ call.fn = "index_of_value" /\ block' = "exit" /\ DOMAIN env' = {"result"}
        /\ IsPlace(env'.result)
    <3>1. CASE index_found
      <4>1. /\ call.fn = "index_of_value" /\ block = "found" /\ block' = "exit"
            /\ env' = [result |-> env.count]
        BY <3>1 DEF index_found, IndexExit, InWalk, At, GotoWith
      <4>2. /\ Walked /\ NotYet(env.count) /\ env.count < Len(call.values)
            /\ call.values[env.count + 1] = call.needle
        BY <4>1 DEF ChainInv
      <4>3. env'.result = env.count /\ DOMAIN env' = {"result"}
        BY <4>1
      <4>4. env.count \in 0 .. Len(call.values) - 1
        BY <1>1, <4>2 DEF Walked
      <4>5. IsPlace(env.count)
        BY <4>2, <4>4, Zenon DEF IsPlace
      <4> QED BY <4>1, <4>3, <4>5
    <3>2. CASE index_not_found
      <4>1. /\ call.fn = "index_of_value" /\ block = "not_found" /\ block' = "exit"
            /\ env' = [result |-> -1]
        BY <3>2 DEF index_not_found, IndexExit, InWalk, At, GotoWith
      <4>2. IsPlace(-1)
        BY <4>1 DEF ChainInv, IsPlace
      <4> QED BY <4>1, <4>2
    <3> QED BY <1>10, <3>1, <3>2
  <2>5. IsPlace(env.result)'
    BY <1>2, <2>1 DEF IsPlace, NotYet
  <2>6. WalkTypeOK'
    BY <1>2, <2>1 DEF ChainInv, WalkTypeOK, WalkLabels
  <2> QED BY <1>2, <1>3, <2>1, <2>5, <2>6 DEF ChainInv, Returned
<1>11. CASE count_exit \/ index_exit
  <2>1. /\ block = "exit" /\ block' = "returned" /\ DOMAIN env' = {"result"}
        /\ env'.result = IF call.fn = "count_nodes" THEN env.count ELSE env.result
    BY <1>11 DEF count_exit, index_exit, InWalk, At, Ret, GotoWith
  <2>2. IF call.fn = "count_nodes" THEN env'.result = Len(call.values) ELSE IsPlace(env'.result)
    BY <2>1 DEF ChainInv
  <2>3. IF call'.fn = "count_nodes" THEN env'.result = Len(call'.values) ELSE IsPlace(env.result)'
    BY <1>2, <2>2 DEF IsPlace, NotYet
  <2>4. WalkTypeOK'
    BY <1>2, <2>1 DEF ChainInv, WalkTypeOK, WalkLabels
  <2> QED BY <1>2, <1>3, <2>1, <2>3, <2>4 DEF ChainInv, Returned
<1> QED BY <1>6, <1>7, <1>8, <1>9, <1>10, <1>11 DEF WalkNext, CountNodes, IndexOfValue

\* The invariant says what the walks return.
LEMMA ChainResults == ChainInv => WalkResults
<1> SUFFICES ASSUME ChainInv, Returned PROVE WalkResults
  BY DEF WalkResults
<1>1. Len(call.values) \in Nat /\ call.fn \in {"count_nodes", "index_of_value"}
  BY ChainNodes
<1>2. CASE call.fn = "count_nodes"
  BY <1>2 DEF ChainInv, WalkResults
<1>3. CASE call.fn = "index_of_value"
  <2> DEFINE places == {k \in 1 .. Len(call.values) : call.values[k] = call.needle}
  <2>1. IsPlace(env.result)
    BY <1>3 DEF ChainInv
  <2>2. \/ places = {} /\ env.result = -1
        \/ env.result + 1 \in places /\ \A k \in places : env.result + 1 <= k
    BY <1>1, <1>3, <2>1 DEF IsPlace, NotYet
  <2> QED BY <1>3, <2>2 DEF WalkResults
<1> QED BY <1>1, <1>2, <1>3

(***************************************************************************)
(* Searches over an array.  Up to the cursor nothing was acceptable; what  *)
(* a stage of the staged search has checked holds of the record under it.  *)
(***************************************************************************)
Array == IF call.fn = Staged THEN call.records ELSE call.values

\* The elements a search takes.
Acceptable(k) == IF call.fn = Staged
           THEN ~Array[k].hidden /\ Array[k].length = call.length /\ Array[k].value = call.value
           ELSE Array[k] >= call.threshold

Passed(n) == \A k \in 1 .. n : ~Acceptable(k)

\* What a search hands its exit: the first fitting element's value, or the sentinel.
IsFirst(r) ==
  \/ r = NoMatch /\ Passed(Len(Array))
  \/ \E k \in 1 .. Len(Array) : Passed(k - 1) /\ Acceptable(k)
                                /\ r = (IF call.fn = Staged THEN Array[k].value ELSE Array[k])

SearchInv ==
  /\ call \in ThresholdCalls \cup StagedCalls
  /\ memory = Array
  /\ SearchTypeOK
  /\ block \in {"loop", "scan", "visible", "same_length", "same_value", "continue"} =>
       env.cursor \in 0 .. Len(Array) /\ Passed(env.cursor)
  /\ block \in {"scan", "visible", "same_length", "same_value", "continue"} => env.cursor < Len(Array)
  /\ block \in {"visible", "same_length", "same_value"} => ~Array[env.cursor + 1].hidden
  /\ block \in {"same_length", "same_value"} => Array[env.cursor + 1].length = call.length
  /\ block = "same_value" => Array[env.cursor + 1].value = call.value
  /\ block = "continue" => ~Acceptable(env.cursor + 1)
  /\ block \in {"visible", "same_length", "same_value", "continue"} => call.fn = Staged
  /\ block = "found" => call.fn # Staged /\ IsFirst(env.current_value)
  /\ block = "not_found" => Passed(Len(Array))
  /\ block \in {"exit", "returned"} => IsFirst(env.result)

\* An element of a sequence is of the elements' kind.
LEMMA ElementOf ==
  ASSUME NEW R, NEW s \in Seq(R), NEW k \in 1 .. Len(s)
  PROVE  s[k] \in R
OBVIOUS

\* What the calls are.
LEMMA SearchFacts ==
  ASSUME call \in ThresholdCalls \cup StagedCalls
  PROVE  /\ call.fn \in {"find_first_ge_raw", "find_first_ge_pythonic", Staged}
         /\ Len(Array) \in Nat
         /\ call.fn = Staged => Array = call.records /\ Array \in Seq([hidden : BOOLEAN, length : Int, value : Int])
                                /\ call.length \in Int /\ call.value \in Int
         /\ call.fn # Staged => Array = call.values /\ Array \in Seq(Int) /\ call.threshold \in Int
BY SearchCallsAssumption DEF Array, Staged

\* A search begins at its first element.
LEMMA SearchInitial == SearchInit => SearchInv
<1> SUFFICES ASSUME SearchInit PROVE SearchInv
  OBVIOUS
<1>1. call \in ThresholdCalls \cup StagedCalls /\ block = "entry" /\ env = <<>> /\ memory = Array
  BY SearchCallsAssumption DEF SearchInit, ThresholdInit, StagedInit, Array, Staged
<1>2. DOMAIN env = {}
  BY <1>1
<1> QED BY <1>1, <1>2 DEF SearchInv, SearchTypeOK, SearchLabels

\* Every block of the three searches keeps the invariant.
LEMMA SearchStep == SearchInv /\ SearchNext => SearchInv'
<1> SUFFICES ASSUME SearchInv, SearchNext PROVE SearchInv'
  OBVIOUS
<1> DEFINE N == Len(Array)
           c == env.cursor
<1>1. /\ call.fn \in {"find_first_ge_raw", "find_first_ge_pythonic", Staged}
      /\ N \in Nat
      /\ call.fn # Staged => call.threshold \in Int /\ Array \in Seq(Int)
  BY SearchFacts DEF SearchInv
<1>2. call' = call /\ memory' = memory
  BY DEF SearchNext, RawThresholdSearch, CarrierThresholdSearch, StagedSearch, ge_entry, ge_loop, ge_scan,
         raw_found, raw_not_found, carrier_found, carrier_not_found, carrier_finish, staged_entry,
         staged_loop, staged_scan, staged_visible, staged_same_length, accept, advance_cursor,
         staged_not_found, staged_exit, require, InSearch
<1>3. /\ call' \in ThresholdCalls \cup StagedCalls /\ Array' = Array /\ memory' = Array'
      /\ \A k : Acceptable(k)' = Acceptable(k)
  BY <1>2 DEF SearchInv, Array, Acceptable
<1>4. /\ \A n : Passed(n)' = Passed(n)
      /\ \A r : IsFirst(r)' = IsFirst(r)
  BY <1>2, <1>3 DEF Passed, IsFirst
<1>5. ASSUME block' \in SearchLabels, DOMAIN env' \in {{}, {"cursor"}, {"current_value"}, {"result"}}
      PROVE  SearchTypeOK'
  BY <1>2, <1>5 DEF SearchTypeOK
<1>6. DOMAIN env \in {{}, {"cursor"}, {"current_value"}, {"result"}}
  BY <1>1 DEF SearchInv, SearchTypeOK, Threshold
<1> HIDE DEF N
\* The edges into the loop header.
<1>7. ASSUME NEW n \in Nat, n <= Len(Array), Passed(n), Loop(n) PROVE SearchInv'
  <2>1. block' = "loop" /\ env' = [cursor |-> n]
    BY <1>7 DEF Loop, GotoWith
  <2>2. env'.cursor = n /\ DOMAIN env' = {"cursor"}
    BY <2>1
  <2>3. env'.cursor \in 0 .. Len(Array') /\ Passed(env.cursor)'
    <3>1. n \in 0 .. Len(Array)
      BY <1>7, <1>1 DEF N
    <3>2. Passed(env'.cursor)
      BY <1>7, <2>2
    <3>3. Passed(env.cursor)' 
      BY <3>2, <1>3 DEF Passed
    <3> QED BY <3>1, <3>3, <1>3, <2>2
  <2>4. SearchTypeOK'
    BY <1>5, <2>1, <2>2 DEF SearchLabels
  <2> QED BY <1>3, <2>1, <2>3, <2>4 DEF SearchInv
<1>8. CASE ge_entry \/ staged_entry
  <2>1. Loop(0)
    BY <1>8 DEF ge_entry, staged_entry
  <2>2. Passed(0)
    BY DEF Passed
  <2> QED BY <1>1, <1>7, <2>1, <2>2 DEF N
<1>9. CASE ge_loop \/ staged_loop
  <2>1. block = "loop" /\ env' = env /\ block' = IF c >= Len(Array) THEN "not_found" ELSE "scan"
    BY <1>9 DEF ge_loop, staged_loop, InSearch, Branch, Goto, SearchInv
  <2>2. c \in 0 .. Len(Array) /\ Passed(c)
    BY <2>1 DEF SearchInv
  <2>3. c >= Len(Array) => Passed(Len(Array))
    <3>1. c >= Len(Array) => c = Len(Array)
      BY <2>2, <1>1 DEF N
    <3> QED BY <2>2, <3>1
  <2>4. ~(c >= Len(Array)) => c < Len(Array)
    BY <2>2, <1>1 DEF N
  <2>5. SearchTypeOK'
    BY <1>5, <1>6, <2>1 DEF SearchLabels
  <2>6. /\ block' = "not_found" => Passed(Len(Array))'
        /\ block' = "scan" => c' \in 0 .. Len(Array') /\ Passed(env.cursor)' /\ c' < Len(Array')
        /\ block' \in {"not_found", "scan"}
    BY <1>2, <1>3, <2>1, <2>2, <2>3, <2>4 DEF Passed
  <2> QED BY <1>3, <2>5, <2>6 DEF SearchInv
\* A test of the element under the cursor.
<1>10. CASE ge_scan
  <2>1. /\ block = "scan" /\ call.fn # Staged
        /\ IF Array[c + 1] >= call.threshold
           THEN block' = "found" /\ env' = [current_value |-> Array[c + 1]]
           ELSE Loop(c + 1)
    BY <1>10 DEF ge_scan, InSearch, GotoWith, SearchInv, Element, Threshold, Staged
  <2>2. /\ c \in 0 .. Len(Array) /\ Passed(c) /\ c < Len(Array)
        /\ Acceptable(c + 1) <=> Array[c + 1] >= call.threshold
    BY <2>1 DEF SearchInv, Acceptable
  <2>3. PICK n \in 0 .. N - 1 : n = c /\ n + 1 \in 1 .. N /\ (n + 1) - 1 = n
    BY <1>1, <2>2 DEF N
  <2>4. CASE Array[c + 1] >= call.threshold
    <3>1. block' = "found" /\ env' = [current_value |-> Array[c + 1]]
      BY <2>1, <2>4
    <3>2. env'.current_value = Array[n + 1] /\ DOMAIN env' = {"current_value"}
      BY <2>3, <3>1
    <3>3. Passed((n + 1) - 1) /\ Acceptable(n + 1) /\ n + 1 \in 1 .. Len(Array)
      BY <2>2, <2>3, <2>4 DEF N
    <3>4. IsFirst(Array[n + 1])
      BY <2>1, <3>3 DEF IsFirst
    <3>5. IsFirst(env.current_value)'
      BY <1>2, <1>3, <3>2, <3>4 DEF IsFirst, Passed
    <3>6. SearchTypeOK'
      BY <1>5, <3>1, <3>2 DEF SearchLabels
    <3> QED BY <1>2, <1>3, <2>1, <3>1, <3>5, <3>6 DEF SearchInv
  <2>5. CASE ~(Array[c + 1] >= call.threshold)
    <3>1. Loop(n + 1)
      BY <2>1, <2>3, <2>5
    <3>2. Passed(n + 1)
      BY <2>2, <2>3, <2>5 DEF Passed
    <3> QED BY <1>1, <1>7, <2>3, <3>1, <3>2 DEF N
  <2> QED BY <2>4, <2>5
<1>11. CASE staged_scan \/ staged_visible \/ staged_same_length
  <2>1. /\ block \in {"scan", "visible", "same_length"} /\ env' = env /\ call.fn = Staged
        /\ block' = IF block = "scan" THEN (IF ~Array[c + 1].hidden THEN "visible" ELSE "continue")
                    ELSE IF block = "visible"
                         THEN (IF Array[c + 1].length = call.length THEN "same_length" ELSE "continue")
                         ELSE (IF Array[c + 1].value = call.value THEN "same_value" ELSE "continue")
    BY <1>11 DEF staged_scan, staged_visible, staged_same_length, require, InSearch, Branch, Goto,
                 SearchInv, Element
  <2>2. /\ c \in 0 .. Len(Array) /\ Passed(c) /\ c < Len(Array)
        /\ block \in {"visible", "same_length"} => ~Array[c + 1].hidden
        /\ block = "same_length" => Array[c + 1].length = call.length
    BY <2>1 DEF SearchInv
  <2>3. /\ block' \in {"visible", "same_length", "same_value", "continue"}
        /\ block' \in {"visible", "same_length", "same_value"} => ~Array[c + 1].hidden
        /\ block' \in {"same_length", "same_value"} => Array[c + 1].length = call.length
        /\ block' = "same_value" => Array[c + 1].value = call.value
        /\ block' = "continue" => ~Acceptable(c + 1)
    BY <2>1, <2>2 DEF Acceptable
  <2>4. SearchTypeOK'
    BY <1>5, <1>6, <2>1, <2>3 DEF SearchLabels
  <2>5. Passed(env.cursor)' /\ (Acceptable(c + 1)' = Acceptable(c + 1))
    BY <1>2, <1>3, <2>1, <2>2 DEF Passed, Acceptable, Array
  <2>6. c' = c /\ Array' = Array /\ call' = call
    BY <1>2, <1>3, <2>1
  <2> QED BY <1>3, <2>1, <2>2, <2>3, <2>4, <2>5, <2>6 DEF SearchInv
<1>12. CASE advance_cursor
  <2>1. block = "continue" /\ Loop(c + 1)
    BY <1>12 DEF advance_cursor, InSearch
  <2>2. c \in 0 .. Len(Array) /\ Passed(c) /\ c < Len(Array) /\ ~Acceptable(c + 1)
    BY <2>1 DEF SearchInv
  <2>3. PICK n \in 0 .. N - 1 : n = c /\ n + 1 \in Nat /\ n + 1 <= N
    BY <1>1, <2>2 DEF N
  <2>4. Passed(n + 1)
    BY <2>2, <2>3 DEF Passed
  <2> QED BY <1>7, <2>1, <2>3, <2>4 DEF N
\* The edges into the exit, and the return.
<1>13. ASSUME NEW r, IsFirst(r), block' \in {"exit", "returned"}, env' = [result |-> r] PROVE SearchInv'
  <2>1. env'.result = r /\ DOMAIN env' = {"result"}
    BY <1>13
  <2>2. IsFirst(env.result)'
    BY <1>2, <1>3, <1>13, <2>1 DEF IsFirst, Passed
  <2>3. SearchTypeOK'
    BY <1>5, <1>13, <2>1 DEF SearchLabels
  <2> QED BY <1>3, <1>13, <2>2, <2>3 DEF SearchInv
<1>14. CASE raw_found \/ carrier_found
  <2>1. block = "found" /\ block' \in {"exit", "returned"} /\ env' = [result |-> env.current_value]
    BY <1>14 DEF raw_found, carrier_found, InSearch, Ret, remember, GotoWith
  <2> QED BY <1>13, <2>1 DEF SearchInv
<1>15. CASE raw_not_found \/ carrier_not_found \/ staged_not_found
  <2>1. block = "not_found" /\ block' \in {"exit", "returned"} /\ env' = [result |-> NoMatch]
    BY <1>15 DEF raw_not_found, carrier_not_found, staged_not_found, InSearch, Ret, remember, GotoWith
  <2>2. IsFirst(NoMatch)
    BY <2>1 DEF SearchInv, IsFirst
  <2> QED BY <1>13, <2>1, <2>2
<1>16. CASE accept
  <2>1. block = "same_value" /\ call.fn = Staged /\ block' = "exit" /\ env' = [result |-> Array[c + 1].value]
    BY <1>16 DEF accept, InSearch, remember, GotoWith, SearchInv, Element
  <2>2. c \in 0 .. Len(Array) /\ Passed(c) /\ c < Len(Array)
    BY <2>1 DEF SearchInv
  <2>3. Acceptable(c + 1)
    BY <2>1 DEF SearchInv, Acceptable
  <2>4. PICK n \in 0 .. N - 1 : n = c /\ n + 1 \in 1 .. N /\ (n + 1) - 1 = n
    BY <1>1, <2>2 DEF N
  <2>5. IsFirst(Array[n + 1].value)
    BY <2>1, <2>2, <2>3, <2>4 DEF IsFirst, N
  <2> QED BY <1>13, <2>1, <2>4, <2>5
<1>17. CASE carrier_finish \/ staged_exit
  <2>1. block = "exit" /\ block' = "returned" /\ env' = [result |-> env.result]
    BY <1>17 DEF carrier_finish, staged_exit, InSearch, Ret, GotoWith
  <2> QED BY <1>13, <2>1 DEF SearchInv
<1> QED BY <1>8, <1>9, <1>10, <1>11, <1>12, <1>14, <1>15, <1>16, <1>17
        DEF SearchNext, RawThresholdSearch, CarrierThresholdSearch, StagedSearch

\* The invariant says what a search returns.
LEMMA SearchResults == SearchInv => SearchIsFirst
<1> SUFFICES ASSUME SearchInv, Returned PROVE SearchIsFirst
  BY DEF SearchIsFirst
<1>1. IsFirst(env.result)
  BY DEF SearchInv, Returned
<1>2. /\ call.fn \in {"find_first_ge_raw", "find_first_ge_pythonic", Staged}
      /\ Len(Array) \in Nat
      /\ call.fn = Staged => Array = call.records /\ Array \in Seq([hidden : BOOLEAN, length : Int, value : Int])
                             /\ call.length \in Int /\ call.value \in Int
      /\ call.fn # Staged => Array = call.values /\ Array \in Seq(Int) /\ call.threshold \in Int
  BY SearchFacts DEF SearchInv
<1>3. CASE call.fn \in Threshold
  <2> DEFINE reach == {k \in 1 .. Len(call.values) : call.values[k] >= call.threshold}
  <2>1. call.fn # Staged
    BY <1>3 DEF Threshold, Staged
  <2>2. \A k \in 1 .. Len(call.values) : k \in reach <=> Acceptable(k)
    BY <1>2, <2>1 DEF Acceptable
  <2>3. CASE env.result = NoMatch /\ Passed(Len(Array))
    <3>1. reach = {}
      BY <1>2, <2>1, <2>2, <2>3 DEF Passed
    <3> QED BY <1>3, <2>1, <2>3, <3>1 DEF SearchIsFirst
  <2>4. CASE \E k \in 1 .. Len(Array) : Passed(k - 1) /\ Acceptable(k) /\ env.result = Array[k]
    <3>1. PICK k \in 1 .. Len(Array) : Passed(k - 1) /\ Acceptable(k) /\ env.result = Array[k]
      BY <2>4
    <3>2. k \in reach
      BY <1>2, <2>1, <2>2, <3>1
    <3>3. \A j \in reach : k <= j
      <4>1. SUFFICES ASSUME NEW j \in reach, ~(k <= j) PROVE FALSE
        OBVIOUS
      <4>2. j \in 1 .. Len(call.values) /\ Acceptable(j)
        BY <2>2
      <4>3. j \in 1 .. k - 1
        BY <1>2, <2>1, <3>1, <4>1, <4>2
      <4> QED BY <3>1, <4>2, <4>3 DEF Passed
    <3>4. env.result = call.values[k]
      BY <1>2, <2>1, <3>1
    <3>5. \E kk \in reach : env.result = call.values[kk] /\ \A j \in reach : kk <= j
      BY <3>2, <3>3, <3>4
    <3> QED BY <1>3, <2>1, <3>5 DEF SearchIsFirst
  <2> QED BY <1>1, <2>1, <2>3, <2>4 DEF IsFirst
<1>4. CASE call.fn = Staged
  <2> DEFINE wanted == [hidden |-> FALSE, length |-> call.length, value |-> call.value]
  <2>1. ASSUME NEW k \in 1 .. Len(call.records) PROVE Acceptable(k) <=> call.records[k] = wanted
    <3>1. call.records[k] \in [hidden : BOOLEAN, length : Int, value : Int]
      <4>1. call.records \in Seq([hidden : BOOLEAN, length : Int, value : Int])
        BY <1>2, <1>4, Zenon
      <4> QED BY <4>1, ElementOf, Zenon
    <3>2. PICK e \in [hidden : BOOLEAN, length : Int, value : Int] : e = call.records[k]
      BY <3>1
    <3>3. e = [hidden |-> e.hidden, length |-> e.length, value |-> e.value] /\ e.hidden \in BOOLEAN
      BY <3>2
    <3>4. (~e.hidden /\ e.length = call.length /\ e.value = call.value) <=> e = wanted
      BY <3>3
    <3> QED BY <1>2, <1>4, <3>2, <3>4 DEF Acceptable
  <2>2. env.result = IF \E k \in 1 .. Len(call.records) : call.records[k] = wanted THEN call.value ELSE NoMatch
    <3>1. CASE env.result = NoMatch /\ Passed(Len(Array))
      <4>1. \A k \in 1 .. Len(call.records) : ~Acceptable(k)
        BY <1>2, <1>4, <3>1 DEF Passed
      <4> QED BY <2>1, <3>1, <4>1
    <3>2. CASE \E k \in 1 .. Len(Array) : Acceptable(k) /\ env.result = Array[k].value
      <4>1. PICK k \in 1 .. Len(Array) : Acceptable(k) /\ env.result = Array[k].value
        BY <3>2
      <4>2. k \in 1 .. Len(call.records) /\ env.result = call.value
        BY <1>2, <1>4, <4>1 DEF Acceptable
      <4> QED BY <2>1, <4>1, <4>2
    <3> QED BY <1>1, <1>4, <3>1, <3>2 DEF IsFirst
  <2>3. call.fn \notin Threshold
    BY <1>4 DEF Threshold, Staged
  <2> QED BY <1>4, <2>2, <2>3 DEF SearchIsFirst
<1> QED BY <1>2, <1>3, <1>4 DEF Threshold

(***************************************************************************)
(* Region comparison: the words before i are the same on both sides.       *)
(***************************************************************************)
SameUpTo(n) == \A k \in 1 .. n : call.left[k] = call.right[k]

RegionInv ==
  /\ call \in RegionCalls
  /\ memory = [left |-> call.left, right |-> call.right]
  /\ RegionTypeOK
  /\ block \in {"head", "body"} => env.i \in 0 .. word_count /\ SameUpTo(env.i)
  /\ block = "body" => env.i < word_count
  /\ block = "equal" => SameUpTo(word_count)
  /\ block = "mismatch" => ~SameUpTo(word_count)
  /\ Returned => (env.result = SameUpTo(word_count))

\* The words of the length are there on both sides.
LEMMA RegionFacts ==
  ASSUME call \in RegionCalls
  PROVE  /\ call.fn = "regions_equal" /\ call.left \in Seq(Int) /\ call.right \in Seq(Int)
         /\ word_count \in Nat /\ word_count <= Len(call.left) /\ word_count <= Len(call.right)
<1>1. /\ call.fn = "regions_equal" /\ call.left \in Seq(Int) /\ call.right \in Seq(Int)
      /\ call.byte_length \in Nat
      /\ call.byte_length <= 4 * Len(call.left) /\ call.byte_length <= 4 * Len(call.right)
  BY RegionCallsAssumption DEF WORD_BYTES
<1>2. PICK b \in Nat, l \in Nat, r \in Nat : b = call.byte_length /\ l = Len(call.left) /\ r = Len(call.right)
  BY <1>1
<1>3. b \div 4 \in Nat /\ b \div 4 <= l /\ b \div 4 <= r
  BY <1>1, <1>2
<1> QED BY <1>1, <1>2, <1>3 DEF word_count, WORD_BYTES

\* The call finds its regions as the caller left them.
LEMMA RegionInitial == RegionInit => RegionInv
<1> SUFFICES ASSUME RegionInit PROVE RegionInv
  OBVIOUS
<1>1. /\ call \in RegionCalls /\ block = "entry" /\ env = <<>>
      /\ memory = [left |-> call.left, right |-> call.right]
  BY DEF RegionInit
<1>2. DOMAIN env = {}
  BY <1>1
<1> QED BY <1>1, <1>2 DEF RegionInv, RegionTypeOK, Returned

\* Every block of the comparison keeps the invariant.
LEMMA RegionStep == RegionInv /\ RegionNext => RegionInv'
<1> SUFFICES ASSUME RegionInv, RegionNext PROVE RegionInv'
  OBVIOUS
<1>1. call.fn = "regions_equal" /\ word_count \in Nat
  BY RegionFacts DEF RegionInv
<1>2. call' = call /\ memory' = memory
  BY DEF RegionNext, regions_begin, regions_head, regions_body, regions_mismatch, regions_equal, InRegions, At
<1>3. /\ call' \in RegionCalls /\ memory' = [left |-> call'.left, right |-> call'.right]
      /\ word_count' = word_count
      /\ \A n : SameUpTo(n)' = SameUpTo(n)
  BY <1>2 DEF RegionInv, word_count, SameUpTo
<1>4. ASSUME block' \in {"head", "body", "mismatch", "equal", "returned"},
             DOMAIN env' \in {{}, {"i"}, {"result"}}
      PROVE  RegionTypeOK'
  BY <1>4 DEF RegionTypeOK
<1>5. DOMAIN env \in {{}, {"i"}, {"result"}}
  BY <1>1 DEF RegionInv, RegionTypeOK
<1>6. ASSUME NEW n \in 0 .. word_count, SameUpTo(n), RegionHead(n) PROVE RegionInv'
  <2>1. block' = "head" /\ env' = [i |-> n]
    BY <1>6 DEF RegionHead, GotoWith
  <2>2. env'.i = n /\ DOMAIN env' = {"i"}
    BY <2>1
  <2>3. SameUpTo(env.i)'
    BY <1>2, <1>6, <2>2 DEF SameUpTo
  <2>4. RegionTypeOK'
    BY <1>4, <2>1, <2>2
  <2> QED BY <1>3, <1>6, <2>1, <2>2, <2>3, <2>4 DEF RegionInv, Returned
<1>7. CASE regions_begin
  <2>1. RegionHead(0)
    BY <1>7 DEF regions_begin
  <2>2. SameUpTo(0) /\ 0 \in 0 .. word_count
    BY <1>1 DEF SameUpTo
  <2> QED BY <1>6, <2>1, <2>2
<1>8. CASE regions_head
  <2>1. block = "head" /\ env' = env /\ block' = IF env.i < word_count THEN "body" ELSE "equal"
    BY <1>8 DEF regions_head, InRegions, At, Branch, Goto
  <2>2. env.i \in 0 .. word_count /\ SameUpTo(env.i)
    BY <2>1 DEF RegionInv
  <2>3. ~(env.i < word_count) => SameUpTo(word_count)
    <3>1. ~(env.i < word_count) => env.i = word_count
      BY <1>1, <2>2
    <3> QED BY <2>2, <3>1
  <2>4. SameUpTo(env.i)' /\ (SameUpTo(word_count)' = SameUpTo(word_count))
    BY <1>2, <1>3, <2>1, <2>2 DEF SameUpTo
  <2>5. RegionTypeOK'
    BY <1>4, <1>5, <2>1
  <2> QED BY <1>3, <2>1, <2>2, <2>3, <2>4, <2>5 DEF RegionInv, Returned
<1>9. CASE regions_body
  <2>1. /\ block = "body"
        /\ IF call.left[env.i + 1] = call.right[env.i + 1]
           THEN RegionHead(env.i + 1) ELSE block' = "mismatch" /\ env' = env
    BY <1>9 DEF regions_body, InRegions, At, Goto, RegionInv
  <2>2. env.i \in 0 .. word_count /\ SameUpTo(env.i) /\ env.i < word_count
    BY <2>1 DEF RegionInv
  <2>3. PICK n \in Nat : n = env.i /\ n + 1 \in 1 .. word_count
    BY <1>1, <2>2
  <2>4. CASE call.left[n + 1] = call.right[n + 1]
    <3>1. RegionHead(n + 1)
      BY <2>1, <2>3, <2>4
    <3>2. SameUpTo(n + 1)
      BY <2>2, <2>3, <2>4 DEF SameUpTo
    <3> QED BY <1>6, <2>3, <3>1, <3>2
  <2>5. CASE call.left[n + 1] # call.right[n + 1]
    <3>1. block' = "mismatch" /\ env' = env
      BY <2>1, <2>3, <2>5
    <3>2. ~SameUpTo(word_count)
      BY <2>3, <2>5 DEF SameUpTo
    <3>3. ~(SameUpTo(word_count)')
      BY <1>2, <1>3, <3>2 DEF SameUpTo
    <3>4. RegionTypeOK'
      BY <1>4, <1>5, <3>1
    <3> QED BY <1>3, <3>1, <3>3, <3>4 DEF RegionInv, Returned
  <2> QED BY <2>4, <2>5
<1>10. CASE regions_mismatch \/ regions_equal
  <2>1. block' = "returned" /\ \E b \in BOOLEAN : env' = [result |-> b] /\ b = SameUpTo(word_count)
    <3>1. CASE regions_mismatch
      <4>1. block = "mismatch" /\ block' = "returned" /\ env' = [result |-> FALSE]
        BY <3>1 DEF regions_mismatch, InRegions, At, Ret, GotoWith
      <4>2. FALSE = SameUpTo(word_count)
        BY <4>1 DEF RegionInv, SameUpTo
      <4> QED BY <4>1, <4>2
    <3>2. CASE regions_equal
      <4>1. block = "equal" /\ block' = "returned" /\ env' = [result |-> TRUE]
        BY <3>2 DEF regions_equal, InRegions, At, Ret, GotoWith
      <4>2. TRUE = SameUpTo(word_count)
        BY <4>1 DEF RegionInv, SameUpTo
      <4> QED BY <4>1, <4>2
    <3> QED BY <1>10, <3>1, <3>2
  <2>2. PICK b \in BOOLEAN : env' = [result |-> b] /\ b = SameUpTo(word_count)
    BY <2>1
  <2>3. env'.result = b /\ DOMAIN env' = {"result"}
    BY <2>2
  <2>4. SameUpTo(word_count)' = SameUpTo(word_count)
    BY <1>2, <1>3 DEF SameUpTo
  <2>5. RegionTypeOK'
    BY <1>4, <2>1, <2>3
  <2>6. env'.result = SameUpTo(word_count)'
    BY <2>2, <2>3, <2>4
  <2> QED BY <1>3, <2>1, <2>5, <2>6 DEF RegionInv, Returned
<1> QED BY <1>7, <1>8, <1>9, <1>10 DEF RegionNext

\* Two beginnings of n words are equal when the words are.
LEMMA SameBeginnings ==
  ASSUME NEW s \in Seq(Int), NEW t \in Seq(Int), NEW n \in Nat, n <= Len(s), n <= Len(t)
  PROVE  (SubSeq(s, 1, n) = SubSeq(t, 1, n)) = (\A k \in 1 .. n : s[k] = t[k])
<1>1. /\ SubSeq(s, 1, n) = [k \in 1 .. n |-> s[k]]
      /\ SubSeq(t, 1, n) = [k \in 1 .. n |-> t[k]]
  OBVIOUS
<1>2. ASSUME \A k \in 1 .. n : s[k] = t[k] PROVE [k \in 1 .. n |-> s[k]] = [k \in 1 .. n |-> t[k]]
  BY <1>2, Zenon
<1>3. ASSUME [k \in 1 .. n |-> s[k]] = [k \in 1 .. n |-> t[k]], NEW k \in 1 .. n PROVE s[k] = t[k]
  <2>1. [j \in 1 .. n |-> s[j]][k] = [j \in 1 .. n |-> t[j]][k]
    BY <1>3
  <2> QED BY <2>1
<1> QED BY <1>1, <1>2, <1>3

\* The invariant says what a comparison returns.
LEMMA RegionResults == RegionInv => RegionsCompared
<1> SUFFICES ASSUME RegionInv, Returned
             PROVE  env.result <=> SubSeq(call.left, 1, word_count) = SubSeq(call.right, 1, word_count)
  BY DEF RegionsCompared
<1>1. /\ call.left \in Seq(Int) /\ call.right \in Seq(Int)
      /\ word_count \in Nat /\ word_count <= Len(call.left) /\ word_count <= Len(call.right)
  BY RegionFacts DEF RegionInv
<1>2. (SubSeq(call.left, 1, word_count) = SubSeq(call.right, 1, word_count)) = SameUpTo(word_count)
  BY <1>1, SameBeginnings, Zenon DEF SameUpTo
<1>3. env.result = SameUpTo(word_count)
  BY DEF RegionInv
<1> QED BY <1>2, <1>3

(***************************************************************************)
(* The phi labs: the merge block's phis hold the values of one arm, and a  *)
(* sum of wrapped words is the wrapped sum.                                *)
(***************************************************************************)
sign == IF call.x >= 0 THEN 1 ELSE -1

\* The values of the arm the test chose.
ArmX == call.x + sign
ArmY == call.y * (IF sign = 1 THEN 2 ELSE 3)
ArmTos == call.tos + 10 * sign
Sum_ == CASE call.fn = "zero_live_in_join" -> call.x + 100
          [] call.fn = "tuple_join" -> ArmX + ArmY + ArmTos
          [] OTHER -> call.x + 10 * sign

\* A word that stands for an exact value: the two differ by whole turns of the word.
StandsFor(w, exact) == w \in Word /\ (w - exact) % (2 * Half) = 0

MergeInv ==
  /\ call \in MergeCalls
  /\ MergeTypeOK
  /\ call.fn \in {"branch_merge", "tuple_join"} =>
       /\ block = "then" => call.x >= 0
       /\ block = "else" => ~(call.x >= 0)
  /\ block = "merge" /\ call.fn = "branch_merge" => StandsFor(env.merged, Sum_)
  /\ block = "merge" /\ call.fn = "tuple_join" =>
       StandsFor(env.x, ArmX) /\ StandsFor(env.y, ArmY) /\ StandsFor(env.tos, ArmTos)
  /\ call.fn = "select_merge" => block \in {"entry", "returned"}
  /\ Returned => StandsFor(env.result, Sum_)

\* What is kept of an exact result is a word that stands for it.
LEMMA WrapStandsFor ==
  ASSUME NEW a \in Int
  PROVE  StandsFor(Wrap(a), a)
<1>1. Half \in Nat \ {0} /\ 2 * Half \in Nat \ {0}
  BY HalfAssumption
<1> DEFINE m == 2 * Half
           b == a + Half
<1>2. b \in Int
  BY <1>1
<1>3. PICK q \in Int, r \in 0 .. m - 1 : r = b % m /\ b = m * q + r
  <2> HIDE DEF b, m
  <2>1. m \in Nat \ {0}
    BY <1>1 DEF m
  <2> QED BY <1>2, <2>1, Division
<1>4. Wrap(a) = r - Half
  BY <1>3 DEF Wrap
<1>5. r - Half \in Word
  BY <1>1, <1>3 DEF Word
<1>6. (r - Half) - a = m * (-q) /\ -q \in Int /\ (r - Half) - a \in Int
  <2> HIDE DEF m
  <2>1. a + Half = m * q + r
    BY <1>3
  <2>2. m \in Nat /\ m * q \in Int /\ m * (-q) = -(m * q)
    BY <1>1 DEF m
  <2> QED BY <1>1, <2>1, <2>2, <1>3
<1>7. ((r - Half) - a) % m = 0
  <2> HIDE DEF m
  <2>1. m \in Nat \ {0}
    BY <1>1 DEF m
  <2> QED BY <1>6, <2>1, NoRemainder, Zenon
<1> QED BY <1>4, <1>5, <1>7 DEF StandsFor

\* A wrapped sum of words stands for the sum of what the words stand for.
LEMMA SumStandsFor ==
  ASSUME NEW a \in Int, NEW b \in Int, NEW v, NEW w, StandsFor(v, a), StandsFor(w, b)
  PROVE  StandsFor(Wrap(v + w), a + b)
<1>1. Half \in Nat \ {0} /\ 2 * Half \in Nat \ {0}
  BY HalfAssumption
<1>2. v \in Int /\ w \in Int
  BY <1>1 DEF StandsFor, Word
<1> DEFINE m == 2 * Half
           s == Wrap(v + w)
<1>3. s \in Word /\ (s - (v + w)) % m = 0
  <2>1. v + w \in Int
    BY <1>2
  <2> QED BY <2>1, WrapStandsFor DEF StandsFor
<1>4. s \in Int
  BY <1>1, <1>3 DEF Word
<1> HIDE DEF s
<1>5. (v - a) % m = 0 /\ (w - b) % m = 0
  BY DEF StandsFor
<1> HIDE DEF m
<1>6. m \in Nat \ {0}
  BY <1>1 DEF m
<1>7. PICK p \in Int : v - a = m * p
  <2>1. v - a \in Int
    BY <1>2
  <2> QED BY <1>5, <1>6, <2>1, WholeTurns
<1>8. PICK q \in Int : w - b = m * q
  <2>1. w - b \in Int
    BY <1>2
  <2> QED BY <1>5, <1>6, <2>1, WholeTurns
<1>9. PICK r \in Int : s - (v + w) = m * r
  <2>1. s - (v + w) \in Int
    BY <1>2, <1>4
  <2> QED BY <1>3, <1>6, <2>1, WholeTurns
<1>10. s - (a + b) = m * ((p + q) + r)
  <2>1. s - (a + b) = (v - a) + (w - b) + (s - (v + w))
    BY <1>2, <1>4
  <2>2. m * ((p + q) + r) = m * p + m * q + m * r
    BY <1>6
  <2> QED BY <1>7, <1>8, <1>9, <2>1, <2>2
<1>11. (s - (a + b)) % m = 0
  <2>1. (p + q) + r \in Int /\ s - (a + b) \in Int
    BY <1>4
  <2> QED BY <1>6, <1>10, <2>1, NoRemainder, Zenon
<1> QED BY <1>3, <1>11 DEF StandsFor, s, m

\* What the calls are.
LEMMA MergeFacts ==
  ASSUME call \in MergeCalls
  PROVE  /\ call.fn \in MergeFns /\ call.x \in Int /\ call.y \in Int /\ call.tos \in Int
         /\ sign \in {1, -1} /\ (sign = 1) = (call.x >= 0)
         /\ ArmX \in Int /\ ArmY \in Int /\ ArmTos \in Int
BY MergeCallsAssumption DEF sign, ArmX, ArmY, ArmTos

\* A call begins at its entry block.
LEMMA MergeInitial == MergeInit => MergeInv
<1> SUFFICES ASSUME MergeInit PROVE MergeInv
  OBVIOUS
<1>1. call \in MergeCalls /\ block = "entry" /\ env = <<>>
  BY DEF MergeInit
<1>2. DOMAIN env = {}
  BY <1>1
<1> QED BY <1>1, <1>2 DEF MergeInv, MergeTypeOK, Returned

\* Every block of the four functions keeps the invariant.
LEMMA MergeStep == MergeInv /\ MergeNext => MergeInv'
<1> SUFFICES ASSUME MergeInv, MergeNext PROVE MergeInv'
  OBVIOUS
<1>1. /\ call.fn \in MergeFns /\ call.x \in Int /\ call.y \in Int /\ call.tos \in Int
      /\ sign \in {1, -1} /\ (sign = 1) = (call.x >= 0)
      /\ ArmX \in Int /\ ArmY \in Int /\ ArmTos \in Int
  BY MergeFacts DEF MergeInv
<1>2. call' = call
  BY DEF MergeNext, BranchMerge, ZeroLiveInJoin, TupleJoin, merge_entry, merge_then, merge_else, merge_return,
         select_entry, zero_entry, zero_arms, zero_return, tuple_then, tuple_else, tuple_return, InMerge, At
<1>3. call' \in MergeCalls /\ Sum_' = Sum_ /\ ArmX' = ArmX /\ ArmY' = ArmY /\ ArmTos' = ArmTos
  BY <1>2 DEF MergeInv, Sum_, ArmX, ArmY, ArmTos, sign
<1>4. ASSUME block' \in {"entry", "then", "else", "merge", "returned"},
             DOMAIN env' \in {{}, {"merged"}, {"x", "y", "tos"}, {"result"}}
      PROVE  MergeTypeOK'
  BY <1>4 DEF MergeTypeOK
<1>5. DOMAIN env \in {{}, {"merged"}, {"x", "y", "tos"}, {"result"}}
  BY <1>1 DEF MergeInv, MergeTypeOK
\* A return of a word that stands for the sum.
<1>6. ASSUME NEW w, StandsFor(w, Sum_), Ret(w) PROVE MergeInv'
  <2>1. block' = "returned" /\ env' = [result |-> w]
    BY <1>6 DEF Ret, GotoWith
  <2>2. env'.result = w /\ DOMAIN env' = {"result"}
    BY <2>1
  <2>3. StandsFor(env.result, Sum_)'
    BY <1>3, <1>6, <2>2 DEF StandsFor
  <2>4. MergeTypeOK'
    BY <1>4, <2>1, <2>2
  <2> QED BY <1>2, <1>3, <2>1, <2>3, <2>4 DEF MergeInv
<1>7. CASE merge_entry
  <2>1. /\ call.fn \in {"branch_merge", "tuple_join"} /\ env' = env
        /\ block' = IF call.x >= 0 THEN "then" ELSE "else"
    BY <1>7 DEF merge_entry, InMerge, At, Branch, Goto, non_negative
  <2>2. MergeTypeOK'
    BY <1>4, <1>5, <2>1
  <2> QED BY <1>2, <1>3, <2>1, <2>2 DEF MergeInv, Returned
<1>8. CASE merge_then \/ merge_else
  <2>1. PICK t \in Int :
          /\ call.fn = "branch_merge" /\ block' = "merge" /\ env' = [merged |-> Wrap(t)]
          /\ t = call.x + 10 * sign
    <3>1. CASE merge_then
      <4>1. /\ call.fn = "branch_merge" /\ block = "then" /\ block' = "merge"
            /\ env' = [merged |-> Wrap(call.x + 10)]
        BY <3>1 DEF merge_then, InMerge, At, GotoWith
      <4>2. sign = 1
        BY <1>1, <4>1 DEF MergeInv
      <4>3. call.x + 10 \in Int /\ call.x + 10 = call.x + 10 * sign
        BY <1>1, <4>2
      <4> QED BY <4>1, <4>3
    <3>2. CASE merge_else
      <4>1. /\ call.fn = "branch_merge" /\ block = "else" /\ block' = "merge"
            /\ env' = [merged |-> Wrap(call.x - 10)]
        BY <3>2 DEF merge_else, InMerge, At, GotoWith
      <4>2. sign = -1
        BY <1>1, <4>1 DEF MergeInv
      <4>3. call.x - 10 \in Int /\ call.x - 10 = call.x + 10 * sign
        BY <1>1, <4>2
      <4> QED BY <4>1, <4>3
    <3> QED BY <1>8, <3>1, <3>2
  <2>2. env'.merged = Wrap(t) /\ DOMAIN env' = {"merged"}
    BY <2>1
  <2>3. t = Sum_
    BY <2>1 DEF Sum_
  <2>4. StandsFor(Wrap(t), t)
    BY WrapStandsFor
  <2>5. StandsFor(env.merged, Sum_)'
    BY <1>3, <2>2, <2>3, <2>4 DEF StandsFor
  <2>6. MergeTypeOK'
    BY <1>4, <2>1, <2>2
  <2> QED BY <1>2, <1>3, <2>1, <2>5, <2>6 DEF MergeInv, Returned
<1>9. CASE merge_return
  <2>1. call.fn = "branch_merge" /\ block = "merge" /\ Ret(env.merged)
    BY <1>9 DEF merge_return, InMerge, At
  <2> QED BY <1>6, <2>1 DEF MergeInv
<1>10. CASE select_entry
  <2>1. call.fn = "select_merge" /\ Ret(IF call.x >= 0 THEN Wrap(call.x + 10) ELSE Wrap(call.x - 10))
    BY <1>10 DEF select_entry, InMerge, At, non_negative
  <2>2. PICK t \in Int : t = call.x + 10 * sign /\ Ret(Wrap(t))
    <3>1. CASE call.x >= 0
      <4>1. call.x + 10 \in Int /\ call.x + 10 = call.x + 10 * sign
        BY <1>1, <3>1
      <4> QED BY <2>1, <3>1, <4>1
    <3>2. CASE ~(call.x >= 0)
      <4>1. call.x - 10 \in Int /\ call.x - 10 = call.x + 10 * sign
        BY <1>1, <3>2
      <4> QED BY <2>1, <3>2, <4>1
    <3> QED BY <3>1, <3>2
  <2>3. t = Sum_
    BY <2>1, <2>2 DEF Sum_
  <2>4. StandsFor(Wrap(t), Sum_)
    BY <2>3, WrapStandsFor
  <2> QED BY <1>6, <2>2, <2>4
<1>11. CASE zero_entry
  <2>1. call.fn = "zero_live_in_join" /\ env' = env /\ block' \in {"then", "else"}
    BY <1>11 DEF zero_entry, InMerge, At, Branch, Goto
  <2>2. MergeTypeOK'
    BY <1>4, <1>5, <2>1
  <2> QED BY <1>2, <1>3, <2>1, <2>2 DEF MergeInv, Returned
<1>12. CASE zero_arms
  <2>1. call.fn = "zero_live_in_join" /\ env' = env /\ block' = "merge"
    BY <1>12 DEF zero_arms, InMerge, At, Goto
  <2>2. MergeTypeOK'
    BY <1>4, <1>5, <2>1
  <2> QED BY <1>2, <1>3, <2>1, <2>2 DEF MergeInv, Returned
<1>13. CASE zero_return
  <2>1. call.fn = "zero_live_in_join" /\ Ret(Wrap(call.x + 100))
    BY <1>13 DEF zero_return, InMerge, At
  <2>2. PICK t \in Int : t = call.x + 100
    BY <1>1
  <2>3. t = Sum_
    BY <2>1, <2>2 DEF Sum_
  <2>4. StandsFor(Wrap(t), Sum_)
    BY <2>3, WrapStandsFor
  <2> QED BY <1>6, <2>1, <2>2, <2>4
<1>14. CASE tuple_then \/ tuple_else
  <2>1. /\ call.fn = "tuple_join" /\ block' = "merge"
        /\ env' = [x |-> Wrap(ArmX), y |-> Wrap(ArmY), tos |-> Wrap(ArmTos)]
    <3>1. CASE tuple_then
      <4>1. /\ call.fn = "tuple_join" /\ block = "then" /\ block' = "merge"
            /\ env' = [x |-> Wrap(call.x + 1), y |-> Wrap(call.y * 2), tos |-> Wrap(call.tos + 10)]
        BY <3>1 DEF tuple_then, ToTupleMerge, InMerge, At, GotoWith
      <4>2. sign = 1
        BY <1>1, <4>1 DEF MergeInv
      <4>3. call.x + 1 = ArmX /\ call.y * 2 = ArmY /\ call.tos + 10 = ArmTos
        BY <1>1, <4>2 DEF ArmX, ArmY, ArmTos
      <4> QED BY <4>1, <4>3, Zenon
    <3>2. CASE tuple_else
      <4>1. /\ call.fn = "tuple_join" /\ block = "else" /\ block' = "merge"
            /\ env' = [x |-> Wrap(call.x - 1), y |-> Wrap(call.y * 3), tos |-> Wrap(call.tos - 10)]
        BY <3>2 DEF tuple_else, ToTupleMerge, InMerge, At, GotoWith
      <4>2. sign = -1
        BY <1>1, <4>1 DEF MergeInv
      <4>3. call.x - 1 = ArmX /\ call.y * 3 = ArmY /\ call.tos - 10 = ArmTos
        BY <1>1, <4>2 DEF ArmX, ArmY, ArmTos
      <4> QED BY <4>1, <4>3, Zenon
    <3> QED BY <1>14, <3>1, <3>2
  <2>2. /\ env'.x = Wrap(ArmX) /\ env'.y = Wrap(ArmY) /\ env'.tos = Wrap(ArmTos)
        /\ DOMAIN env' = {"x", "y", "tos"}
    BY <2>1
  <2>3. StandsFor(Wrap(ArmX), ArmX) /\ StandsFor(Wrap(ArmY), ArmY) /\ StandsFor(Wrap(ArmTos), ArmTos)
    BY <1>1, WrapStandsFor
  <2>4. StandsFor(env.x, ArmX)' /\ StandsFor(env.y, ArmY)' /\ StandsFor(env.tos, ArmTos)'
    BY <1>3, <2>2, <2>3 DEF StandsFor
  <2>5. MergeTypeOK'
    BY <1>4, <2>1, <2>2
  <2> QED BY <1>2, <1>3, <2>1, <2>4, <2>5 DEF MergeInv, Returned
<1>15. CASE tuple_return
  <2>1. call.fn = "tuple_join" /\ block = "merge" /\ Ret(Wrap(Wrap(env.x + env.y) + env.tos))
    BY <1>15 DEF tuple_return, InMerge, At
  <2>2. StandsFor(env.x, ArmX) /\ StandsFor(env.y, ArmY) /\ StandsFor(env.tos, ArmTos)
    BY <2>1 DEF MergeInv
  <2>3. StandsFor(Wrap(env.x + env.y), ArmX + ArmY)
    BY <1>1, <2>2, SumStandsFor
  <2>4. ArmX + ArmY \in Int
    BY <1>1
  <2>5. StandsFor(Wrap(Wrap(env.x + env.y) + env.tos), (ArmX + ArmY) + ArmTos)
    BY <1>1, <2>2, <2>3, <2>4, SumStandsFor
  <2>6. Sum_ = (ArmX + ArmY) + ArmTos
    BY <2>1 DEF Sum_
  <2> QED BY <1>6, <2>1, <2>5, <2>6
<1> QED BY <1>7, <1>8, <1>9, <1>10, <1>11, <1>12, <1>13, <1>14, <1>15
        DEF MergeNext, BranchMerge, ZeroLiveInJoin, TupleJoin

\* The invariant says what the functions return.
LEMMA MergeResults == MergeInv => MergesOneArm
BY DEF MergeInv, MergesOneArm, StandsFor, Sum_, ArmX, ArmY, ArmTos, sign

(***************************************************************************)
(* Stacks over any storage, of any size.  What a function changes lies in  *)
(* the bound context's struct, whichever way it is reached; what that does *)
(* to the host's view is said of two contents of the cells.                *)
(***************************************************************************)
\* The storage the functions reach is the context's.
BoundTo(ctx) ==
  memory.bound = IF call.provider = "context" THEN [ctx |-> ctx]
                 ELSE [base |-> StackOf(ctx), sp |-> SpOf(ctx)]

StackInv ==
  /\ call = [fn |-> call.fn, provider |-> call.provider]
  /\ call.fn \in StackFunctions /\ Returned
  /\ memory = [cells |-> memory.cells, bound |-> memory.bound]
  /\ StackTypeOK
  /\ \E ctx \in Contexts : BoundTo(ctx)

\* The host's view of given cells (Live).
LiveOf(cells, ctx) ==
  [k \in 1 .. STACK_SIZE - cells[SpOf(ctx)] |-> cells[StackOf(ctx) + cells[SpOf(ctx)] + k - 1]]

\* Two contents that are the same from the i-th slot of a stack on.
SameFrom(i, cells, new, ctx) ==
  \A k \in i .. STACK_SIZE - 1 : new[StackOf(ctx) + k] = cells[StackOf(ctx) + k]

\* Where a context's cells lie (MODULE_GLOBALS, EXTERNAL, the context struct).
LEMMA ContextCellsIn ==
  ASSUME NEW ctx \in Contexts
  PROVE  /\ ctx \in CellAddress /\ SpOf(ctx) \in CellAddress
         /\ ctx \in Nat /\ SpOf(ctx) = ctx + 1 + STACK_SIZE
         /\ \A k \in 0 .. STACK_SIZE - 1 : StackOf(ctx) + k \in CellAddress
         /\ \A k \in 0 .. STACK_SIZE - 1 : StackOf(ctx) + k = ctx + 1 + k
BY StackAssumption DEF Contexts, ContextCells, CellAddress, SpOf, StackOf

\* The view is a sequence of the cells from the stack pointer up.
LEMMA ViewOf ==
  ASSUME NEW cells \in [CellAddress -> Int], NEW ctx \in Contexts, NEW n \in 0 .. STACK_SIZE,
         cells[SpOf(ctx)] = n
  PROVE  /\ LiveOf(cells, ctx) \in Seq(Int)
         /\ Len(LiveOf(cells, ctx)) = STACK_SIZE - n
         /\ \A k \in 1 .. STACK_SIZE - n : LiveOf(cells, ctx)[k] = cells[StackOf(ctx) + (n + k - 1)]
<1>1. STACK_SIZE \in Nat /\ STACK_SIZE - n \in Nat
  BY StackAssumption
<1>2. StackOf(ctx) \in Int
  BY ContextCellsIn DEF StackOf
<1>3. LiveOf(cells, ctx) = [k \in 1 .. STACK_SIZE - n |-> cells[StackOf(ctx) + (n + k - 1)]]
  <2>1. \A k \in 1 .. STACK_SIZE - n : StackOf(ctx) + n + k - 1 = StackOf(ctx) + (n + k - 1)
    BY <1>1, <1>2
  <2> QED BY <2>1 DEF LiveOf
<1>4. \A k \in 1 .. STACK_SIZE - n : cells[StackOf(ctx) + (n + k - 1)] \in Int
  <2> SUFFICES ASSUME NEW k \in 1 .. STACK_SIZE - n PROVE cells[StackOf(ctx) + (n + k - 1)] \in Int
    OBVIOUS
  <2>1. n + k - 1 \in 0 .. STACK_SIZE - 1
    BY <1>1
  <2> QED BY <2>1, ContextCellsIn
<1>5. [k \in 1 .. STACK_SIZE - n |-> cells[StackOf(ctx) + (n + k - 1)]] \in Seq(Int)
  BY <1>1, <1>4
<1> QED BY <1>1, <1>3, <1>5

\* A value before a sequence.
LEMMA FrontAdded ==
  ASSUME NEW v \in Int, NEW s \in Seq(Int), NEW t \in Seq(Int), Len(t) = Len(s) + 1,
         t[1] = v, \A k \in 1 .. Len(s) : t[k + 1] = s[k]
  PROVE  t = <<v>> \o s
<1>1. <<v>> \in Seq(Int) /\ Len(<<v>>) = 1 /\ <<v>>[1] = v
  OBVIOUS
<1>2. /\ <<v>> \o s \in Seq(Int) /\ Len(<<v>> \o s) = 1 + Len(s)
      /\ \A i \in 1 .. 1 + Len(s) : (<<v>> \o s)[i] = IF i <= 1 THEN <<v>>[i] ELSE s[i - 1]
  BY <1>1, ConcatProperties
<1>3. ASSUME NEW i \in 1 .. Len(t) PROVE t[i] = (<<v>> \o s)[i]
  <2>1. CASE i = 1
    BY <1>1, <1>2, <2>1
  <2>2. CASE i # 1
    <3>1. PICK k \in 1 .. Len(s) : i = k + 1 /\ k = i - 1
      <4>1. i - 1 \in 1 .. Len(s) /\ i = (i - 1) + 1
        BY <2>2
      <4> QED BY <4>1
    <3>2. i \in 1 .. 1 + Len(s) /\ ~(i <= 1)
      BY <3>1
    <3>3. (<<v>> \o s)[i] = s[k]
      BY ONLY <1>2, <3>1, <3>2
    <3> QED BY <3>1, <3>3
  <2> QED BY <2>1, <2>2
<1> QED BY <1>2, <1>3, SeqEqual

\* One more value in the slot below the stack pointer (store_at_new_sp).
LEMMA ViewPushed ==
  ASSUME NEW cells \in [CellAddress -> Int], NEW new \in [CellAddress -> Int], NEW ctx \in Contexts,
         NEW n \in 1 .. STACK_SIZE, cells[SpOf(ctx)] = n, new[SpOf(ctx)] = n - 1,
         SameFrom(n, cells, new, ctx)
  PROVE  LiveOf(new, ctx) = <<new[StackOf(ctx) + (n - 1)]>> \o LiveOf(cells, ctx)
<1> DEFINE s == LiveOf(cells, ctx)
           t == LiveOf(new, ctx)
<1>1. STACK_SIZE \in Nat /\ n \in 0 .. STACK_SIZE /\ n - 1 \in 0 .. STACK_SIZE /\ n - 1 \in 0 .. STACK_SIZE - 1
  BY StackAssumption
<1>2. /\ s \in Seq(Int) /\ Len(s) = STACK_SIZE - n
      /\ \A k \in 1 .. STACK_SIZE - n : s[k] = cells[StackOf(ctx) + (n + k - 1)]
  BY <1>1, ViewOf
<1>3. /\ t \in Seq(Int) /\ Len(t) = STACK_SIZE - (n - 1)
      /\ \A k \in 1 .. STACK_SIZE - (n - 1) : t[k] = new[StackOf(ctx) + ((n - 1) + k - 1)]
  BY <1>1, ViewOf
<1>4. t[1] = new[StackOf(ctx) + (n - 1)] /\ t[1] \in Int
  <2>1. 1 \in 1 .. STACK_SIZE - (n - 1) /\ (n - 1) + 1 - 1 = n - 1
    BY <1>1
  <2> QED BY <1>1, <1>3, <2>1, ContextCellsIn
<1>5. \A k \in 1 .. Len(s) : t[k + 1] = s[k]
  <2> SUFFICES ASSUME NEW k \in 1 .. STACK_SIZE - n PROVE t[k + 1] = s[k]
    BY <1>2
  <2>1. /\ k + 1 \in 1 .. STACK_SIZE - (n - 1) /\ (n - 1) + (k + 1) - 1 = n + k - 1
        /\ n + k - 1 \in n .. STACK_SIZE - 1
    BY <1>1
  <2>2. t[k + 1] = new[StackOf(ctx) + ((n - 1) + (k + 1) - 1)]
    BY <1>3, <2>1
  <2>3. new[StackOf(ctx) + (n + k - 1)] = cells[StackOf(ctx) + (n + k - 1)]
    BY <2>1 DEF SameFrom
  <2>4. s[k] = cells[StackOf(ctx) + (n + k - 1)]
    BY <1>2
  <2> HIDE DEF s, t
  <2> QED BY <2>1, <2>2, <2>3, <2>4
<1>6. Len(t) = Len(s) + 1
  BY <1>1, <1>2, <1>3
<1> HIDE DEF s, t
<1>7. t = <<t[1]>> \o s
  BY <1>2, <1>3, <1>4, <1>5, <1>6, FrontAdded
<1> QED BY <1>4, <1>7 DEF s, t

\* The two values on top changed places (stack_swap).
LEMMA ViewSwapped ==
  ASSUME NEW cells \in [CellAddress -> Int], NEW new \in [CellAddress -> Int], NEW ctx \in Contexts,
         NEW n \in 0 .. STACK_SIZE - 2, cells[SpOf(ctx)] = n, new[SpOf(ctx)] = n,
         new[StackOf(ctx) + n] = cells[StackOf(ctx) + (n + 1)],
         new[StackOf(ctx) + (n + 1)] = cells[StackOf(ctx) + n],
         SameFrom(n + 2, cells, new, ctx)
  PROVE  LET s == LiveOf(cells, ctx)
         IN  LiveOf(new, ctx) = <<s[2], s[1]>> \o SubSeq(s, 3, Len(s))
<1> DEFINE s == LiveOf(cells, ctx)
           t == LiveOf(new, ctx)
           m == STACK_SIZE - n
           top == <<s[2], s[1]>>
           rest == SubSeq(s, 3, Len(s))
<1>1. STACK_SIZE \in Nat /\ n \in 0 .. STACK_SIZE /\ m \in Nat /\ m >= 2
  BY StackAssumption
<1>2. /\ s \in Seq(Int) /\ Len(s) = m
      /\ \A k \in 1 .. m : s[k] = cells[StackOf(ctx) + (n + k - 1)]
  BY <1>1, ViewOf
<1>3. /\ t \in Seq(Int) /\ Len(t) = m
      /\ \A k \in 1 .. m : t[k] = new[StackOf(ctx) + (n + k - 1)]
  BY <1>1, ViewOf
<1>4. t[1] = s[2] /\ t[2] = s[1]
  <2>1. 1 \in 1 .. m /\ 2 \in 1 .. m /\ n + 1 - 1 = n /\ n + 2 - 1 = n + 1
    BY <1>1
  <2> QED BY <1>2, <1>3, <2>1
<1>5. \A k \in 3 .. m : t[k] = s[k]
  <2> SUFFICES ASSUME NEW k \in 3 .. m PROVE t[k] = s[k]
    OBVIOUS
  <2>1. k \in 1 .. m /\ n + k - 1 \in n + 2 .. STACK_SIZE - 1
    BY <1>1
  <2> QED BY <1>2, <1>3, <2>1 DEF SameFrom
<1>6. s[1] \in Int /\ s[2] \in Int
  <2>1. 1 \in 1 .. Len(s) /\ 2 \in 1 .. Len(s)
    BY <1>1, <1>2
  <2> QED BY <1>2, <2>1, ElementOf
<1> HIDE DEF s, t, m
<1>7. top \in Seq(Int) /\ Len(top) = 2 /\ top[1] = s[2] /\ top[2] = s[1]
  BY <1>6
<1>8. /\ rest \in Seq(Int) /\ Len(rest) = m - 2
      /\ \A i \in 1 .. m - 2 : rest[i] = s[i + 2]
  <2>1. /\ rest \in Seq(Int)
        /\ Len(rest) = IF 3 <= m THEN m - 3 + 1 ELSE 0
        /\ \A i \in 1 .. m - 3 + 1 : rest[i] = s[3 + i - 1]
    BY <1>1, <1>2, SubSeqProperties
  <2>2. \A i \in 1 .. m - 2 : i \in 1 .. m - 3 + 1 /\ 3 + i - 1 = i + 2
    BY <1>1
  <2>3. Len(rest) = m - 2
    BY <1>1, <2>1
  <2> QED BY <2>1, <2>2, <2>3
<1> HIDE DEF top, rest
<1>9. /\ top \o rest \in Seq(Int) /\ Len(top \o rest) = 2 + (m - 2)
      /\ \A i \in 1 .. 2 + (m - 2) : (top \o rest)[i] = IF i <= 2 THEN top[i] ELSE rest[i - 2]
  <2>1. /\ top \o rest \in Seq(Int) /\ Len(top \o rest) = Len(top) + Len(rest)
        /\ \A i \in 1 .. Len(top) + Len(rest) :
             (top \o rest)[i] = IF i <= Len(top) THEN top[i] ELSE rest[i - Len(top)]
    <3>1. top \in Seq(Int) /\ rest \in Seq(Int)
      BY <1>7, <1>8
    <3> QED BY ONLY <3>1, ConcatProperties
  <2>2. Len(top) = 2 /\ Len(rest) = m - 2
    BY <1>7, <1>8
  <2> QED BY <2>1, <2>2, Zenon
<1>10. ASSUME NEW i \in 1 .. Len(t) PROVE t[i] = (top \o rest)[i]
  <2>1. i \in 1 .. 2 + (m - 2)
    BY <1>1, <1>3
  <2>2. CASE i \in {1, 2}
    BY <1>4, <1>7, <1>9, <2>1, <2>2
  <2>3. CASE i \notin {1, 2}
    <3>1. i - 2 \in 1 .. m - 2 /\ (i - 2) + 2 = i /\ ~(i <= 2) /\ i \in 3 .. m
      BY <1>1, <1>3, <2>3
    <3> QED BY <1>5, <1>8, <1>9, <2>1, <3>1
  <2> QED BY <2>2, <2>3
<1>11. Len(t) = Len(top \o rest)
  BY <1>1, <1>3, <1>9
<1>12. t = top \o rest
  BY <1>3, <1>9, <1>10, <1>11, SeqEqual
<1> QED BY <1>12 DEF s, t, top, rest

\* A view depends on the stack pointer and the slots from it up only.
LEMMA ViewSame ==
  ASSUME NEW cells \in [CellAddress -> Int], NEW new \in [CellAddress -> Int], NEW ctx \in Contexts,
         NEW n \in 0 .. STACK_SIZE, cells[SpOf(ctx)] = n, new[SpOf(ctx)] = n,
         SameFrom(n, cells, new, ctx)
  PROVE  LiveOf(new, ctx) = LiveOf(cells, ctx)
<1>1. STACK_SIZE \in Nat
  BY StackAssumption
<1>2. /\ LiveOf(cells, ctx) \in Seq(Int) /\ Len(LiveOf(cells, ctx)) = STACK_SIZE - n
      /\ \A k \in 1 .. STACK_SIZE - n : LiveOf(cells, ctx)[k] = cells[StackOf(ctx) + (n + k - 1)]
  BY ViewOf
<1>3. /\ LiveOf(new, ctx) \in Seq(Int) /\ Len(LiveOf(new, ctx)) = STACK_SIZE - n
      /\ \A k \in 1 .. STACK_SIZE - n : LiveOf(new, ctx)[k] = new[StackOf(ctx) + (n + k - 1)]
  BY ViewOf
<1>4. \A k \in 1 .. STACK_SIZE - n : n + k - 1 \in n .. STACK_SIZE - 1
  BY <1>1
<1>5. \A k \in 1 .. STACK_SIZE - n : LiveOf(new, ctx)[k] = LiveOf(cells, ctx)[k]
  BY <1>2, <1>3, <1>4 DEF SameFrom
<1> QED BY <1>2, <1>3, <1>5, SeqEqual

(***************************************************************************)
(* Reaching the storage                                                    *)
(***************************************************************************)
\* Whichever way it is bound, the storage is the context's.
LEMMA Reached ==
  ASSUME NEW ctx, BoundTo(ctx), memory = [cells |-> memory.cells, bound |-> memory.bound]
  PROVE  load_stack_base = StackOf(ctx) /\ load_sp_ptr = SpOf(ctx)
BY DEF BoundTo, load_stack_base, load_sp_ptr, StackOf, SpOf

\* The two contexts' cells lie apart.
LEMMA ContextsApart ==
  ASSUME NEW ctx \in Contexts, NEW d \in Contexts, d # ctx, NEW k \in 0 .. ContextCells - 1
  PROVE  \A j \in 0 .. ContextCells - 1 : d + j # ctx + k
BY StackAssumption DEF Contexts, ContextCells

\* Stores to slots of the bound stack change its slots and its stack pointer and nothing else.
LEMMA CellsStored ==
  ASSUME StackInv, NEW ctx \in Contexts, BoundTo(ctx), NEW updates, NEW sp \in 0 .. STACK_SIZE,
         StoreCells(updates, sp),
         \A a \in DOMAIN updates : updates[a] \in Int /\ \E i \in 0 .. STACK_SIZE - 1 : a = StackOf(ctx) + i
  PROVE  /\ memory' = [cells |-> memory'.cells, bound |-> memory.bound]
         /\ memory'.cells \in [CellAddress -> Int]
         /\ memory'.cells[SpOf(ctx)] = sp
         /\ \A i \in 0 .. STACK_SIZE - 1 :
              memory'.cells[StackOf(ctx) + i] =
                IF StackOf(ctx) + i \in DOMAIN updates THEN updates[StackOf(ctx) + i]
                                                      ELSE memory.cells[StackOf(ctx) + i]
         /\ memory'.cells[ctx] = memory.cells[ctx]
         /\ \A d \in Contexts : d # ctx =>
              \A j \in 0 .. ContextCells - 1 : memory'.cells[d + j] = memory.cells[d + j]
<1>1. /\ load_sp_ptr = SpOf(ctx)
      /\ memory = [cells |-> memory.cells, bound |-> memory.bound]
      /\ memory.cells \in [CellAddress -> Int]
  BY Reached DEF StackInv, StackTypeOK
<1> DEFINE stored == [a \in CellAddress |-> IF a = SpOf(ctx) THEN sp
                        ELSE IF a \in DOMAIN updates THEN updates[a] ELSE memory.cells[a]]
<1>2. memory' = [cells |-> stored, bound |-> memory.bound]
  BY <1>1 DEF StoreCells
<1>3. memory'.cells = stored
  BY <1>2
<1>4. STACK_SIZE \in Nat /\ sp \in Int
  BY StackAssumption
<1>5. stored \in [CellAddress -> Int]
  BY <1>1, <1>4
<1>6. \A i \in 0 .. STACK_SIZE - 1 : StackOf(ctx) + i # SpOf(ctx) /\ StackOf(ctx) + i # ctx
  BY <1>4, ContextCellsIn
<1>7. \A i \in 0 .. STACK_SIZE - 1 : StackOf(ctx) + i \in CellAddress
  BY ContextCellsIn
<1>8. SpOf(ctx) \in CellAddress /\ ctx \in CellAddress /\ SpOf(ctx) # ctx
  BY <1>4, ContextCellsIn
<1>9. ASSUME NEW d \in Contexts, d # ctx, NEW j \in 0 .. ContextCells - 1
      PROVE  d + j \in CellAddress /\ stored[d + j] = memory.cells[d + j]
  <2>1. d + j \in CellAddress
    BY <1>4, <1>9 DEF Contexts, ContextCells, CellAddress
  <2>2. d + j # SpOf(ctx)
    <3>1. 1 + STACK_SIZE \in 0 .. ContextCells - 1 /\ SpOf(ctx) = ctx + (1 + STACK_SIZE)
      BY <1>4, ContextCellsIn DEF ContextCells
    <3> QED BY <1>9, <3>1, ContextsApart
  <2>3. d + j \notin DOMAIN updates
    <3> SUFFICES ASSUME NEW i \in 0 .. STACK_SIZE - 1 PROVE d + j # StackOf(ctx) + i
      OBVIOUS
    <3>1. 1 + i \in 0 .. ContextCells - 1 /\ StackOf(ctx) + i = ctx + (1 + i)
      BY <1>4, ContextCellsIn DEF ContextCells
    <3> QED BY <1>9, <3>1, ContextsApart
  <2> QED BY <2>1, <2>2, <2>3
<1>10. stored[SpOf(ctx)] = sp /\ stored[ctx] = memory.cells[ctx]
  <2>1. ctx \notin DOMAIN updates
    BY <1>6
  <2> QED BY <1>8, <2>1
<1>11. \A i \in 0 .. STACK_SIZE - 1 :
         stored[StackOf(ctx) + i] = IF StackOf(ctx) + i \in DOMAIN updates THEN updates[StackOf(ctx) + i]
                                                                      ELSE memory.cells[StackOf(ctx) + i]
  BY <1>6, <1>7
<1> HIDE DEF stored
<1> QED BY <1>2, <1>3, <1>5, <1>9, <1>10, <1>11

(***************************************************************************)
(* The steps                                                               *)
(***************************************************************************)
\* What a step does to the host's views.
ViewsStep ==
  \A d \in Contexts :
    /\ memory'.cells[d] = memory.cells[d]
    /\ LifoStep(Live(d), Live(d)', IF Bound(d) THEN call'.fn ELSE "other", env')

\* A function of the stack keeps the invariant and the views when what it leaves of the bound
\* context's view is what its name says.
LEMMA FunctionKeeps ==
  ASSUME StackInv, NEW ctx \in Contexts, BoundTo(ctx), NEW updates, NEW sp \in 0 .. STACK_SIZE,
         NEW fn \in StackFunctions, Invoke(fn),
         StoreCells(updates, sp),
         \A a \in DOMAIN updates : updates[a] \in Int /\ \E i \in 0 .. STACK_SIZE - 1 : a = StackOf(ctx) + i,
         LifoStep(LiveOf(memory.cells, ctx), LiveOf(memory'.cells, ctx), fn, env')
  PROVE  StackInv' /\ ViewsStep
<1>1. /\ memory' = [cells |-> memory'.cells, bound |-> memory.bound]
      /\ memory'.cells \in [CellAddress -> Int]
      /\ memory'.cells[SpOf(ctx)] = sp
      /\ memory'.cells[ctx] = memory.cells[ctx]
      /\ \A d \in Contexts : d # ctx =>
           \A j \in 0 .. ContextCells - 1 : memory'.cells[d + j] = memory.cells[d + j]
  BY CellsStored
<1>2. /\ call' = [fn |-> fn, provider |-> call.provider] /\ block' = block
      /\ call' = [fn |-> call'.fn, provider |-> call'.provider]
      /\ call'.fn = fn /\ call'.provider = call.provider
  BY DEF StackInv, Invoke
<1>3. STACK_SIZE \in Nat
  BY StackAssumption
<1>4. /\ memory.cells \in [CellAddress -> Int]
      /\ \A d \in Contexts : memory.cells[SpOf(d)] \in 0 .. STACK_SIZE
  BY DEF StackInv, StackTypeOK
<1>5. ASSUME NEW d \in Contexts, d # ctx
      PROVE  /\ memory'.cells[SpOf(d)] = memory.cells[SpOf(d)]
             /\ memory'.cells[d] = memory.cells[d]
             /\ SameFrom(memory.cells[SpOf(d)], memory.cells, memory'.cells, d)
  <2>1. 1 + STACK_SIZE \in 0 .. ContextCells - 1 /\ SpOf(d) = d + (1 + STACK_SIZE)
    BY <1>3, ContextCellsIn DEF ContextCells
  <2>2. 0 \in 0 .. ContextCells - 1 /\ d + 0 = d
    BY <1>3, ContextCellsIn DEF ContextCells
  <2>3. \A k \in 0 .. STACK_SIZE - 1 : 1 + k \in 0 .. ContextCells - 1 /\ StackOf(d) + k = d + (1 + k)
    BY <1>3, ContextCellsIn DEF ContextCells
  <2>4. \A k \in memory.cells[SpOf(d)] .. STACK_SIZE - 1 : k \in 0 .. STACK_SIZE - 1
    BY <1>3, <1>4
  <2>5. \A j \in 0 .. ContextCells - 1 : memory'.cells[d + j] = memory.cells[d + j]
    BY <1>1, <1>5
  <2>6. \A k \in 0 .. STACK_SIZE - 1 : memory'.cells[StackOf(d) + k] = memory.cells[StackOf(d) + k]
    BY <2>3, <2>5
  <2>7. memory'.cells[SpOf(d)] = memory.cells[SpOf(d)] /\ memory'.cells[d] = memory.cells[d]
    BY <2>1, <2>2, <2>5
  <2> QED BY <2>4, <2>6, <2>7 DEF SameFrom
<1>6. StackInv'
  <2>1. StackTypeOK'
    BY <1>1, <1>2, <1>4, <1>5 DEF StackInv, StackTypeOK
  <2>2. BoundTo(ctx)'
    <3>1. memory'.bound = memory.bound
      BY <1>1
    <3> QED BY <1>2, <3>1 DEF BoundTo
  <2> QED BY <1>1, <1>2, <2>1, <2>2 DEF StackInv, Returned
<1>7. ASSUME NEW d \in Contexts
      PROVE  /\ memory'.cells[d] = memory.cells[d]
             /\ LifoStep(Live(d), Live(d)', IF Bound(d) THEN call'.fn ELSE "other", env')
  <2>1. Live(d) = LiveOf(memory.cells, d) /\ Live(d)' = LiveOf(memory'.cells, d)
    BY DEF Live, LiveOf
  <2>2. load_sp_ptr = SpOf(ctx)
    BY Reached DEF StackInv
  <2>3. CASE d = ctx
    BY <1>1, <1>2, <2>1, <2>2, <2>3 DEF Bound
  <2>4. CASE d # ctx
    <3>1. LiveOf(memory'.cells, d) = LiveOf(memory.cells, d)
      BY <1>1, <1>4, <1>5, <2>4, ViewSame
    <3>2. ~Bound(d)
      <4>1. SpOf(d) # SpOf(ctx)
        BY <1>3, <2>4, ContextCellsIn
      <4> QED BY <2>2, <4>1 DEF Bound
    <3>3. LifoStep(Live(d), Live(d)', "other", env')
      BY <2>1, <3>1 DEF LifoStep
    <3> QED BY <1>5, <2>4, <3>2, <3>3
  <2> QED BY <2>3, <2>4
<1> QED BY <1>6, <1>7 DEF ViewsStep

\* One value stored below the stack pointer, which moves there.
LEMMA PushKeeps ==
  ASSUME StackInv, NEW ctx \in Contexts, BoundTo(ctx), NEW n \in 1 .. STACK_SIZE,
         memory.cells[SpOf(ctx)] = n,
         NEW fn \in StackFunctions, Invoke(fn), NEW v \in Int,
         StoreCells(At1(slot(n - 1), v), n - 1),
         LiveOf(memory'.cells, ctx) = <<v>> \o LiveOf(memory.cells, ctx) =>
           LifoStep(LiveOf(memory.cells, ctx), LiveOf(memory'.cells, ctx), fn, env')
  PROVE  StackInv' /\ ViewsStep
<1> DEFINE updates == At1(slot(n - 1), v)
<1>1. STACK_SIZE \in Nat /\ n - 1 \in 0 .. STACK_SIZE - 1 /\ n - 1 \in 0 .. STACK_SIZE
  BY StackAssumption
<1>2. slot(n - 1) = StackOf(ctx) + (n - 1)
  BY Reached DEF StackInv, slot
<1>3. /\ DOMAIN updates = {StackOf(ctx) + (n - 1)}
      /\ updates[StackOf(ctx) + (n - 1)] = v
  BY <1>2 DEF At1
<1>4. StoreCells(updates, n - 1)
  OBVIOUS
<1> HIDE DEF updates
<1>5. \A a \in DOMAIN updates : updates[a] \in Int /\ \E i \in 0 .. STACK_SIZE - 1 : a = StackOf(ctx) + i
  BY <1>1, <1>3
<1>6. /\ memory'.cells \in [CellAddress -> Int]
      /\ memory'.cells[SpOf(ctx)] = n - 1
      /\ \A i \in 0 .. STACK_SIZE - 1 :
           memory'.cells[StackOf(ctx) + i] =
             IF StackOf(ctx) + i \in DOMAIN updates THEN updates[StackOf(ctx) + i]
                                                   ELSE memory.cells[StackOf(ctx) + i]
  BY <1>1, <1>4, <1>5, CellsStored
<1>7. memory'.cells[StackOf(ctx) + (n - 1)] = v
  BY <1>1, <1>3, <1>6
<1>8. SameFrom(n, memory.cells, memory'.cells, ctx)
  <2> SUFFICES ASSUME NEW k \in n .. STACK_SIZE - 1
               PROVE  memory'.cells[StackOf(ctx) + k] = memory.cells[StackOf(ctx) + k]
    BY DEF SameFrom
  <2>1. k \in 0 .. STACK_SIZE - 1 /\ StackOf(ctx) + k # StackOf(ctx) + (n - 1)
    BY <1>1, ContextCellsIn
  <2> QED BY <1>3, <1>6, <2>1
<1>9. memory.cells \in [CellAddress -> Int]
  BY DEF StackInv, StackTypeOK
<1>10. LiveOf(memory'.cells, ctx) = <<v>> \o LiveOf(memory.cells, ctx)
  BY <1>6, <1>7, <1>8, <1>9, ViewPushed
<1> QED BY <1>1, <1>4, <1>5, <1>10, FunctionKeeps

\* Every call of the host, bind included, keeps the invariant and does to the views what it says.
LEMMA StackStep ==
  ASSUME StackInv, StackNext
  PROVE  StackInv' /\ ViewsStep
<1>1. PICK ctx \in Contexts : BoundTo(ctx)
  BY DEF StackInv
<1>2. /\ load_stack_base = StackOf(ctx) /\ load_sp_ptr = SpOf(ctx)
  BY <1>1, Reached DEF StackInv
<1>3. PICK n \in 0 .. STACK_SIZE : n = load_sp
  BY <1>2 DEF StackInv, StackTypeOK, load_sp
<1>4. /\ STACK_SIZE \in Nat /\ STACK_SIZE >= 3 /\ StackValues \subseteq Int
      /\ memory.cells \in [CellAddress -> Int]
      /\ memory.cells[SpOf(ctx)] = n
  BY <1>2, <1>3, StackAssumption DEF StackInv, StackTypeOK, load_sp
<1>5. \A i \in 0 .. STACK_SIZE - 1 : slot(i) = StackOf(ctx) + i /\ peek_slot(i) = memory.cells[StackOf(ctx) + i]
                                  /\ peek_slot(i) \in Int
  <2>1. \A i \in 0 .. STACK_SIZE - 1 : StackOf(ctx) + i \in CellAddress
    BY ContextCellsIn
  <2> QED BY <1>2, <1>4, <2>1 DEF slot, peek_slot
<1>6. \A i, j \in 0 .. STACK_SIZE - 1 : i # j => StackOf(ctx) + i # StackOf(ctx) + j
  BY ContextCellsIn
<1> DEFINE s == LiveOf(memory.cells, ctx)
           t == LiveOf(memory'.cells, ctx)
<1>7. /\ s \in Seq(Int) /\ Len(s) = STACK_SIZE - n
      /\ \A k \in 1 .. STACK_SIZE - n : s[k] = memory.cells[StackOf(ctx) + (n + k - 1)]
  BY <1>4, ViewOf
<1>8. \A a \in DOMAIN <<>> : FALSE
  OBVIOUS
<1>9. CASE reset_stack
  <2>1. Invoke("reset_stack") /\ StoreCells(<<>>, STACK_SIZE) /\ env' = <<>>
    BY <1>9 DEF reset_stack, NoResult
  <2>2. "reset_stack" \in StackFunctions /\ STACK_SIZE \in 0 .. STACK_SIZE
    BY <1>4 DEF StackFunctions
  <2>3. memory'.cells \in [CellAddress -> Int] /\ memory'.cells[SpOf(ctx)] = STACK_SIZE
    BY <1>1, <1>8, <2>1, <2>2, CellsStored
  <2>4. t \in Seq(Int) /\ Len(t) = STACK_SIZE - STACK_SIZE
    BY <2>2, <2>3, ViewOf
  <2> HIDE DEF s, t
  <2>5. t = <<>>
    BY <1>4, <2>4
  <2>6. LifoStep(s, t, "reset_stack", env')
    BY <2>5 DEF LifoStep
  <2> QED BY <1>1, <1>8, <2>1, <2>2, <2>6, FunctionKeeps DEF s, t
<1>10. ASSUME memory'.cells = memory.cells, memory' = [cells |-> memory'.cells, bound |-> memory'.bound],
              NEW fn \in StackFunctions, call' = [call EXCEPT !.fn = fn], block' = block,
              \E d \in Contexts : BoundTo(d)',
              LifoStep(s, s, fn, env')
       PROVE  StackInv' /\ ViewsStep
  <2>1. /\ call' = [fn |-> fn, provider |-> call.provider]
        /\ call' = [fn |-> call'.fn, provider |-> call'.provider]
        /\ call'.fn = fn /\ call'.provider = call.provider
    BY <1>10 DEF StackInv
  <2>2. StackInv'
    BY <1>10, <2>1 DEF StackInv, StackTypeOK, Returned
  <2>3. ASSUME NEW d \in Contexts
        PROVE  /\ memory'.cells[d] = memory.cells[d]
               /\ LifoStep(Live(d), Live(d)', IF Bound(d) THEN call'.fn ELSE "other", env')
    <3>1. Live(d)' = Live(d)
      BY <1>10 DEF Live
    <3>2. CASE d = ctx
      <4>1. Live(d) = s /\ Bound(d)
        BY <1>2, <3>2 DEF Live, LiveOf, Bound
      <4> QED BY <1>10, <2>1, <3>1, <4>1
    <3>3. CASE d # ctx
      <4>1. ~Bound(d)
        <5>1. SpOf(d) # SpOf(ctx)
          BY <1>4, <3>3, ContextCellsIn
        <5> QED BY <1>2, <5>1 DEF Bound
      <4>2. LifoStep(Live(d), Live(d), "other", env')
        BY DEF LifoStep
      <4> QED BY <1>10, <3>1, <4>1, <4>2
    <3> QED BY <3>2, <3>3
  <2> QED BY <2>2, <2>3 DEF ViewsStep
<1>11. memory = [cells |-> memory.cells, bound |-> memory.bound]
  BY DEF StackInv
<1>12. CASE get_sp
  <2>1. /\ call' = [call EXCEPT !.fn = "get_sp"] /\ block' = block
        /\ memory' = memory /\ env' = [result |-> n]
    BY <1>3, <1>12 DEF get_sp, Invoke
  <2>2. call'.provider = call.provider
    BY <2>1 DEF StackInv
  <2>3. BoundTo(ctx)'
    BY <1>1, <2>1, <2>2 DEF BoundTo
  <2>4. LifoStep(s, s, "get_sp", env')
    <3>1. env'.result = STACK_SIZE - Len(s) /\ env' = [result |-> STACK_SIZE - Len(s)]
      BY <1>4, <1>7, <2>1
    <3> HIDE DEF s
    <3> QED BY <3>1 DEF LifoStep
  <2>5. "get_sp" \in StackFunctions
    BY DEF StackFunctions
  <2>6. memory'.cells = memory.cells /\ memory' = [cells |-> memory'.cells, bound |-> memory'.bound]
    BY <1>11, <2>1
  <2> QED BY <1>10, <2>1, <2>3, <2>4, <2>5, <2>6
<1>13. CASE stack_push
  <2>1. PICK v \in StackValues : StoreCells(At1(slot(n - 1), v), n - 1)
    BY <1>3, <1>13 DEF stack_push
  <2>2. Invoke("push") /\ n \in 1 .. STACK_SIZE /\ v \in Int
    BY <1>3, <1>4, <1>13 DEF stack_push, HasRoom, Depth
  <2>3. t = <<v>> \o s => LifoStep(s, t, "push", env')
    <3> HIDE DEF s, t
    <3> QED BY DEF LifoStep
  <2>4. "push" \in StackFunctions
    BY DEF StackFunctions
  <2> QED BY <1>1, <1>4, <2>1, <2>2, <2>3, <2>4, PushKeeps
<1>14. CASE stack_pop
  <2>1. /\ Invoke("pop") /\ n + 1 \in 0 .. STACK_SIZE /\ n + 1 \in 1 .. STACK_SIZE /\ n \in 0 .. STACK_SIZE - 1
        /\ StoreCells(<<>>, n + 1)
        /\ env' = [result |-> peek_slot(n)]
    BY <1>3, <1>4, <1>14 DEF stack_pop, Depth
  <2>2. /\ memory'.cells \in [CellAddress -> Int] /\ memory'.cells[SpOf(ctx)] = n + 1
        /\ \A i \in 0 .. STACK_SIZE - 1 :
             memory'.cells[StackOf(ctx) + i] =
               IF StackOf(ctx) + i \in DOMAIN <<>> THEN <<>>[StackOf(ctx) + i] ELSE memory.cells[StackOf(ctx) + i]
    BY <1>1, <1>8, <2>1, CellsStored
  <2>3. SameFrom(n + 1, memory'.cells, memory.cells, ctx)
    <3>1. \A i \in 0 .. STACK_SIZE - 1 : memory'.cells[StackOf(ctx) + i] = memory.cells[StackOf(ctx) + i]
      BY <1>8, <2>2
    <3>2. \A k \in n + 1 .. STACK_SIZE - 1 : k \in 0 .. STACK_SIZE - 1
      BY <2>1
    <3> QED BY <3>1, <3>2 DEF SameFrom
  <2>4. s = <<memory.cells[StackOf(ctx) + ((n + 1) - 1)]>> \o t
    <3>1. memory.cells[SpOf(ctx)] = (n + 1) - 1
      BY <1>4
    <3>2. memory.cells \in [CellAddress -> Int] /\ ctx \in Contexts
      BY <1>4
    <3>3. LiveOf(memory.cells, ctx) = <<memory.cells[StackOf(ctx) + ((n + 1) - 1)]>> \o LiveOf(memory'.cells, ctx)
      BY <2>1, <2>2, <2>3, <3>1, <3>2, ViewPushed, Zenon
    <3> QED BY <3>3
  <2>5. env'.result = memory.cells[StackOf(ctx) + ((n + 1) - 1)]
    <3>1. (n + 1) - 1 = n
      OBVIOUS
    <3> QED BY <1>5, <2>1, <3>1
  <2>6. "pop" \in StackFunctions
    BY DEF StackFunctions
  <2>7. LifoStep(s, t, "pop", env')
    <3> HIDE DEF s, t
    <3> QED BY <2>4, <2>5 DEF LifoStep
  <2> QED BY <1>1, <1>8, <2>1, <2>6, <2>7, FunctionKeeps
<1>15. ASSUME NEW k \in 1 .. 2, k <= STACK_SIZE - n
       PROVE  /\ n + k - 1 \in 0 .. STACK_SIZE - 1
              /\ s[k] = peek_slot(n + k - 1) /\ s[k] \in Int
  <2>1. n + k - 1 \in 0 .. STACK_SIZE - 1 /\ k \in 1 .. STACK_SIZE - n
    BY <1>4, <1>15
  <2> QED BY <1>5, <1>7, <2>1
<1>16. CASE stack_dup
  <2>1. /\ Invoke("dup") /\ n \in 1 .. STACK_SIZE /\ 1 <= STACK_SIZE - n
        /\ StoreCells(At1(slot(n - 1), peek_slot(n)), n - 1)
    BY <1>3, <1>4, <1>16 DEF stack_dup, HasRoom, Depth
  <2>2. s[1] = peek_slot(n) /\ s[1] \in Int
    <3>1. 1 \in 1 .. 2 /\ n + 1 - 1 = n
      OBVIOUS
    <3> QED BY <1>15, <2>1, <3>1
  <2>3. t = <<s[1]>> \o s => LifoStep(s, t, "dup", env')
    <3> HIDE DEF s, t
    <3> QED BY DEF LifoStep
  <2>4. "dup" \in StackFunctions
    BY DEF StackFunctions
  <2> QED BY <1>1, <1>4, <2>1, <2>2, <2>3, <2>4, PushKeeps
<1>17. CASE stack_over
  <2>1. /\ Invoke("over") /\ n \in 1 .. STACK_SIZE /\ 2 <= STACK_SIZE - n
        /\ StoreCells(At1(slot(n - 1), peek_slot(n + 1)), n - 1)
    BY <1>3, <1>4, <1>17 DEF stack_over, HasRoom, Depth
  <2>2. s[2] = peek_slot(n + 1) /\ s[2] \in Int
    <3>1. 2 \in 1 .. 2 /\ n + 2 - 1 = n + 1
      OBVIOUS
    <3> QED BY <1>15, <2>1, <3>1
  <2>3. t = <<s[2]>> \o s => LifoStep(s, t, "over", env')
    <3> HIDE DEF s, t
    <3> QED BY DEF LifoStep
  <2>4. "over" \in StackFunctions
    BY DEF StackFunctions
  <2> QED BY <1>1, <1>4, <2>1, <2>2, <2>3, <2>4, PushKeeps
<1>18. CASE stack_swap
  <2> DEFINE updates == At2(slot(n + 1), peek_slot(n), slot(n), peek_slot(n + 1))
             low == StackOf(ctx) + n
             high == StackOf(ctx) + (n + 1)
  <2>1. /\ Invoke("swap") /\ n \in 0 .. STACK_SIZE - 2
        /\ n \in 0 .. STACK_SIZE - 1 /\ n + 1 \in 0 .. STACK_SIZE - 1
        /\ StoreCells(updates, n)
    BY <1>3, <1>4, <1>18 DEF stack_swap, Depth
  <2>2. slot(n + 1) = high /\ slot(n) = low /\ low # high
    BY <1>5, <1>6, <2>1
  <2>3. peek_slot(n) = memory.cells[low] /\ peek_slot(n + 1) = memory.cells[high]
        /\ peek_slot(n) \in Int /\ peek_slot(n + 1) \in Int
    BY <1>5, <2>1
  <2>4. /\ DOMAIN updates = {high, low}
        /\ updates[low] = memory.cells[high] /\ updates[high] = memory.cells[low]
    BY <2>2, <2>3 DEF At2
  <2> HIDE DEF updates
  <2>5. \A a \in DOMAIN updates : updates[a] \in Int /\ \E i \in 0 .. STACK_SIZE - 1 : a = StackOf(ctx) + i
    BY <2>1, <2>3, <2>4
  <2>6. /\ memory'.cells \in [CellAddress -> Int] /\ memory'.cells[SpOf(ctx)] = n
        /\ \A i \in 0 .. STACK_SIZE - 1 :
             memory'.cells[StackOf(ctx) + i] =
               IF StackOf(ctx) + i \in DOMAIN updates THEN updates[StackOf(ctx) + i]
                                                     ELSE memory.cells[StackOf(ctx) + i]
    BY <1>1, <2>1, <2>5, CellsStored
  <2>7. memory'.cells[low] = memory.cells[high] /\ memory'.cells[high] = memory.cells[low]
    BY <2>1, <2>4, <2>6
  <2>8. SameFrom(n + 2, memory.cells, memory'.cells, ctx)
    <3> SUFFICES ASSUME NEW k \in n + 2 .. STACK_SIZE - 1
                 PROVE  memory'.cells[StackOf(ctx) + k] = memory.cells[StackOf(ctx) + k]
      BY DEF SameFrom
    <3>1. k \in 0 .. STACK_SIZE - 1 /\ k # n /\ k # n + 1
      BY <1>4
    <3>2. StackOf(ctx) + k # low /\ StackOf(ctx) + k # high
      BY <1>6, <2>1, <3>1
    <3> QED BY <2>4, <2>6, <3>1, <3>2
  <2>9. t = <<s[2], s[1]>> \o SubSeq(s, 3, Len(s))
    BY <1>4, <2>1, <2>6, <2>7, <2>8, ViewSwapped
  <2>10. LifoStep(s, t, "swap", env')
    <3> HIDE DEF s, t
    <3> QED BY <2>9 DEF LifoStep
  <2>11. "swap" \in StackFunctions
    BY DEF StackFunctions
  <2> QED BY <1>1, <2>1, <2>5, <2>10, <2>11, FunctionKeeps
<1>19. ASSUME Invoke("bind"), NEW d \in Contexts, NEW where, memory' = [memory EXCEPT !.bound = where],
              where = IF call.provider = "context" THEN [ctx |-> d]
                      ELSE [base |-> StackOf(d), sp |-> SpOf(d)]
       PROVE  StackInv' /\ ViewsStep
  <2>1. call' = [call EXCEPT !.fn = "bind"] /\ block' = block /\ "bind" \in StackFunctions
    BY <1>19 DEF Invoke, StackFunctions
  <2>2. memory'.cells = memory.cells /\ memory'.bound = where
        /\ memory' = [cells |-> memory'.cells, bound |-> memory'.bound]
    BY <1>11, <1>19
  <2>3. call'.provider = call.provider
    BY <2>1 DEF StackInv
  <2>4. BoundTo(d)'
    BY <1>19, <2>2, <2>3 DEF BoundTo
  <2>5. LifoStep(s, s, "bind", env')
    <3> HIDE DEF s
    <3> QED BY DEF LifoStep
  <2> QED BY <1>10, <2>1, <2>2, <2>4, <2>5
<1>20. CASE bind_external_stack /\ call.provider = "external"
  <2>1. PICK d \in Contexts : memory' = [memory EXCEPT !.bound = [base |-> StackOf(d), sp |-> SpOf(d)]]
    BY <1>20 DEF bind_external_stack
  <2>2. Invoke("bind") /\ call.provider # "context"
    BY <1>20 DEF bind_external_stack
  <2> QED BY <1>19, <2>1, <2>2
<1>21. CASE bind_stack_context /\ call.provider = "context"
  <2>1. PICK d \in Contexts : memory' = [memory EXCEPT !.bound.ctx = d]
    BY <1>21 DEF bind_stack_context
  <2>2. Invoke("bind")
    BY <1>21 DEF bind_stack_context
  <2>3. memory.bound = [ctx |-> ctx]
    BY <1>1, <1>21 DEF BoundTo
  <2>4. memory' = [memory EXCEPT !.bound = [ctx |-> d]]
    BY <1>11, <2>1, <2>3
  <2> QED BY <1>19, <1>21, <2>2, <2>4
<1> QED BY <1>9, <1>12, <1>13, <1>14, <1>16, <1>17, <1>18, <1>20, <1>21
        DEF StackNext, GlobalStack, ExternalStack, ContextStack, Provided, StackOps

(***************************************************************************)
(* The cell lab's calculator.  Its blocks hand each other what they found; *)
(* the invariant keeps it true of the memory they look at again, and so    *)
(* each exit edge carries a status that is due.                            *)
(***************************************************************************)
\* Why a call may end with an error (the exit edges of eval_cells).
Due(error) ==
  \/ error = "STACK_UNDERFLOW" /\ ~enough_items
  \/ error = "STACK_OVERFLOW" /\ memory.sp = 0
  \/ error = "DIVIDE_BY_ZERO" /\ enough_items /\ rhs = 0
  \/ error = "STACK_NOT_SINGLETON" /\ memory.sp # StackSize - 1
  \/ error \in {"BAD_OPCODE", "MISSING_EXIT"}

EvalInv ==
  /\ call.fn = "eval_cells"
  /\ EvalTypeOK
  /\ block = "entry" => memory = [stack |-> [i \in Slots |-> 0], sp |-> 0, result |-> 0]
  /\ block # "returned" => memory.result = 0
  /\ block \in {"literal.check", "literal.store"} => env.literal \in LiteralValues
  /\ block = "literal.store" => memory.sp # 0
  /\ block \in {"check", "zero_check", "apply"} => env.opcode \in BinaryOps
  /\ block \in {"zero_check", "apply"} => enough_items
  /\ block = "apply" /\ env.opcode \in zero_sensitive => rhs # 0
  /\ block \in DOMAIN Errors => Due(Errors[block])
  /\ block = "ok.singleton" => memory.sp = StackSize - 1
  /\ block = "exit" =>
       \/ Due(env.status) /\ env.result = 0
       \/ env.status = "OK" /\ memory.sp = StackSize - 1 /\ env.result = memory.stack[memory.sp]

\* The values of a stack array, bottom first (EvalStack).
StackView(stack, sp) == [i \in 1 .. StackSize - sp |-> stack[StackSize - i]]

\* What the operators' blocks store is a word.
LEMMA CellResultIsWord ==
  ASSUME NEW op \in BinaryOps, NEW x \in Word, NEW y \in Word, op \in zero_sensitive => y # 0
  PROVE  Apply(op, x, y) \in Word
<1>1. Half \in Nat \ {0} /\ x \in Int /\ y \in Int
  BY HalfAssumption DEF Word
<1>2. \A a \in Int : Wrap(a) \in Word
  BY WrapStandsFor DEF StandsFor
<1>3. CASE op \in {"+", "-", "*"}
  <2>1. x + y \in Int /\ x - y \in Int /\ x * y \in Int
    BY <1>1
  <2> QED BY <1>2, <1>3, <2>1 DEF Apply
<1>4. CASE op \in zero_sensitive
  <2>1. Magnitude(x) \in Nat /\ Magnitude(y) \in Nat \ {0}
    BY <1>1, <1>4 DEF Magnitude
  <2>2. Magnitude(x) \div Magnitude(y) \in Int
    BY <2>1
  <2>3. TruncQuotient(x, y) \in Int
    BY <2>2 DEF TruncQuotient
  <2>4. TruncRemainder(x, y) \in Int
    BY <1>1, <2>3 DEF TruncRemainder
  <2> QED BY <1>2, <1>4, <2>3, <2>4 DEF Apply, zero_sensitive
<1> QED BY <1>3, <1>4 DEF BinaryOps, zero_sensitive

\* The view is a sequence of words.
LEMMA CellView ==
  ASSUME NEW stack \in [Slots -> Word], NEW sp \in 0 .. StackSize
  PROVE  /\ StackView(stack, sp) \in Seq(Word)
         /\ Len(StackView(stack, sp)) = StackSize - sp
         /\ \A i \in 1 .. StackSize - sp : StackView(stack, sp)[i] = stack[StackSize - i]
<1>1. StackSize \in Nat /\ StackSize - sp \in Nat
  BY CellRpnAssumption
<1>2. \A i \in 1 .. StackSize - sp : StackSize - i \in Slots
  BY <1>1 DEF Slots
<1> QED BY <1>1, <1>2 DEF StackView

\* A store below the stack pointer appends to the view (literal.store).
LEMMA CellPushed ==
  ASSUME NEW stack \in [Slots -> Word], NEW sp \in 1 .. StackSize, NEW v \in Word
  PROVE  StackView([stack EXCEPT ![sp - 1] = v], sp - 1) = Append(StackView(stack, sp), v)
<1> DEFINE n == StackSize - sp
           new == [stack EXCEPT ![sp - 1] = v]
           s == StackView(stack, sp)
           t == StackView(new, sp - 1)
<1>1. /\ StackSize \in Nat /\ n \in Nat /\ StackSize - (sp - 1) = n + 1 /\ StackSize - (n + 1) = sp - 1
      /\ sp \in 0 .. StackSize /\ sp - 1 \in 0 .. StackSize /\ sp - 1 \in Slots
  BY CellRpnAssumption DEF Slots
<1>2. new \in [Slots -> Word] /\ new[sp - 1] = v
  BY <1>1
<1>3. s \in Seq(Word) /\ Len(s) = n /\ \A i \in 1 .. n : s[i] = stack[StackSize - i]
  BY <1>1, CellView
<1>4. t \in Seq(Word) /\ Len(t) = n + 1 /\ \A i \in 1 .. n + 1 : t[i] = new[StackSize - i]
  <2>1. t \in Seq(Word) /\ Len(t) = StackSize - (sp - 1) /\ \A i \in 1 .. StackSize - (sp - 1) : t[i] = new[StackSize - i]
    BY <1>1, <1>2, CellView
  <2> QED BY <1>1, <2>1
<1>5. \A i \in 1 .. n : StackSize - i \in Slots /\ StackSize - i # sp - 1
  BY <1>1 DEF Slots
<1>6. \A i \in 1 .. n : new[StackSize - i] = stack[StackSize - i]
  BY <1>5
<1> HIDE DEF n, new, s, t
<1>7. \A i \in 1 .. n : i \in 1 .. n + 1
  BY <1>1
<1>8. \A i \in 1 .. Len(s) : t[i] = s[i]
  BY <1>3, <1>4, <1>6, <1>7
<1>9. t[Len(s) + 1] = v
  BY <1>1, <1>2, <1>3, <1>4
<1>10. t = Append(s, v)
  BY <1>1, <1>3, <1>4, <1>8, <1>9, AppendEqual
<1> QED BY <1>10 DEF s, t, new

\* A store over the second value takes the last two off the view and appends (apply).
LEMMA CellReduced ==
  ASSUME NEW stack \in [Slots -> Word], NEW sp \in 0 .. StackSize - 2, NEW v \in Word
  PROVE  StackView([stack EXCEPT ![sp + 1] = v], sp + 1)
           = Append(SubSeq(StackView(stack, sp), 1, StackSize - sp - 2), v)
<1> DEFINE n == StackSize - sp - 2
           new == [stack EXCEPT ![sp + 1] = v]
           s == StackView(stack, sp)
           t == StackView(new, sp + 1)
           kept == SubSeq(s, 1, n)
<1>1. /\ StackSize \in Nat /\ n \in Nat /\ StackSize - (sp + 1) = n + 1 /\ StackSize - (n + 1) = sp + 1
      /\ StackSize - sp = n + 2
      /\ sp \in 0 .. StackSize /\ sp + 1 \in 0 .. StackSize /\ sp + 1 \in Slots
  BY CellRpnAssumption DEF Slots
<1>2. new \in [Slots -> Word] /\ new[sp + 1] = v
  BY <1>1
<1>3. s \in Seq(Word) /\ Len(s) = n + 2 /\ \A i \in 1 .. n + 2 : s[i] = stack[StackSize - i]
  <2>1. s \in Seq(Word) /\ Len(s) = StackSize - sp /\ \A i \in 1 .. StackSize - sp : s[i] = stack[StackSize - i]
    BY <1>1, CellView
  <2> QED BY <1>1, <2>1
<1>4. t \in Seq(Word) /\ Len(t) = n + 1 /\ \A i \in 1 .. n + 1 : t[i] = new[StackSize - i]
  <2>1. t \in Seq(Word) /\ Len(t) = StackSize - (sp + 1) /\ \A i \in 1 .. StackSize - (sp + 1) : t[i] = new[StackSize - i]
    BY <1>1, <1>2, CellView
  <2> QED BY <1>1, <2>1
<1>5. \A i \in 1 .. n : StackSize - i \in Slots /\ StackSize - i # sp + 1
  BY <1>1 DEF Slots
<1>6. \A i \in 1 .. n : new[StackSize - i] = stack[StackSize - i]
  BY <1>5
<1>7. \A i \in 1 .. n : i \in 1 .. n + 1 /\ i \in 1 .. n + 2
  BY <1>1
<1> HIDE DEF n, new, s, t
<1>8. kept \in Seq(Word) /\ Len(kept) = n /\ \A i \in 1 .. n : kept[i] = s[i]
  BY <1>1, <1>3
<1> HIDE DEF kept
<1>9. \A i \in 1 .. Len(kept) : t[i] = kept[i]
  BY <1>3, <1>4, <1>6, <1>7, <1>8
<1>10. t[Len(kept) + 1] = v
  BY <1>1, <1>2, <1>4, <1>8
<1>11. t = Append(kept, v)
  BY <1>1, <1>4, <1>8, <1>9, <1>10, AppendEqual
<1> QED BY <1>11 DEF s, t, new, kept, n

\* The specification's arithmetic is the lab's.
LEMMA SameWords ==
  /\ CellRpn!BinaryOps = BinaryOps
  /\ CellRpn!zero_sensitive = zero_sensitive
  /\ CellRpn!LiteralValues = LiteralValues
  /\ \A op, x, y : CellRpn!Undefined(op, x, y) = Undefined(op, x, y)
  /\ \A op, x, y : CellRpn!Apply(op, x, y) = Apply(op, x, y)
<1>1. \A x : CellRpn!Wrap(x) = Wrap(x)
  BY Zenon DEF CellRpn!Wrap, Wrap
<1>2. \A x : CellRpn!Magnitude(x) = Magnitude(x)
  BY Zenon DEF CellRpn!Magnitude, Magnitude
<1>3. \A x, y : CellRpn!TruncQuotient(x, y) = TruncQuotient(x, y)
  BY <1>2, Zenon DEF CellRpn!TruncQuotient, TruncQuotient
<1>4. \A x, y : CellRpn!TruncRemainder(x, y) = TruncRemainder(x, y)
  BY <1>3, Zenon DEF CellRpn!TruncRemainder, TruncRemainder
<1>5. \A op, x, y : CellRpn!Apply(op, x, y) = Apply(op, x, y)
  BY <1>1, <1>3, <1>4, Zenon DEF CellRpn!Apply, Apply
<1> QED BY <1>5, Zenon
        DEF CellRpn!BinaryOps, BinaryOps, CellRpn!zero_sensitive, zero_sensitive,
            CellRpn!LiteralValues, LiteralValues, CellRpn!Undefined, Undefined

\* A call finds a zeroed context (run_program).
LEMMA EvalInitial == EvalInit => EvalInv
<1> SUFFICES ASSUME EvalInit PROVE EvalInv
  OBVIOUS
<1>1. /\ call.fn = "eval_cells" /\ block = "entry"
      /\ memory = [stack |-> [i \in Slots |-> 0], sp |-> 0, result |-> 0]
  BY DEF EvalInit
<1>2. 0 \in Word /\ 0 \in 0 .. StackSize
  BY HalfAssumption, CellRpnAssumption DEF Word
<1>3. memory \in [stack : [Slots -> Word], sp : 0 .. StackSize, result : Word]
  BY <1>1, <1>2
<1>4. EvalTypeOK
  BY <1>1, <1>3 DEF EvalTypeOK, EvalLabels
<1>5. "entry" \notin DOMAIN Errors
  BY DEF Errors
<1> QED BY <1>1, <1>4, <1>5 DEF EvalInv

\* What the context holds while a call runs.
LEMMA EvalFacts ==
  ASSUME EvalInv
  PROVE  /\ call.fn = "eval_cells"
         /\ memory = [stack |-> memory.stack, sp |-> memory.sp, result |-> memory.result]
         /\ memory.stack \in [Slots -> Word] /\ memory.sp \in 0 .. StackSize /\ memory.result \in Word
         /\ StackSize \in Nat /\ StackSize >= 2
BY CellRpnAssumption DEF EvalInv, EvalTypeOK

\* Every block keeps the invariant.
LEMMA EvalKeeps == EvalInv /\ EvalNext => EvalInv'
<1> SUFFICES ASSUME EvalInv, EvalNext PROVE EvalInv'
  OBVIOUS
<1>1. /\ call.fn = "eval_cells"
      /\ memory = [stack |-> memory.stack, sp |-> memory.sp, result |-> memory.result]
      /\ memory.stack \in [Slots -> Word] /\ memory.sp \in 0 .. StackSize /\ memory.result \in Word
      /\ StackSize \in Nat /\ StackSize >= 2
  BY EvalFacts
<1>2. call' = call
  BY DEF EvalNext, eval_entry, eval_loop, eval_dispatch, literal_check, literal_store, opcode_dispatch,
         binary_check, zero_check, binary_apply, binary_trap, eval_ok, ok_singleton, error_blocks,
         eval_finish, InEval, Reads, At
<1>3. DOMAIN Errors = {"missing_exit", "underflow", "divzero", "bad_opcode", "bad_exit_shape", "overflow"}
  BY DEF Errors
<1>4. /\ Errors["missing_exit"] = "MISSING_EXIT" /\ Errors["underflow"] = "STACK_UNDERFLOW"
      /\ Errors["divzero"] = "DIVIDE_BY_ZERO" /\ Errors["bad_opcode"] = "BAD_OPCODE"
      /\ Errors["bad_exit_shape"] = "STACK_NOT_SINGLETON" /\ Errors["overflow"] = "STACK_OVERFLOW"
  BY DEF Errors
<1>5. block' \in EvalLabels => (memory' = memory => EvalTypeOK')
  BY <1>1, <1>2 DEF EvalInv, EvalTypeOK
<1>6. memory' = memory => (enough_items' = enough_items /\ rhs' = rhs)
  BY DEF enough_items, rhs
<1>7. memory' = memory => \A e : Due(e)' = Due(e)
  BY DEF Due, enough_items, rhs
<1>8. CASE eval_entry
  <2>1. block = "entry" /\ memory' = [memory EXCEPT !.sp = StackSize] /\ block' = "loop"
    BY <1>8 DEF eval_entry, InEval, At, Evaluating, GotoWith
  <2>2. memory' = [stack |-> memory.stack, sp |-> StackSize, result |-> memory.result]
    BY <1>1, <2>1
  <2>3. memory'.result = 0
    BY <2>1, <2>2 DEF EvalInv
  <2>4. EvalTypeOK'
    BY <1>1, <2>1, <2>2 DEF EvalTypeOK, EvalLabels
  <2> QED BY <1>1, <1>2, <1>3, <2>1, <2>3, <2>4 DEF EvalInv
<1>9. CASE eval_loop
  <2>1. block = "loop" /\ memory' = memory /\ env' = env /\ block' \in {"missing_exit", "dispatch"}
    BY <1>9 DEF eval_loop, Reads, InEval, At, Branch, Goto
  <2>2. Due("MISSING_EXIT")
    BY DEF Due
  <2> QED BY <1>1, <1>2, <1>3, <1>4, <1>5, <1>7, <2>1, <2>2 DEF EvalInv, EvalLabels
<1>10. CASE eval_dispatch
  <2>1. /\ block = "dispatch" /\ memory' = memory
        /\ \/ block' = "literal.check" /\ env'.literal \in CellLiterals
           \/ block' = "opcode.dispatch"
    BY <1>10 DEF eval_dispatch, Reads, InEval, At, FetchedLiteral, FetchedOpcode, GotoWith
  <2>2. CellLiterals \subseteq LiteralValues
    BY CellRpnAssumption
  <2> QED BY <1>1, <1>2, <1>3, <1>5, <2>1, <2>2 DEF EvalInv, EvalLabels
<1>11. CASE literal_check
  <2>1. /\ block = "literal.check" /\ memory' = memory /\ env' = env
        /\ block' = IF memory.sp # 0 THEN "literal.store" ELSE "overflow"
    BY <1>11 DEF literal_check, Reads, InEval, At, Branch, Goto
  <2>2. memory.sp = 0 => Due("STACK_OVERFLOW")
    BY DEF Due
  <2> QED BY <1>1, <1>2, <1>3, <1>4, <1>5, <1>7, <2>1, <2>2 DEF EvalInv, EvalLabels
<1>12. CASE literal_store
  <2>1. /\ block = "literal.store" /\ block' = "loop"
        /\ memory' = [memory EXCEPT !.stack[memory.sp - 1] = env.literal, !.sp = memory.sp - 1]
    BY <1>12 DEF literal_store, InEval, At, store_at, Evaluating, GotoWith
  <2>2. env.literal \in Word /\ memory.sp - 1 \in 0 .. StackSize
    BY <1>1, <2>1, HalfAssumption DEF EvalInv, LiteralValues, Word
  <2>3. memory' = [stack |-> [memory.stack EXCEPT ![memory.sp - 1] = env.literal],
                   sp |-> memory.sp - 1, result |-> memory.result]
    BY <1>1, <2>1
  <2>4. EvalTypeOK'
    <3>1. [memory.stack EXCEPT ![memory.sp - 1] = env.literal] \in [Slots -> Word]
      BY <1>1, <2>2
    <3> QED BY <1>1, <2>1, <2>2, <2>3, <3>1 DEF EvalTypeOK, EvalLabels
  <2>5. memory'.result = 0
    BY <2>1, <2>3 DEF EvalInv
  <2> QED BY <1>1, <1>2, <1>3, <2>1, <2>4, <2>5 DEF EvalInv
<1>13. CASE opcode_dispatch
  <2>1. /\ block = "opcode.dispatch" /\ memory' = memory /\ env' = env
        /\ block' \in {"check", "ok", "bad_opcode"}
        /\ block' = "check" => env.opcode \in BinaryOps
    BY <1>13 DEF opcode_dispatch, Reads, InEval, At, Goto, BinaryOps
  <2>2. Due("BAD_OPCODE")
    BY DEF Due
  <2> QED BY <1>1, <1>2, <1>3, <1>4, <1>5, <1>7, <2>1, <2>2 DEF EvalInv, EvalLabels
<1>14. CASE binary_check
  <2>1. /\ block = "check" /\ memory' = memory /\ env' = env
        /\ block' = IF ~enough_items THEN "underflow"
                    ELSE IF env.opcode \in zero_sensitive THEN "zero_check" ELSE "apply"
    BY <1>14 DEF binary_check, Reads, InEval, At, Goto
  <2>2. ~enough_items => Due("STACK_UNDERFLOW")
    BY DEF Due
  <2>3. env.opcode \in BinaryOps /\ memory.result = 0
    BY <2>1 DEF EvalInv
  <2>4. block' \in EvalLabels
    BY <1>3, <2>1 DEF EvalLabels
  <2> QED BY <1>1, <1>2, <1>3, <1>4, <1>5, <1>6, <1>7, <2>1, <2>2, <2>3, <2>4 DEF EvalInv
<1>15. CASE zero_check
  <2>1. /\ block = "zero_check" /\ memory' = memory /\ env' = env
        /\ block' = IF rhs = 0 THEN "divzero" ELSE "apply"
    BY <1>15 DEF zero_check, Reads, InEval, At, Branch, Goto
  <2>2. env.opcode \in BinaryOps /\ memory.result = 0 /\ enough_items
    BY <2>1 DEF EvalInv
  <2>3. rhs = 0 => Due("DIVIDE_BY_ZERO")
    BY <2>2 DEF Due
  <2>4. block' \in EvalLabels
    BY <1>3, <2>1 DEF EvalLabels
  <2> QED BY <1>1, <1>2, <1>3, <1>4, <1>5, <1>6, <1>7, <2>1, <2>2, <2>3, <2>4 DEF EvalInv
<1>16. CASE binary_apply
  <2> DEFINE x == Apply(env.opcode, lhs, rhs)
  <2>1. /\ block = "apply" /\ block' = "loop"
        /\ memory' = [memory EXCEPT !.stack[memory.sp + 1] = x, !.sp = memory.sp + 1]
    BY <1>16 DEF binary_apply, InEval, At, store_at, Evaluating, GotoWith
  <2>2. x \in Word /\ memory.sp + 1 \in 0 .. StackSize
    <3>1. memory.sp <= StackSize - 2 /\ env.opcode \in BinaryOps /\ (env.opcode \in zero_sensitive => rhs # 0)
      BY <2>1 DEF EvalInv, enough_items
    <3>2. memory.sp \in Slots /\ memory.sp + 1 \in Slots
      BY <1>1, <3>1 DEF Slots
    <3>3. lhs \in Word /\ rhs \in Word
      BY <1>1, <3>2 DEF lhs, rhs
    <3>4. x \in Word
      BY <3>1, <3>3, CellResultIsWord
    <3> QED BY <1>1, <3>1, <3>4
  <2> HIDE DEF x
  <2>3. memory' = [stack |-> [memory.stack EXCEPT ![memory.sp + 1] = x],
                   sp |-> memory.sp + 1, result |-> memory.result]
    BY <1>1, <2>1
  <2>4. EvalTypeOK'
    <3>1. [memory.stack EXCEPT ![memory.sp + 1] = x] \in [Slots -> Word]
      BY <1>1, <2>2
    <3> QED BY <1>1, <2>1, <2>2, <2>3, <3>1 DEF EvalTypeOK, EvalLabels
  <2>5. memory'.result = 0
    BY <2>1, <2>3 DEF EvalInv
  <2> QED BY <1>1, <1>2, <1>3, <2>1, <2>4, <2>5 DEF EvalInv
<1>17. CASE binary_trap
  <2>1. block = "apply" /\ block' = "trapped" /\ memory' = memory
    BY <1>17 DEF binary_trap, Reads, InEval, At, Goto
  <2> QED BY <1>1, <1>2, <1>3, <1>5, <2>1 DEF EvalInv, EvalLabels
<1>18. CASE eval_ok
  <2>1. /\ block = "ok" /\ memory' = memory
        /\ block' = IF memory.sp = StackSize - 1 THEN "ok.singleton" ELSE "bad_exit_shape"
    BY <1>18 DEF eval_ok, Reads, InEval, At, Branch, Goto
  <2>2. memory.sp # StackSize - 1 => Due("STACK_NOT_SINGLETON")
    BY DEF Due
  <2> QED BY <1>1, <1>2, <1>3, <1>4, <1>5, <1>7, <2>1, <2>2 DEF EvalInv, EvalLabels
<1>19. CASE ok_singleton
  <2>1. /\ block = "ok.singleton" /\ memory' = memory /\ block' = "exit"
        /\ env'.status = "OK" /\ env'.result = memory.stack[memory.sp]
    BY <1>19 DEF ok_singleton, Reads, InEval, At, remember_exit, GotoWith
  <2> QED BY <1>1, <1>2, <1>3, <1>5, <2>1 DEF EvalInv, EvalLabels
<1>20. CASE error_blocks
  <2>1. /\ block \in DOMAIN Errors /\ memory' = memory /\ block' = "exit"
        /\ env'.status = Errors[block] /\ env'.result = 0
    BY <1>20 DEF error_blocks, Reads, InEval, At, remember_exit, GotoWith
  <2>2. Due(env'.status)
    BY <2>1 DEF EvalInv
  <2>3. (Due(env.status))'
    BY <2>1, <2>2 DEF Due, enough_items, rhs
  <2>4. block # "returned" /\ memory.result = 0
    BY <1>3, <2>1 DEF EvalInv
  <2> QED BY <1>1, <1>2, <1>3, <1>5, <2>1, <2>3, <2>4 DEF EvalInv, EvalLabels
<1>21. CASE eval_finish
  <2>1. /\ block = "exit" /\ block' = "returned" /\ memory' = [memory EXCEPT !.result = env.result]
    BY <1>21 DEF eval_finish, InEval, At, Ret, GotoWith
  <2>2. env.result \in Word
    <3>1. CASE env.result = 0
      BY <3>1, HalfAssumption DEF Word
    <3>2. CASE memory.sp = StackSize - 1 /\ env.result = memory.stack[memory.sp]
      <4>1. memory.sp \in Slots
        BY <1>1, <3>2 DEF Slots
      <4> QED BY <1>1, <3>2, <4>1
    <3> QED BY <2>1, <3>1, <3>2 DEF EvalInv
  <2>3. memory' = [stack |-> memory.stack, sp |-> memory.sp, result |-> env.result]
    BY <1>1, <2>1
  <2>4. EvalTypeOK'
    BY <1>1, <2>1, <2>2, <2>3 DEF EvalTypeOK, EvalLabels
  <2> QED BY <1>1, <1>2, <1>3, <2>1, <2>4 DEF EvalInv
<1> QED BY <1>8, <1>9, <1>10, <1>11, <1>12, <1>13, <1>14, <1>15, <1>16, <1>17, <1>18, <1>19, <1>20, <1>21
        DEF EvalNext

\* A zeroed context is the sequence machine's initial state; so is a call of any other function.
LEMMA EvalRefinesInit == EvalInv /\ block = "entry" => CellRpn!Init
<1> SUFFICES ASSUME EvalInv, block = "entry" PROVE CellRpn!Init
  OBVIOUS
<1>1. /\ memory.stack = [i \in Slots |-> 0] /\ memory.sp = 0 /\ memory.result = 0
      /\ Evaluates /\ StackSize \in Nat
  BY EvalFacts DEF EvalInv, Evaluates
<1>2. EvalStack = [i \in 1 .. StackSize |-> 0]
  <2>1. \A i \in 1 .. StackSize : StackSize - i \in Slots
    BY <1>1 DEF Slots
  <2>2. StackSize - memory.sp = StackSize
    BY <1>1
  <2> QED BY <1>1, <2>1, <2>2 DEF EvalStack
<1>3. EvalPhase = "idle"
  BY DEF EvalPhase
<1> QED BY <1>1, <1>2, <1>3 DEF CellRpn!Init, Returned

\* Each block is one of the sequence machine's steps, or a stutter.
LEMMA EvalRefines ==
  ASSUME EvalInv, EvalInv', EvalNext
  PROVE  [CellRpn!Next]_(CellRpn!vars)
<1> DEFINE n == StackSize - memory.sp
           status == IF Evaluates /\ Returned THEN env.result ELSE "none"
           result == IF Evaluates THEN memory.result ELSE 0
<1>1. /\ call.fn = "eval_cells"
      /\ memory = [stack |-> memory.stack, sp |-> memory.sp, result |-> memory.result]
      /\ memory.stack \in [Slots -> Word] /\ memory.sp \in 0 .. StackSize /\ memory.result \in Word
      /\ StackSize \in Nat /\ StackSize >= 2
  BY EvalFacts
<1>2. Evaluates /\ Evaluates'
  BY DEF Evaluates, EvalInv
<1>3. /\ EvalStack = StackView(memory.stack, memory.sp)
      /\ EvalStack' = StackView(memory'.stack, memory'.sp)
  BY <1>2 DEF EvalStack, StackView
<1>4. /\ EvalStack \in Seq(Word) /\ Len(EvalStack) = n
      /\ \A i \in 1 .. n : EvalStack[i] = memory.stack[StackSize - i]
  BY <1>1, <1>3, CellView
<1>5. CellRpn!Depth = n /\ n \in 0 .. StackSize
  BY <1>1, <1>4 DEF CellRpn!Depth
<1>6. n >= 1 => CellRpn!Top = memory.stack[memory.sp]
  <2> SUFFICES ASSUME n >= 1 PROVE CellRpn!Top = memory.stack[memory.sp]
    OBVIOUS
  <2>1. n \in 1 .. n /\ StackSize - n = memory.sp
    BY <1>1
  <2> HIDE DEF n
  <2> QED BY <1>4, <1>5, <2>1 DEF CellRpn!Top
<1>7. n >= 2 => CellRpn!Second = memory.stack[memory.sp + 1]
  <2> SUFFICES ASSUME n >= 2 PROVE CellRpn!Second = memory.stack[memory.sp + 1]
    OBVIOUS
  <2>1. n - 1 \in 1 .. n /\ StackSize - (n - 1) = memory.sp + 1
    BY <1>1
  <2> HIDE DEF n
  <2> QED BY <1>4, <1>5, <2>1 DEF CellRpn!Second
<1>8. block \notin {"entry", "returned", "trapped"} => EvalPhase = "running"
  BY <1>2 DEF EvalPhase
<1>9. block' \notin {"entry", "returned", "trapped"} => EvalPhase' = "running"
  BY <1>2 DEF EvalPhase
<1>10. block # "returned" => status = "none" /\ result = 0
  BY <1>2 DEF Returned, EvalInv
<1>11. block' # "returned" => status' = "none" /\ result' = 0
  BY <1>2 DEF Returned, EvalInv
<1>12. ASSUME memory' = memory, block \notin {"entry", "returned", "trapped"},
              block' \notin {"entry", "returned", "trapped"}
       PROVE  UNCHANGED CellRpn!vars
  <2>1. EvalStack' = EvalStack
    BY <1>3, <1>12
  <2>2. status' = status /\ result' = result /\ EvalPhase' = EvalPhase
    BY <1>8, <1>9, <1>10, <1>11, <1>12
  <2> QED BY <2>1, <2>2 DEF CellRpn!vars
<1>13. CASE eval_entry
  <2>1. block = "entry" /\ memory' = [memory EXCEPT !.sp = StackSize] /\ block' = "loop"
    BY <1>13 DEF eval_entry, InEval, At, Evaluating, GotoWith
  <2>2. memory'.sp = StackSize
    BY <1>1, <2>1
  <2>3. EvalStack' = <<>>
    <3>1. Len(EvalStack') = 0 /\ EvalStack' \in Seq(Word)
      <4>1. memory'.stack \in [Slots -> Word] /\ StackSize \in 0 .. StackSize /\ StackSize - StackSize = 0
        BY <1>1, <2>1
      <4> QED BY <1>3, <2>2, <4>1, CellView
    <3> QED BY <3>1
  <2>4. EvalPhase = "idle" /\ EvalPhase' = "running"
    BY <1>9, <2>1 DEF EvalPhase
  <2> QED BY <1>11, <2>1, <2>3, <2>4 DEF CellRpn!Next, CellRpn!Begin
<1>14. CASE eval_loop \/ eval_dispatch \/ literal_check \/ opcode_dispatch \/ binary_check \/ zero_check
  <2>1. /\ memory' = memory
        /\ block \in {"loop", "dispatch", "literal.check", "opcode.dispatch", "check", "zero_check"}
        /\ block' \in {"missing_exit", "dispatch", "literal.check", "opcode.dispatch", "literal.store", "overflow",
                       "check", "ok", "bad_opcode", "underflow", "zero_check", "apply", "divzero"}
    BY <1>14 DEF eval_loop, eval_dispatch, literal_check, opcode_dispatch, binary_check, zero_check, Reads,
                 InEval, At, Branch, Goto, FetchedLiteral, FetchedOpcode, GotoWith
  <2> QED BY <1>12, <2>1
<1>15. CASE eval_ok \/ ok_singleton \/ error_blocks
  <2>1. /\ memory' = memory
        /\ block \in {"ok", "ok.singleton"} \cup DOMAIN Errors
        /\ block' \in {"ok.singleton", "bad_exit_shape", "exit"}
    BY <1>15 DEF eval_ok, ok_singleton, error_blocks, Reads, InEval, At, Branch, Goto, remember_exit, GotoWith
  <2>2. block \notin {"entry", "returned", "trapped"}
    BY <2>1 DEF Errors
  <2> QED BY <1>12, <2>1, <2>2
<1>16. CASE literal_store
  <2>1. /\ block = "literal.store" /\ block' = "loop"
        /\ memory' = [memory EXCEPT !.stack[memory.sp - 1] = env.literal, !.sp = memory.sp - 1]
    BY <1>16 DEF literal_store, InEval, At, store_at, Evaluating, GotoWith
  <2>2. memory.sp \in 1 .. StackSize /\ env.literal \in LiteralValues /\ env.literal \in Word
    BY <1>1, <2>1, HalfAssumption DEF EvalInv, LiteralValues, Word
  <2>3. /\ memory'.stack = [memory.stack EXCEPT ![memory.sp - 1] = env.literal]
        /\ memory'.sp = memory.sp - 1
    BY <1>1, <2>1
  <2>4. EvalStack' = Append(EvalStack, env.literal)
    BY <1>1, <1>3, <2>2, <2>3, CellPushed
  <2>5. n < StackSize
    BY <1>1, <2>2
  <2>6. CellRpn!Push(env.literal)
    BY <1>5, <1>8, <1>9, <1>10, <1>11, <2>1, <2>4, <2>5 DEF CellRpn!Push
  <2> QED BY <2>2, <2>6, SameWords DEF CellRpn!Next
<1>17. CASE binary_apply
  <2> DEFINE op == env.opcode
             x == Apply(op, lhs, rhs)
  <2>1. /\ block = "apply" /\ block' = "loop"
        /\ memory' = [memory EXCEPT !.stack[memory.sp + 1] = x, !.sp = memory.sp + 1]
    BY <1>17 DEF binary_apply, InEval, At, store_at, Evaluating, GotoWith
  <2>2. memory.sp <= StackSize - 2 /\ op \in BinaryOps /\ (op \in zero_sensitive => rhs # 0)
    BY <2>1 DEF EvalInv, enough_items
  <2>3. memory.sp \in 0 .. StackSize - 2 /\ n >= 2 /\ n >= 1
    BY <1>1, <2>2
  <2>4. memory.sp \in Slots /\ memory.sp + 1 \in Slots
    BY <1>1, <2>3 DEF Slots
  <2>5. lhs \in Word /\ rhs \in Word
    BY <1>1, <2>4 DEF lhs, rhs
  <2>6. x \in Word
    BY <2>2, <2>5, CellResultIsWord
  <2>7. CellRpn!Top = rhs /\ CellRpn!Second = lhs
    BY <1>6, <1>7, <2>3 DEF lhs, rhs
  <2>8. x = CellRpn!Apply(op, CellRpn!Second, CellRpn!Top)
    BY <2>7, SameWords
  <2> HIDE DEF x
  <2>9. /\ memory'.stack = [memory.stack EXCEPT ![memory.sp + 1] = x]
        /\ memory'.sp = memory.sp + 1
    BY <1>1, <2>1
  <2>10. EvalStack' = Append(SubSeq(EvalStack, 1, n - 2), x)
    <3>1. StackView([memory.stack EXCEPT ![memory.sp + 1] = x], memory.sp + 1)
            = Append(SubSeq(StackView(memory.stack, memory.sp), 1, n - 2), x)
      BY <1>1, <2>3, <2>6, CellReduced, Zenon
    <3> QED BY <1>3, <2>9, <3>1, Zenon
  <2>11. CellRpn!Reduce(op)
    <3>1. EvalPhase = "running" /\ EvalPhase' = EvalPhase /\ status' = status /\ result' = result
      BY <1>8, <1>9, <1>10, <1>11, <2>1
    <3>2. CellRpn!Depth >= 2 /\ (op \in CellRpn!zero_sensitive => CellRpn!Top # 0)
      BY <1>5, <2>2, <2>3, <2>7, SameWords
    <3>3. EvalStack' = Append(SubSeq(EvalStack, 1, CellRpn!Depth - 2), CellRpn!Apply(op, CellRpn!Second, CellRpn!Top))
      BY <1>5, <2>8, <2>10
    <3> QED BY <3>1, <3>2, <3>3 DEF CellRpn!Reduce
  <2> QED BY <2>2, <2>11, SameWords DEF CellRpn!Next
<1>18. CASE binary_trap
  <2>1. block = "apply" /\ block' = "trapped" /\ memory' = memory /\ Undefined(env.opcode, lhs, rhs)
    BY <1>18 DEF binary_trap, Reads, InEval, At, Goto
  <2>2. env.opcode \in BinaryOps /\ n >= 2 /\ n >= 1
    BY <1>1, <2>1 DEF EvalInv, enough_items
  <2>3. CellRpn!Top = rhs /\ CellRpn!Second = lhs
    BY <1>6, <1>7, <2>2 DEF lhs, rhs
  <2>4. EvalPhase = "running" /\ EvalPhase' = "trapped"
    BY <1>2, <1>8, <2>1 DEF EvalPhase
  <2>5. EvalStack' = EvalStack /\ status' = status /\ result' = result
    BY <1>3, <1>10, <1>11, <2>1
  <2>6. CellRpn!Trap(env.opcode)
    BY <1>5, <2>1, <2>2, <2>3, <2>4, <2>5, SameWords DEF CellRpn!Trap
  <2> QED BY <2>2, <2>6, SameWords DEF CellRpn!Next
<1>19. CASE eval_finish
  <2>1. /\ block = "exit" /\ block' = "returned" /\ memory' = [memory EXCEPT !.result = env.result]
        /\ env' = [result |-> env.status]
    BY <1>19 DEF eval_finish, InEval, At, Ret, GotoWith
  <2>2. memory'.stack = memory.stack /\ memory'.sp = memory.sp /\ memory'.result = env.result
    BY <1>1, <2>1
  <2>3. EvalStack' = EvalStack
    BY <1>3, <2>2
  <2>4. EvalPhase = "running" /\ EvalPhase' = "idle"
    BY <1>2, <1>8, <2>1 DEF EvalPhase
  <2>5. status' = env.status /\ result' = env.result
    BY <1>2, <2>1, <2>2 DEF Returned
  <2>6. CASE Due(env.status) /\ env.result = 0
    <3>1. CellRpn!FailureHolds(env.status)
      BY <1>1, <1>5, <1>6, <2>6 DEF Due, CellRpn!FailureHolds, enough_items, rhs
    <3>2. env.status \in CellRpn!Statuses
      BY <2>6 DEF Due, CellRpn!Statuses
    <3>3. CellRpn!Fail(env.status)
      BY <2>3, <2>4, <2>5, <2>6, <3>1 DEF CellRpn!Fail
    <3> QED BY <3>2, <3>3 DEF CellRpn!Next
  <2>7. CASE env.status = "OK" /\ memory.sp = StackSize - 1 /\ env.result = memory.stack[memory.sp]
    <3>1. n = 1
      BY <1>1, <2>7
    <3>2. CellRpn!Succeed
      BY <1>5, <1>6, <2>3, <2>4, <2>5, <2>7, <3>1 DEF CellRpn!Succeed
    <3> QED BY <3>2 DEF CellRpn!Next
  <2> QED BY <2>1, <2>6, <2>7 DEF EvalInv
<1> QED BY <1>13, <1>14, <1>15, <1>16, <1>17, <1>18, <1>19 DEF EvalNext

(***************************************************************************)
(* The functions together.  A call belongs to one family, every family's   *)
(* steps are its own calls', and so each invariant holds among the others. *)
(***************************************************************************)
Family(fn) ==
  CASE fn \in {"chunked_copy", "chunked_compare"} -> "chunks"
    [] fn \in {"count_nodes", "index_of_value"} -> "walks"
    [] fn \in Threshold \cup {Staged} -> "searches"
    [] fn \in Functions_ -> "list"
    [] fn = "eval_cells" -> "eval"
    [] fn \in StackFunctions -> "stacks"
    [] fn \in BitFunctions -> "bits"
    [] fn \in Reifications -> "layout"
    [] fn \in Builders -> "protocol"
    [] fn \in MergeFns -> "merges"
    [] fn = "regions_equal" -> "regions"
    [] fn = Registry -> "registry"
    [] fn = PlanFn -> "plan"

\* The names of each family's functions.
LEMMA Families ==
  /\ \A fn \in {"chunked_copy", "chunked_compare"} : Family(fn) = "chunks"
  /\ \A fn \in {"count_nodes", "index_of_value"} : Family(fn) = "walks"
  /\ \A fn \in Threshold \cup {Staged} : Family(fn) = "searches"
  /\ \A fn \in Functions_ : Family(fn) = "list"
  /\ Family("eval_cells") = "eval"
  /\ \A fn \in StackFunctions : Family(fn) = "stacks"
  /\ \A fn \in BitFunctions : Family(fn) = "bits"
  /\ \A fn \in Reifications : Family(fn) = "layout"
  /\ \A fn \in Builders : Family(fn) = "protocol"
  /\ \A fn \in MergeFns : Family(fn) = "merges"
  /\ Family("regions_equal") = "regions"
  /\ Family(Registry) = "registry"
  /\ Family(PlanFn) = "plan"
<1> USE DEF Threshold, Staged, Functions_, StackFunctions, BitFunctions, Reifications, Builders,
            MergeFns, Registry, PlanFn, PromotedReification, LabReification
<1>1. \A fn \in {"chunked_copy", "chunked_compare"} : Family(fn) = "chunks"
  BY DEF Family
<1>2. \A fn \in {"count_nodes", "index_of_value"} : Family(fn) = "walks"
  BY DEF Family
<1>3. \A fn \in Threshold \cup {Staged} : Family(fn) = "searches"
  BY DEF Family
<1>4. \A fn \in Functions_ : Family(fn) = "list"
  BY DEF Family
<1>5. Family("eval_cells") = "eval"
  BY DEF Family
<1>6. \A fn \in StackFunctions : Family(fn) = "stacks"
  BY DEF Family
<1>7. \A fn \in BitFunctions : Family(fn) = "bits"
  BY DEF Family
<1>8. \A fn \in Reifications : Family(fn) = "layout"
  BY DEF Family
<1>9. \A fn \in Builders : Family(fn) = "protocol"
  BY DEF Family
<1>10. \A fn \in MergeFns : Family(fn) = "merges"
  BY DEF Family
<1>11. Family("regions_equal") = "regions"
  BY DEF Family
<1>12. Family(Registry) = "registry"
  BY DEF Family
<1>13. Family(PlanFn) = "plan"
  BY DEF Family
<1> QED BY <1>1, <1>2, <1>3, <1>4, <1>5, <1>6, <1>7, <1>8, <1>9, <1>10, <1>11, <1>12, <1>13


\* An invariant knows whose call it is about.
LEMMA InvariantFamily ==
  /\ ChunkInv => Family(call.fn) = "chunks"
  /\ ChainInv => Family(call.fn) = "walks"
  /\ SearchInv => Family(call.fn) = "searches"
  /\ ListInv => Family(call.fn) = "list"
  /\ EvalInv => Family(call.fn) = "eval"
  /\ StackInv => Family(call.fn) = "stacks"
  /\ BitInv => Family(call.fn) = "bits"
  /\ LayoutInv => Family(call.fn) = "layout"
  /\ ProtocolInv => Family(call.fn) = "protocol"
  /\ MergeInv => Family(call.fn) = "merges"
  /\ RegionInv => Family(call.fn) = "regions"
  /\ RegistryInv => Family(call.fn) = "registry"
  /\ PlanInv => Family(call.fn) = "plan"
<1>1. ChunkInv => Family(call.fn) = "chunks"
  BY Families, CopyCallsAssumption, CompareCallsAssumption DEF ChunkInv, CopyInv, CompareInv
<1>2. ChainInv => Family(call.fn) = "walks"
  BY Families, WalkCallsAssumption DEF ChainInv
<1>3. SearchInv => Family(call.fn) = "searches"
  BY Families, SearchCallsAssumption DEF SearchInv, Threshold, Staged
<1>4. ListInv => Family(call.fn) = "list"
  BY Families DEF ListInv, ShapeInv
<1>5. EvalInv => Family(call.fn) = "eval"
  BY Families DEF EvalInv
<1>6. StackInv => Family(call.fn) = "stacks"
  BY Families DEF StackInv
<1>7. BitInv => Family(call.fn) = "bits"
  BY Families DEF BitInv, BitCalls
<1>8. LayoutInv => Family(call.fn) = "layout"
  BY Families DEF LayoutInv
<1>9. ProtocolInv => Family(call.fn) = "protocol"
  BY Families DEF ProtocolInv, ProtocolShape
<1>10. MergeInv => Family(call.fn) = "merges"
  BY Families, MergeCallsAssumption DEF MergeInv, MergeFns
<1>11. RegionInv => Family(call.fn) = "regions"
  BY Families, RegionCallsAssumption DEF RegionInv
<1>12. RegistryInv => Family(call.fn) = "registry"
  BY Families DEF RegistryInv
<1>13. PlanInv => Family(call.fn) = "plan"
  BY Families DEF PlanInv, PlanShape
<1> QED BY <1>1, <1>2, <1>3, <1>4, <1>5, <1>6, <1>7, <1>8, <1>9, <1>10, <1>11, <1>12, <1>13

\* A step is a step of the call's own family.
LEMMA StepFamily ==
  /\ ChunkNext => Family(call.fn) = "chunks"
  /\ WalkNext => Family(call.fn) = "walks"
  /\ SearchNext => Family(call.fn) = "searches"
  /\ ListNext => Family(call.fn) = "list"
  /\ EvalNext => Family(call.fn) = "eval"
  /\ StackNext => Family(call.fn) = "stacks"
  /\ BitNext => Family(call.fn) = "bits"
  /\ LayoutNext => Family(call.fn) = "layout"
  /\ ProtocolNext => Family(call.fn) = "protocol"
  /\ MergeNext => Family(call.fn) = "merges"
  /\ RegionNext => Family(call.fn) = "regions"
  /\ RegistryNext => Family(call.fn) = "registry"
  /\ PlanNext => Family(call.fn) = "plan"
<1>1. ChunkNext => Family(call.fn) = "chunks"
  <2>1. ChunkNext => call.fn \in {"chunked_copy", "chunked_compare"}
    BY DEF ChunkNext, CopyNext, copy_entry, copy_zero, copy_check_8, copy_8, copy_check_4, copy_4,
           copy_1, CompareNext, compare_entry, compare_zero, compare_check_8, cmp_8, ret_8,
           recurse_8, compare_check_4, cmp_4, ret_4, recurse_4, cmp_1, ret_1, recurse_1, At
  <2> QED BY <2>1, Families
<1>2. WalkNext => Family(call.fn) = "walks"
  <2>1. WalkNext => call.fn \in {"count_nodes", "index_of_value"}
    BY DEF WalkNext, CountNodes, IndexOfValue, count_entry, count_header, count_body, count_exit,
           index_entry, index_header, index_body, index_found, index_advance, index_not_found,
           index_exit, InWalk, At
  <2> QED BY <2>1, Families
<1>3. SearchNext => Family(call.fn) = "searches"
  <2>1. SearchNext => call.fn \in Threshold \cup {Staged}
    BY DEF SearchNext, RawThresholdSearch, CarrierThresholdSearch, StagedSearch, ge_entry, ge_loop,
           ge_scan, raw_found, raw_not_found, carrier_found, carrier_not_found, carrier_finish,
           staged_entry, staged_loop, staged_scan, staged_visible, staged_same_length, accept,
           advance_cursor, staged_not_found, staged_exit, require, InSearch, Threshold
  <2> QED BY <2>1, Families
<1>4. ListNext => Family(call.fn) = "list"
  <2>1. ListNext => call.fn \in Functions_
    BY DEF ListNext, ListCaller, CallAppend, CallCount, CallGetNth, ListIdle, ListBlocks,
           append_entry, CountList, GetNth, count_begin, count_head, count_previous, count_return,
           nth_begin, nth_head, nth_body, nth_found, nth_continue, nth_return, InList, At, Functions_
  <2> QED BY <2>1, Families
<1>5. EvalNext => Family(call.fn) = "eval"
  <2>1. EvalNext => call.fn = "eval_cells"
    BY DEF EvalNext, eval_entry, eval_loop, eval_dispatch, literal_check, literal_store,
           opcode_dispatch, binary_check, zero_check, binary_apply, binary_trap, eval_ok,
           ok_singleton, error_blocks, eval_finish, Reads, InEval, At
  <2> QED BY <2>1, Families
<1>6. StackNext => Family(call.fn) = "stacks"
  <2>1. StackNext => call.fn \in StackFunctions
    BY DEF StackNext, GlobalStack, ExternalStack, ContextStack, Provided
  <2> QED BY <2>1, Families
<1>7. BitNext => Family(call.fn) = "bits"
  <2>1. BitNext => call.fn \in BitFunctions
    BY DEF BitNext, LoadField, PromotedStore, ReifiedStore, StoreField, InvokeBits
  <2> QED BY <2>1, Families
<1>8. LayoutNext => Family(call.fn) = "layout"
  <2>1. LayoutNext => call.fn \in Reifications
    BY DEF LayoutNext, collect_field, sort_storage, place_storage, refuse_overlap, finish_layout,
           InLayout
  <2> QED BY <2>1, Families
<1>9. ProtocolNext => Family(call.fn) = "protocol"
  <2>1. ProtocolNext => call.fn \in Builders
    BY DEF ProtocolNext, join_enter, exit_finish, branch_from_here, loop_begin, exit_remember,
           Building, Builders
  <2> QED BY <2>1, Families
<1>10. MergeNext => Family(call.fn) = "merges"
  <2>1. MergeNext => call.fn \in MergeFns
    BY DEF MergeNext, BranchMerge, select_entry, ZeroLiveInJoin, TupleJoin, merge_entry, merge_then,
           merge_else, merge_return, zero_entry, zero_arms, zero_return, tuple_then, tuple_else,
           tuple_return, InMerge, At, MergeFns
  <2> QED BY <2>1, Families
<1>11. RegionNext => Family(call.fn) = "regions"
  <2>1. RegionNext => call.fn = "regions_equal"
    BY DEF RegionNext, regions_begin, regions_head, regions_body, regions_mismatch, regions_equal,
           InRegions, At
  <2> QED BY <2>1, Families
<1>12. RegistryNext => Family(call.fn) = "registry"
  BY Families DEF RegistryNext
<1>13. PlanNext => Family(call.fn) = "plan"
  BY Families DEF PlanNext
<1> QED BY <1>1, <1>2, <1>3, <1>4, <1>5, <1>6, <1>7, <1>8, <1>9, <1>10, <1>11, <1>12, <1>13

\* A call nobody touches keeps its invariant.
LEMMA ChainStays == ChainInv /\ UNCHANGED vars => ChainInv'
BY DEF ChainInv, WalkTypeOK, Walked, NotYet, IsPlace, Returned, vars

\* A call nobody touches keeps its invariant.
LEMMA SearchStays == SearchInv /\ UNCHANGED vars => SearchInv'
BY DEF SearchInv, SearchTypeOK, Array, Acceptable, Passed, IsFirst, vars

\* A call nobody touches keeps its invariant.
LEMMA EvalStays == EvalInv /\ UNCHANGED vars => EvalInv'
BY DEF EvalInv, EvalTypeOK, Due, enough_items, rhs, vars

\* A call nobody touches keeps its invariant.
LEMMA StackStays == StackInv /\ UNCHANGED vars => StackInv'
BY DEF StackInv, StackTypeOK, BoundTo, Returned, vars

\* A call nobody touches keeps its invariant.
LEMMA LayoutStays == LayoutInv /\ UNCHANGED vars => LayoutInv'
BY DEF LayoutInv, vars

\* A call nobody touches keeps its invariant.
LEMMA MergeStays == MergeInv /\ UNCHANGED vars => MergeInv'
BY DEF MergeInv, MergeTypeOK, StandsFor, Sum_, ArmX, ArmY, ArmTos, sign, Returned, vars

\* A call nobody touches keeps its invariant.
LEMMA RegionStays == RegionInv /\ UNCHANGED vars => RegionInv'
BY DEF RegionInv, RegionTypeOK, SameUpTo, word_count, Returned, vars

\* A host that has bound the first storage and called nothing.
LEMMA StackInitial == StackInit => StackInv
<1> SUFFICES ASSUME StackInit PROVE StackInv
  OBVIOUS
<1>1. PICK p \in Providers :
        /\ call = [fn |-> "bind", provider |-> p]
        /\ block = "returned"
        /\ memory = [cells |-> [a \in CellAddress |-> Fresh(a)],
                     bound |-> IF p = "context" THEN [ctx |-> 0] ELSE [base |-> StackOf(0), sp |-> SpOf(0)]]
  BY DEF StackInit
<1>2. STACK_SIZE \in Nat /\ STACK_SIZE >= 3
  BY StackAssumption
<1>3. 0 \in Contexts
  BY StackAssumption DEF Contexts
<1>4. \A a \in CellAddress : memory.cells[a] = Fresh(a)
  BY <1>1
<1>5. memory.cells \in [CellAddress -> Int]
  BY <1>1, <1>2 DEF Fresh, GENERATION, CellAddress, Contexts, SpOf, StackOf
<1>6. ASSUME NEW ctx \in Contexts PROVE memory.cells[SpOf(ctx)] \in 0 .. STACK_SIZE
  BY <1>1, <1>2, <1>4, ContextCellsIn DEF Fresh
<1>7. StackTypeOK
  BY <1>1, <1>5, <1>6 DEF StackTypeOK
<1>8. BoundTo(0)
  BY <1>1 DEF BoundTo
<1> QED BY <1>1, <1>3, <1>7, <1>8 DEF StackInv, StackFunctions, Returned

HelperInv ==
  \/ ChunkInv \/ ChainInv \/ SearchInv \/ ListInv \/ EvalInv \/ StackInv \/ BitInv \/ LayoutInv
  \/ MergeInv \/ RegionInv
  \/ Returned /\ (ProtocolInv \/ RegistryInv \/ PlanInv)

\* The emitters, the registry and the plan take one step a request.
LEMMA RequestsReturn ==
  ASSUME Returned, [ProtocolNext]_vars \/ [RegistryNext]_vars \/ [PlanNext]_vars
  PROVE  Returned'
<1>1. ProtocolNext => UNCHANGED block
  BY DEF ProtocolNext, join_enter, exit_finish, branch_from_here, loop_begin, exit_remember, Building
<1>2. RegistryNext => UNCHANGED block
  BY DEF RegistryNext, load_module, init_module, unload_module, manual_fini, Request, Refuse
<1>3. PlanNext => UNCHANGED block
  BY DEF PlanNext, emit_ret, define_end, define_raises, finalize, define_begin, call_i64, declare,
         reopen, Succeed, Raises, Planning
<1> QED BY <1>1, <1>2, <1>3 DEF Returned, vars

\* The next step of a call of a family is the family's.
LEMMA OwnStep ==
  ASSUME [Next]_vars
  PROVE  /\ Family(call.fn) = "chunks" => [ChunkNext]_vars
         /\ Family(call.fn) = "walks" => [WalkNext]_vars
         /\ Family(call.fn) = "searches" => [SearchNext]_vars
         /\ Family(call.fn) = "list" => [ListNext]_vars
         /\ Family(call.fn) = "eval" => [EvalNext]_vars
         /\ Family(call.fn) = "stacks" => [StackNext]_vars
         /\ Family(call.fn) = "bits" => [BitNext]_vars
         /\ Family(call.fn) = "layout" => [LayoutNext]_vars
         /\ Family(call.fn) = "protocol" => [ProtocolNext]_vars
         /\ Family(call.fn) = "merges" => [MergeNext]_vars
         /\ Family(call.fn) = "regions" => [RegionNext]_vars
         /\ Family(call.fn) = "registry" => [RegistryNext]_vars
         /\ Family(call.fn) = "plan" => [PlanNext]_vars
<1>1. \/ ChunkNext \/ WalkNext \/ SearchNext \/ ListNext \/ EvalNext \/ StackNext \/ BitNext
      \/ LayoutNext \/ ProtocolNext \/ MergeNext \/ RegionNext \/ RegistryNext \/ PlanNext
      \/ UNCHANGED vars
  BY DEF Next, Runs, Caller, ListNext
<1> QED BY <1>1, StepFamily

\* A call begins with its invariant.
LEMMA HelperInitial == Init => HelperInv
<1>1. ProtocolInit \/ RegistryInit \/ PlanInit => Returned
  BY DEF ProtocolInit, RegistryInit, PlanInit, Returned
<1> QED BY <1>1, ChunkInitInvariant, ChainInit, SearchInitial, ListInitInvariant, EvalInitial,
           StackInitial, BitInitInvariant, LayoutInitial, InitInvariant, MergeInitial,
           RegionInitial, RegistryInitial, PlanInitial
        DEF Init, HelperInv

\* Every step of the composition keeps it.
LEMMA HelperStep == HelperInv /\ [Next]_vars => HelperInv'
<1> SUFFICES ASSUME HelperInv, [Next]_vars PROVE HelperInv'
  OBVIOUS
<1>1. CASE ChunkInv
  <2>1. [ChunkNext]_vars
    BY <1>1, OwnStep, InvariantFamily
  <2> QED BY <1>1, <2>1, ChunkNextInvariant DEF HelperInv
<1>2. CASE ChainInv
  <2>1. WalkNext \/ UNCHANGED vars
    BY <1>2, OwnStep, InvariantFamily
  <2> QED BY <1>2, <2>1, ChainNext, ChainStays DEF HelperInv
<1>3. CASE SearchInv
  <2>1. SearchNext \/ UNCHANGED vars
    BY <1>3, OwnStep, InvariantFamily
  <2> QED BY <1>3, <2>1, SearchStep, SearchStays DEF HelperInv
<1>4. CASE ListInv
  <2>1. [ListNext]_vars
    BY <1>4, OwnStep, InvariantFamily
  <2> QED BY <1>4, <2>1, ListStep DEF HelperInv
<1>5. CASE EvalInv
  <2>1. EvalNext \/ UNCHANGED vars
    BY <1>5, OwnStep, InvariantFamily
  <2> QED BY <1>5, <2>1, EvalKeeps, EvalStays DEF HelperInv
<1>6. CASE StackInv
  <2>1. StackNext \/ UNCHANGED vars
    BY <1>6, OwnStep, InvariantFamily
  <2> QED BY <1>6, <2>1, StackStep, StackStays DEF HelperInv
<1>7. CASE BitInv
  <2>1. [BitNext]_vars
    BY <1>7, OwnStep, InvariantFamily
  <2> QED BY <1>7, <2>1, BitNextInvariant DEF HelperInv
<1>8. CASE LayoutInv
  <2>1. LayoutNext \/ UNCHANGED vars
    BY <1>8, OwnStep, InvariantFamily
  <2> QED BY <1>8, <2>1, LayoutKeeps, LayoutStays DEF HelperInv
<1>9. CASE Returned /\ ProtocolInv
  <2>1. [ProtocolNext]_vars
    BY <1>9, OwnStep, InvariantFamily
  <2> QED BY <1>9, <2>1, NextInvariant, RequestsReturn DEF HelperInv
<1>10. CASE MergeInv
  <2>1. MergeNext \/ UNCHANGED vars
    BY <1>10, OwnStep, InvariantFamily
  <2> QED BY <1>10, <2>1, MergeStep, MergeStays DEF HelperInv
<1>11. CASE RegionInv
  <2>1. RegionNext \/ UNCHANGED vars
    BY <1>11, OwnStep, InvariantFamily
  <2> QED BY <1>11, <2>1, RegionStep, RegionStays DEF HelperInv
<1>12. CASE Returned /\ RegistryInv
  <2>1. [RegistryNext]_vars
    BY <1>12, OwnStep, InvariantFamily
  <2> QED BY <1>12, <2>1, RegistryStep, RequestsReturn DEF HelperInv
<1>13. CASE Returned /\ PlanInv
  <2>1. [PlanNext]_vars
    BY <1>13, OwnStep, InvariantFamily
  <2> QED BY <1>13, <2>1, PlanKeeps, RequestsReturn DEF HelperInv
<1> QED BY <1>1, <1>2, <1>3, <1>4, <1>5, <1>6, <1>7, <1>8, <1>9, <1>10, <1>11, <1>12, <1>13
        DEF HelperInv

\* The invariant holds throughout.
LEMMA HelperInvariant == Spec => []HelperInv
<1>1. Init => HelperInv
  BY HelperInitial
<1>2. HelperInv /\ [Next]_vars => HelperInv'
  BY HelperStep
<1> QED BY <1>1, <1>2, PTL DEF Spec

\* No label of the chunk functions is another function's.
LEMMA OtherLabels ==
  HelperInv /\ ~ChunkInv => block \notin {"copy_8", "copy_4", "cmp_8", "cmp_4"}
<1> SUFFICES ASSUME HelperInv, ~ChunkInv PROVE block \notin {"copy_8", "copy_4", "cmp_8", "cmp_4"}
  OBVIOUS
<1>1. CASE ChainInv
  BY <1>1, WalkCallsAssumption DEF ChainInv, WalkTypeOK, WalkLabels
<1>2. CASE SearchInv
  BY <1>2, SearchCallsAssumption DEF SearchInv, SearchTypeOK, SearchLabels, Threshold, Staged
<1>3. CASE ListInv
  BY <1>3 DEF ListInv, ShapeInv, ListLabels
<1>4. CASE EvalInv
  BY <1>4 DEF EvalInv, EvalTypeOK, EvalLabels, Errors
<1>5. CASE StackInv \/ BitInv
  BY <1>5 DEF StackInv, BitInv, Returned
<1>6. CASE LayoutInv
  BY <1>6 DEF LayoutInv
<1>7. CASE MergeInv
  BY <1>7, MergeCallsAssumption DEF MergeInv, MergeTypeOK, MergeFns
<1>8. CASE RegionInv
  BY <1>8, RegionCallsAssumption DEF RegionInv, RegionTypeOK
<1>9. CASE Returned
  BY <1>9 DEF Returned
<1> QED BY <1>1, <1>2, <1>3, <1>4, <1>5, <1>6, <1>7, <1>8, <1>9 DEF HelperInv

\* A promise about other functions' calls asks nothing of this one.
LEMMA OthersPromise ==
  /\ Family(call.fn) # "chunks" => CopyIsExact /\ TraceIsPlan /\ CompareDecides
  /\ Family(call.fn) # "walks" => WalkResults
  /\ Family(call.fn) # "searches" => SearchIsFirst
  /\ Family(call.fn) # "list" => ArenaIsHistory /\ ListResults
  /\ Family(call.fn) # "bits" => FieldsAreIndependent
  /\ Family(call.fn) # "protocol" => PhisMatchPredecessors
  /\ Family(call.fn) # "merges" => MergesOneArm
  /\ Family(call.fn) # "regions" => RegionsCompared
  /\ Family(call.fn) # "registry" => ResourcesBalanced
  /\ Family(call.fn) # "plan" => CallablesAreWhole
  /\ Family(call.fn) # "layout" => LayoutIsLlvmLayout
<1>1. Family(call.fn) # "chunks" => CopyIsExact /\ TraceIsPlan /\ CompareDecides
  BY Families DEF CopyIsExact, TraceIsPlan, CompareDecides
<1>2. Family(call.fn) # "walks" => WalkResults
  BY Families DEF WalkResults
<1>3. Family(call.fn) # "searches" => SearchIsFirst
  BY Families DEF SearchIsFirst
<1>4. Family(call.fn) # "list" => ArenaIsHistory /\ ListResults
  BY Families DEF ArenaIsHistory, ListResults, Functions_
<1>5. Family(call.fn) # "bits" => FieldsAreIndependent
  BY Families DEF FieldsAreIndependent
<1>6. Family(call.fn) # "protocol" => PhisMatchPredecessors
  BY Families DEF EdgesReachTheirPhis, WellFormedPhis, PhisMatchPredecessors
<1>7. Family(call.fn) # "merges" => MergesOneArm
  BY Families DEF MergesOneArm
<1>8. Family(call.fn) # "regions" => RegionsCompared
  BY Families DEF RegionsCompared
<1>9. Family(call.fn) # "registry" => ResourcesBalanced
  BY Families DEF ResourcesBalanced
<1>10. Family(call.fn) # "plan" => CallablesAreWhole
  BY Families DEF CallablesAreWhole
<1>11. Family(call.fn) # "layout" => LayoutIsLlvmLayout
  BY Families DEF LayoutIsLlvmLayout
<1> QED BY <1>1, <1>2, <1>3, <1>4, <1>5, <1>6, <1>7, <1>8, <1>9, <1>10, <1>11

\* What the invariants say of the results.
LEMMA ResultsFollow == HelperInv => ResultsAreRight
<1> SUFFICES ASSUME HelperInv PROVE ResultsAreRight
  OBVIOUS
<1>1. CompareDecides
  BY ChunkCompared, OthersPromise, InvariantFamily DEF HelperInv
<1>2. WalkResults
  BY ChainResults, OthersPromise, InvariantFamily DEF HelperInv
<1>3. SearchIsFirst
  BY SearchResults, OthersPromise, InvariantFamily DEF HelperInv
<1>4. MergesOneArm
  BY MergeResults, OthersPromise, InvariantFamily DEF HelperInv
<1>5. RegionsCompared
  BY RegionResults, OthersPromise, InvariantFamily DEF HelperInv
<1> QED BY <1>1, <1>2, <1>3, <1>4, <1>5 DEF ResultsAreRight

\* What the invariants say of what the calls leave behind.
LEMMA PromisesFollow ==
  HelperInv => /\ ChunksMakeTheCopy /\ ArenaIsHistory /\ ListResults /\ FieldsAreIndependent
               /\ PhisMatchPredecessors /\ ResourcesBalanced
               /\ CallablesAreWhole /\ LayoutIsLlvmLayout
<1> SUFFICES ASSUME HelperInv
             PROVE  /\ ChunksMakeTheCopy /\ ArenaIsHistory /\ ListResults /\ FieldsAreIndependent
                    /\ PhisMatchPredecessors /\ ResourcesBalanced
                    /\ CallablesAreWhole /\ LayoutIsLlvmLayout
  OBVIOUS
<1>1. ChunksMakeTheCopy
  <2>1. CASE ChunkInv
    BY <2>1, ChunkCopied, ChunkTraced, ChunkAligned DEF ChunksMakeTheCopy
  <2>2. CASE ~ChunkInv
    <3>1. ChunksAligned
      BY <2>2, OtherLabels DEF ChunksAligned
    <3>2. Family(call.fn) # "chunks"
      BY <2>2, InvariantFamily DEF HelperInv
    <3> QED BY <3>1, <3>2, OthersPromise DEF ChunksMakeTheCopy
  <2> QED BY <2>1, <2>2
<1>2. ArenaIsHistory /\ ListResults
  <2>1. ListInv => ArenaIsHistory /\ ListResults
    BY DEF ListInv
  <2> QED BY <2>1, OthersPromise, InvariantFamily DEF HelperInv
<1>3. FieldsAreIndependent
  <2>1. BitInv => FieldsAreIndependent
    BY DEF BitInv
  <2> QED BY <2>1, OthersPromise, InvariantFamily DEF HelperInv
<1>4. PhisMatchPredecessors
  BY ProtocolPhis, OthersPromise, InvariantFamily DEF HelperInv
<1>5. ResourcesBalanced
  <2>1. RegistryInv => ResourcesBalanced
    BY DEF RegistryInv
  <2> QED BY <2>1, OthersPromise, InvariantFamily DEF HelperInv
<1>6. CallablesAreWhole
  BY PlanCallables, OthersPromise, InvariantFamily DEF HelperInv
<1>7. LayoutIsLlvmLayout
  BY LayoutAgrees, OthersPromise, InvariantFamily DEF HelperInv
<1> QED BY <1>1, <1>2, <1>3, <1>4, <1>5, <1>6, <1>7

\* Whatever is called and with whatever arguments, each finished call has the result a plain
\* reading of its arguments gives (chunked_compare, count_nodes, index_of_value, the searches, the
\* merge functions, regions_equal).
THEOREM HelperResults == Spec => []ResultsAreRight
BY ResultsFollow, HelperInvariant, PTL

\* Among all the functions, as in each one's own specification: the chunks make the copy, the
\* arena is the history of the appends and the walks of it are right, the fields are independent,
\* every phi lists the values that reach it, which are all when the builders are called as they
\* are meant to be, the context has its resources, what is callable is whole, and structs lie as
\* LLVM lays them out.
THEOREM HelperPromises ==
  Spec => []/\ ChunksMakeTheCopy /\ ArenaIsHistory /\ ListResults /\ FieldsAreIndependent
            /\ PhisMatchPredecessors /\ ResourcesBalanced
            /\ CallablesAreWhole /\ LayoutIsLlvmLayout
BY PromisesFollow, HelperInvariant, PTL


(***************************************************************************)
(* The composition's steps                                                 *)
(***************************************************************************)
\* Which invariant a call's name stands for.
LEMMA OwnInvariant ==
  ASSUME HelperInv
  PROVE  /\ Family(call.fn) = "eval" => EvalInv
         /\ Family(call.fn) = "stacks" => StackInv
         /\ Family(call.fn) = "protocol" => ProtocolInv
         /\ Family(call.fn) = "registry" => RegistryInv
BY InvariantFamily DEF HelperInv

\* Whatever the host calls among all the functions, a stack function changes the bound context's
\* stack as its name says, and nothing else (codegen/stack.py over each provider).
THEOREM StacksApart == Spec => OnlyBoundStackChanges
<1> DEFINE A == call.fn \in StackFunctions =>
                  \A ctx \in Contexts :
                    /\ memory'.cells[ctx] = memory.cells[ctx]
                    /\ LifoStep(Live(ctx), Live(ctx)', IF Bound(ctx) THEN call'.fn ELSE "other", env')
<1>1. ASSUME HelperInv, [Next]_vars PROVE [A]_vars
  <2> SUFFICES ASSUME call.fn \in StackFunctions, ~UNCHANGED vars PROVE ViewsStep
    BY DEF ViewsStep
  <2>1. Family(call.fn) = "stacks"
    BY Families
  <2>2. StackInv /\ StackNext
    BY <1>1, <2>1, OwnInvariant, OwnStep
  <2> QED BY <2>2, StackStep
<1> QED BY <1>1, HelperInvariant, PTL DEF Spec, OnlyBoundStackChanges

\* Among all the functions, a refused call has emitted nothing (ParamLoop.begin,
\* SharedExit.remember, SharedExit.finish).
THEOREM RefusalsLeaveNothing == Spec => RefusalEmitsNothing
<1> DEFINE Promised == \/ exit_finish
                       \/ \E pred \in Preds, n \in 0 .. MaxArity :
                            loop_begin(pred, n) \/ exit_remember(pred, n)
           A == Promised /\ env'.error # env.error => memory' = memory
<1>1. ASSUME HelperInv PROVE [A]_vars
  <2> SUFFICES ASSUME Promised, env'.error # env.error PROVE memory' = memory
    OBVIOUS
  <2>1. call.fn \in Builders
    BY DEF exit_finish, loop_begin, exit_remember, Building, Builders
  <2>2. Family(call.fn) = "protocol"
    BY <2>1, Families
  <2>3. ProtocolInv
    BY <1>1, <2>2, OwnInvariant
  <2> QED BY <2>3, RefusalStep
<1> QED BY <1>1, HelperInvariant, PTL DEF Spec, RefusalEmitsNothing

\* Among all the functions, an unloaded generation stays dead, and the context changes only in the
\* name of the live generation that was asked for (LifecycleRegistry).
THEOREM TokensStayDead == Spec => StaleTokensAreDead
<1> DEFINE A == call.fn = Registry =>
                  /\ \A g \in Generations : g \notin LiveGenerations => g \notin LiveGenerations'
                  /\ memory'.context # memory.context =>
                       /\ env'.token \in LiveGenerations
                       /\ memory'.context["last_generation_marker"] = env'.token
<1>1. ASSUME HelperInv, [Next]_vars PROVE [A]_vars
  <2> SUFFICES ASSUME call.fn = Registry, ~UNCHANGED vars PROVE A
    OBVIOUS
  <2>1. Family(call.fn) = "registry"
    BY Families
  <2>2. RegistryInv /\ RegistryNext
    BY <1>1, <2>1, OwnInvariant, OwnStep
  <2> QED BY <2>2, StaleStep
<1> QED BY <1>1, HelperInvariant, PTL DEF Spec, StaleTokensAreDead

\* A step of a call of another function is not a step into an evaluation.
LEMMA EvaluatesStays ==
  ASSUME HelperInv, [Next]_vars
  PROVE  Evaluates' = Evaluates
<1>1. CASE Family(call.fn) = "eval"
  <2>1. EvalInv /\ [EvalNext]_vars
    BY <1>1, OwnInvariant, OwnStep
  <2>2. EvalInv'
    BY <2>1, EvalKeeps, EvalStays
  <2> QED BY <2>1, <2>2 DEF EvalInv, Evaluates
<1>2. CASE Family(call.fn) # "eval"
  <2>1. call.fn # "eval_cells"
    BY <1>2, Families
  <2>2. CASE UNCHANGED call
    BY <2>1, <2>2 DEF Evaluates
  <2>3. CASE ListNext
    <3>1. ListInv
      BY <2>3, StepFamily, InvariantFamily DEF HelperInv
    <3>2. ListInv'
      BY <2>3, <3>1, ListStep
    <3> QED BY <2>1, <3>2 DEF ListInv, ShapeInv, Functions_, Evaluates
  <2>4. CASE StackNext
    <3>1. StackInv
      BY <2>4, StepFamily, InvariantFamily DEF HelperInv
    <3>2. StackInv'
      BY <2>4, <3>1, StackStep
    <3> QED BY <2>1, <3>2 DEF StackInv, StackFunctions, Evaluates
  <2>5. CASE BitNext
    <3>1. BitInv
      BY <2>5, StepFamily, InvariantFamily DEF HelperInv
    <3>2. BitInv'
      BY <2>5, <3>1, BitNextInvariant
    <3> QED BY <2>1, <3>2 DEF BitInv, BitCalls, BitFunctions, Evaluates
  <2>6. ChunkNext => UNCHANGED call
    BY DEF ChunkNext, CopyNext, copy_entry, copy_zero, copy_check_8, copy_8, copy_check_4, copy_4,
           copy_1, CompareNext, compare_entry, compare_zero, compare_check_8, cmp_8, ret_8,
           recurse_8, compare_check_4, cmp_4, ret_4, recurse_4, cmp_1, ret_1, recurse_1, At
  <2>7. WalkNext => UNCHANGED call
    BY DEF WalkNext, CountNodes, IndexOfValue, count_entry, count_header, count_body, count_exit,
           index_entry, index_header, index_body, index_found, index_advance, index_not_found,
           index_exit, InWalk, At
  <2>8. SearchNext => UNCHANGED call
    BY DEF SearchNext, RawThresholdSearch, CarrierThresholdSearch, StagedSearch, ge_entry, ge_loop,
           ge_scan, raw_found, raw_not_found, carrier_found, carrier_not_found, carrier_finish,
           staged_entry, staged_loop, staged_scan, staged_visible, staged_same_length, accept,
           advance_cursor, staged_not_found, staged_exit, require, InSearch
  <2>9. LayoutNext => UNCHANGED call
    BY DEF LayoutNext, collect_field, sort_storage, place_storage, refuse_overlap, finish_layout,
           InLayout, At
  <2>10. ProtocolNext => UNCHANGED call
    BY DEF ProtocolNext, join_enter, exit_finish, branch_from_here, loop_begin, exit_remember, Building
  <2>11. MergeNext => UNCHANGED call
    BY DEF MergeNext, BranchMerge, select_entry, ZeroLiveInJoin, TupleJoin, merge_entry, merge_then,
           merge_else, merge_return, zero_entry, zero_arms, zero_return, tuple_then, tuple_else,
           tuple_return, InMerge, At
  <2>12. RegionNext => UNCHANGED call
    BY DEF RegionNext, regions_begin, regions_head, regions_body, regions_mismatch, regions_equal,
           InRegions, At
  <2>13. RegistryNext => UNCHANGED call
    BY DEF RegistryNext, load_module, init_module, unload_module, manual_fini, Request, Refuse
  <2>14. PlanNext => UNCHANGED call
    BY DEF PlanNext, emit_ret, define_end, define_raises, finalize, define_begin, call_i64, declare,
           reopen, Succeed, Raises, Planning
  <2>15. ~EvalNext
    BY <1>2, StepFamily
  <2>16. \/ ChunkNext \/ WalkNext \/ SearchNext \/ ListNext \/ EvalNext \/ StackNext \/ BitNext
         \/ LayoutNext \/ ProtocolNext \/ MergeNext \/ RegionNext \/ RegistryNext \/ PlanNext
         \/ UNCHANGED vars
    BY DEF Next, Runs, Caller, ListNext
  <2>17. UNCHANGED vars => UNCHANGED call
    BY DEF vars
  <2> QED BY <2>2, <2>3, <2>4, <2>5, <2>6, <2>7, <2>8, <2>9, <2>10, <2>11, <2>12, <2>13, <2>14,
             <2>15, <2>16, <2>17
<1> QED BY <1>1, <1>2

\* Among all the functions, the calculator's blocks implement the sequence machine that the
\* promoted calculator implements too (cell-rpn-lab: eval_cells).
THEOREM EvalRefinement == Spec => EvalImplementsRpnStack
<1>1. ASSUME Init PROVE CellRpn!Init
  <2>1. CASE EvalInit
    <3>1. block = "entry"
      BY <2>1 DEF EvalInit
    <3> QED BY <2>1, <3>1, EvalInitial, EvalRefinesInit
  <2>2. CASE ~EvalInit
    <3>1. ~Evaluates
      <4>1. HelperInv /\ Family(call.fn) # "eval"
        BY <1>1, <2>2, HelperInitial, ChunkInitInvariant, ChainInit, SearchInitial,
           ListInitInvariant, StackInitial, BitInitInvariant, LayoutInitial, InitInvariant,
           MergeInitial, RegionInitial, RegistryInitial, PlanInitial, InvariantFamily DEF Init
      <4> QED BY <4>1, Families DEF Evaluates
    <3>2. /\ EvalStack = [i \in 1 .. StackSize |-> 0]
          /\ EvalPhase = "idle"
      BY <3>1 DEF EvalStack, EvalPhase
    <3> QED BY <3>1, <3>2 DEF CellRpn!Init
  <2> QED BY <2>1, <2>2
<1>2. ASSUME HelperInv, [Next]_vars PROVE [CellRpn!Next]_(CellRpn!vars)
  <2>1. CASE Evaluates
    <3>1. EvalInv /\ [EvalNext]_vars
      BY <1>2, <2>1, Families, OwnInvariant, OwnStep DEF Evaluates
    <3>2. CASE EvalNext
      <4>1. EvalInv'
        BY <3>1, <3>2, EvalKeeps
      <4> QED BY <3>1, <3>2, <4>1, EvalRefines
    <3>3. CASE UNCHANGED vars
      BY <3>3 DEF vars, CellRpn!vars, EvalStack, EvalPhase, Evaluates, Returned
    <3> QED BY <3>1, <3>2, <3>3
  <2>2. CASE ~Evaluates
    <3>1. ~Evaluates'
      BY <1>2, <2>2, EvaluatesStays
    <3>2. EvalStack' = EvalStack /\ EvalPhase' = EvalPhase
      BY <2>2, <3>1 DEF EvalStack, EvalPhase
    <3> QED BY <2>2, <3>1, <3>2 DEF CellRpn!vars
  <2> QED BY <2>1, <2>2
<1> QED BY <1>1, <1>2, HelperInvariant, PTL DEF Spec, EvalImplementsRpnStack, CellRpn!Spec

(***************************************************************************)
(* The types of all the functions                                          *)
(***************************************************************************)
\* A trace records chunks of 8, 4 and 1 bytes, 0 where nothing was recorded yet.
Traces == [Address -> {0, 1, 4, 8}]

\* What the types ask beyond the invariant of a family.
TypesInv ==
  /\ Family(call.fn) = "chunks" => memory.trace \in Traces
  /\ Family(call.fn) = "registry" => LiveModules \subseteq ModuleIds
  /\ Family(call.fn) = "plan" => PlanCount

\* A comparison records chunks too (emit_trace_step).
LEMMA TraceStep ==
  ASSUME memory.trace \in Traces, CompareNext, memory = [bytes |-> memory.bytes, trace |-> memory.trace]
  PROVE  memory'.trace \in Traces
<1>1. ASSUME NEW w \in {1, 4, 8} PROVE emit_trace_step(w) \in Traces
  BY <1>1 DEF emit_trace_step, Traces
<1>2. ASSUME NEW w \in {1, 4, 8}, NEW ret, NEW recurse, compare_chunk(w, ret, recurse)
      PROVE  memory'.trace \in Traces
  <2>1. memory'.trace = emit_trace_step(w)
    BY <1>2 DEF compare_chunk
  <2> QED BY <1>1, <2>1
<1>3. CASE cmp_8 \/ cmp_4 \/ cmp_1
  BY <1>2, <1>3 DEF cmp_8, cmp_4, cmp_1
<1>4. CASE UNCHANGED memory
  BY <1>4
<1> QED BY <1>3, <1>4 DEF CompareNext, compare_entry, compare_zero, compare_check_8, ret_8, recurse_8,
        compare_check_4, ret_4, recurse_4, ret_1, recurse_1, recurse_compare

\* A copy's trace is a part of its plan.
LEMMA CopyTrace == CopyInv => memory.trace \in Traces
BY DEF CopyInv, GreedyInv, Planned, Traces

\* The types hold when a call begins.
LEMMA TypesInitial == Init => TypesInv
<1> SUFFICES ASSUME Init PROVE TypesInv
  OBVIOUS
<1>1. CASE ChunkInit
  <2>1. Family(call.fn) = "chunks"
    BY <1>1, ChunkInitInvariant, InvariantFamily
  <2>2. memory.trace = Untraced
    <3>1. ASSUME NEW b, NEW t, memory = [bytes |-> b, trace |-> t] PROVE memory.trace = t
      BY <3>1
    <3>2. \E c \in CopyCalls \cup CompareCalls : memory = [bytes |-> c.bytes, trace |-> Untraced]
      BY <1>1, Zenon DEF ChunkInit, CopyInit, CompareInit
    <3> QED BY <3>1, <3>2, Zenon
  <2>3. Untraced \in Traces
    BY DEF Untraced, Traces
  <2> QED BY <2>1, <2>2, <2>3 DEF TypesInv
<1>2. CASE RegistryInit
  <2>1. Family(call.fn) = "registry"
    BY <1>2, RegistryInitial, InvariantFamily
  <2>2. LiveModules = {}
    BY <1>2 DEF RegistryInit, LiveModules
  <2> QED BY <2>1, <2>2 DEF TypesInv
<1>3. CASE PlanInit
  <2>1. Family(call.fn) = "plan"
    BY <1>3, PlanInitial, InvariantFamily
  <2> QED BY <1>3, <2>1, PlanCountInitial DEF TypesInv
<1>4. CASE WalkInit \/ SearchInit \/ ListInit \/ EvalInit \/ StackInit \/ BitInit \/ LayoutInit
           \/ ProtocolInit \/ MergeInit \/ RegionInit
  <2>1. Family(call.fn) \notin {"chunks", "registry", "plan"}
    BY <1>4, ChainInit, SearchInitial, ListInitInvariant, EvalInitial, StackInitial,
       BitInitInvariant, LayoutInitial, InitInvariant, MergeInitial, RegionInitial, InvariantFamily
  <2> QED BY <2>1 DEF TypesInv
<1> QED BY <1>1, <1>2, <1>3, <1>4 DEF Init

\* The steps of the families whose types need nothing more lead to their own calls.
LEMMA OtherFamilyStays ==
  ASSUME HelperInv, [Next]_vars, Family(call.fn) \notin {"chunks", "protocol", "registry", "plan"}
  PROVE  Family(call'.fn) \notin {"chunks", "protocol", "registry", "plan"}
<1>1. Family(call.fn) \in {"walks", "searches", "list", "eval", "stacks", "bits", "layout", "merges", "regions"}
  BY InvariantFamily DEF HelperInv
<1>2. CASE Family(call.fn) = "walks"
  <2>1. ChainInv'
    BY <1>2, OwnStep, InvariantFamily, ChainNext, ChainStays DEF HelperInv
  <2> QED BY <2>1, Families, WalkCallsAssumption DEF ChainInv
<1>3. CASE Family(call.fn) = "searches"
  <2>1. SearchInv'
    BY <1>3, OwnStep, InvariantFamily, SearchStep, SearchStays DEF HelperInv
  <2> QED BY <2>1, Families, SearchCallsAssumption DEF SearchInv, Threshold, Staged
<1>4. CASE Family(call.fn) = "list"
  <2>1. ListInv'
    BY <1>4, OwnStep, InvariantFamily, ListStep DEF HelperInv
  <2> QED BY <2>1, Families DEF ListInv, ShapeInv
<1>5. CASE Family(call.fn) = "eval"
  <2>1. EvalInv'
    BY <1>5, OwnStep, InvariantFamily, EvalKeeps, EvalStays DEF HelperInv
  <2> QED BY <2>1, Families DEF EvalInv
<1>6. CASE Family(call.fn) = "stacks"
  <2>1. StackInv'
    BY <1>6, OwnStep, InvariantFamily, StackStep, StackStays DEF HelperInv
  <2> QED BY <2>1, Families DEF StackInv
<1>7. CASE Family(call.fn) = "bits"
  <2>1. BitInv'
    BY <1>7, OwnStep, InvariantFamily, BitNextInvariant DEF HelperInv
  <2> QED BY <2>1, Families DEF BitInv, BitCalls
<1>8. CASE Family(call.fn) = "layout"
  <2>1. LayoutInv'
    BY <1>8, OwnStep, InvariantFamily, LayoutKeeps, LayoutStays DEF HelperInv
  <2> QED BY <2>1, Families DEF LayoutInv
<1>9. CASE Family(call.fn) = "merges"
  <2>1. MergeInv'
    BY <1>9, OwnStep, InvariantFamily, MergeStep, MergeStays DEF HelperInv
  <2> QED BY <2>1, Families, MergeCallsAssumption DEF MergeInv, MergeFns
<1>10. CASE Family(call.fn) = "regions"
  <2>1. RegionInv'
    BY <1>10, OwnStep, InvariantFamily, RegionStep, RegionStays DEF HelperInv
  <2> QED BY <2>1, Families, RegionCallsAssumption DEF RegionInv
<1> QED BY <1>1, <1>2, <1>3, <1>4, <1>5, <1>6, <1>7, <1>8, <1>9, <1>10

\* Every step keeps the types.
LEMMA TypesStep == HelperInv /\ TypesInv /\ [Next]_vars => TypesInv'
<1> SUFFICES ASSUME HelperInv, TypesInv, [Next]_vars PROVE TypesInv'
  OBVIOUS
<1>1. CASE CopyInv
  <2>1. Family(call.fn) = "chunks"
    BY <1>1, InvariantFamily DEF ChunkInv
  <2>2. [ChunkNext]_vars
    BY <2>1, OwnStep
  <2>3. CopyNext \/ UNCHANGED vars
    BY <1>1, <2>2, CopyCallsAssumption
       DEF CopyInv, ChunkNext, CompareNext, compare_entry, compare_zero, compare_check_8, cmp_8, ret_8,
           recurse_8, compare_check_4, cmp_4, ret_4, recurse_4, cmp_1, ret_1, recurse_1, At
  <2>4. CASE CopyNext
    <3>1. CopyInv'
      BY <1>1, <2>4, CopyInvariant
    <3>2. memory'.trace \in Traces /\ call' \in CopyCalls
      BY <3>1 DEF CopyInv, GreedyInv, Planned, Traces
    <3>3. Family(call'.fn) = "chunks"
      BY <3>2, Families, CopyCallsAssumption
    <3> QED BY <3>2, <3>3 DEF TypesInv
  <2>5. CASE UNCHANGED vars
    <3>1. memory' = memory /\ call' = call
      BY <2>5 DEF vars
    <3>2. memory.trace \in Traces
      BY <2>1 DEF TypesInv
    <3> QED BY <2>1, <3>1, <3>2 DEF TypesInv
  <2> QED BY <2>3, <2>4, <2>5
<1>2. CASE CompareInv
  <2>1. Family(call.fn) = "chunks" /\ memory.trace \in Traces
    BY <1>2, InvariantFamily DEF ChunkInv, TypesInv
  <2>2. [ChunkNext]_vars
    BY <2>1, OwnStep
  <2>3. call.fn = "chunked_compare" /\ memory = [bytes |-> memory.bytes, trace |-> memory.trace]
    BY <1>2, CompareCallsAssumption DEF CompareInv
  <2>4. CompareNext \/ UNCHANGED vars
    BY <2>2, <2>3 DEF ChunkNext, CopyNext, copy_entry, copy_zero, copy_check_8, copy_8, copy_check_4,
                      copy_4, copy_1, At
  <2>5. call' = call
    BY <2>4 DEF vars, CompareNext, compare_entry, compare_zero, compare_check_8, cmp_8, ret_8, recurse_8,
                compare_check_4, cmp_4, ret_4, recurse_4, cmp_1, ret_1, recurse_1, At
  <2>6. memory'.trace \in Traces
    <3>1. UNCHANGED vars => memory' = memory
      BY DEF vars
    <3> QED BY <2>1, <2>3, <2>4, <3>1, TraceStep
  <2> QED BY <2>1, <2>5, <2>6 DEF TypesInv
<1>3. CASE Returned /\ ProtocolInv
  <2>1. ProtocolInv'
    BY <1>3, OwnStep, InvariantFamily, NextInvariant
  <2>2. Family(call'.fn) = "protocol"
    BY <2>1, Families DEF ProtocolInv, ProtocolShape
  <2> QED BY <2>2 DEF TypesInv
<1>4. CASE Returned /\ RegistryInv
  <2>1. Family(call.fn) = "registry" /\ [RegistryNext]_vars
    BY <1>4, OwnStep, InvariantFamily
  <2>2. LiveModules \subseteq ModuleIds
    BY <2>1 DEF TypesInv
  <2>3. RegistryInv' /\ LiveModules' \subseteq ModuleIds
    BY <1>4, <2>1, <2>2, RegistryStep, LiveModulesStep
  <2>4. Family(call'.fn) = "registry"
    BY <2>3, Families DEF RegistryInv
  <2> QED BY <2>3, <2>4 DEF TypesInv
<1>5. CASE Returned /\ PlanInv
  <2>1. Family(call.fn) = "plan" /\ [PlanNext]_vars
    BY <1>5, OwnStep, InvariantFamily
  <2>2. PlanCount
    BY <2>1 DEF TypesInv
  <2>3. PlanInv'
    BY <1>5, <2>1, PlanKeeps
  <2>4. PlanCount'
    BY <1>5, <2>1, <2>2, <2>3, PlanCountStep DEF PlanInv
  <2>5. Family(call'.fn) = "plan"
    BY <2>3, Families DEF PlanInv, PlanShape
  <2> QED BY <2>4, <2>5 DEF TypesInv
<1>6. CASE Family(call.fn) \notin {"chunks", "protocol", "registry", "plan"}
  <2>1. Family(call'.fn) \notin {"chunks", "protocol", "registry", "plan"}
    BY <1>6, OtherFamilyStays
  <2> QED BY <2>1 DEF TypesInv
<1> QED BY <1>1, <1>2, <1>3, <1>4, <1>5, <1>6, InvariantFamily DEF HelperInv, ChunkInv

\* Types about other functions' calls ask nothing of this one.
LEMMA OthersTypes ==
  /\ Family(call.fn) # "chunks" => ChunkTypeOK
  /\ Family(call.fn) # "walks" => WalkTypeOK
  /\ Family(call.fn) # "searches" => SearchTypeOK
  /\ Family(call.fn) # "list" => ListTypeOK
  /\ Family(call.fn) # "eval" => EvalTypeOK
  /\ Family(call.fn) # "stacks" => StackTypeOK
  /\ Family(call.fn) # "bits" => BitTypeOK
  /\ Family(call.fn) # "layout" => LayoutTypeOK
  /\ Family(call.fn) # "protocol" => ProtocolTypeOK
  /\ Family(call.fn) # "merges" => MergeTypeOK
  /\ Family(call.fn) # "regions" => RegionTypeOK
  /\ Family(call.fn) # "registry" => RegistryTypeOK
  /\ Family(call.fn) # "plan" => PlanTypeOK
<1>1. Family(call.fn) # "chunks" => ChunkTypeOK
  BY Families DEF ChunkTypeOK
<1>2. Family(call.fn) # "walks" => WalkTypeOK
  BY Families DEF WalkTypeOK
<1>3. Family(call.fn) # "searches" => SearchTypeOK
  BY Families DEF SearchTypeOK
<1>4. Family(call.fn) # "list" => ListTypeOK
  BY Families DEF ListTypeOK, Functions_
<1>5. Family(call.fn) # "eval" => EvalTypeOK
  BY Families DEF EvalTypeOK
<1>6. Family(call.fn) # "stacks" => StackTypeOK
  BY Families DEF StackTypeOK
<1>7. Family(call.fn) # "bits" => BitTypeOK
  BY Families DEF BitTypeOK
<1>8. Family(call.fn) # "layout" => LayoutTypeOK
  BY Families DEF LayoutTypeOK
<1>9. Family(call.fn) # "protocol" => ProtocolTypeOK
  BY Families DEF ProtocolTypeOK
<1>10. Family(call.fn) # "merges" => MergeTypeOK
  BY Families DEF MergeTypeOK
<1>11. Family(call.fn) # "regions" => RegionTypeOK
  BY Families DEF RegionTypeOK
<1>12. Family(call.fn) # "registry" => RegistryTypeOK
  BY Families DEF RegistryTypeOK
<1>13. Family(call.fn) # "plan" => PlanTypeOK
  BY Families DEF PlanTypeOK
<1> QED BY <1>1, <1>2, <1>3, <1>4, <1>5, <1>6, <1>7, <1>8, <1>9, <1>10, <1>11, <1>12, <1>13

\* What a copy leaves in memory is bytes.
LEMMA CopiedBytes ==
  ASSUME NEW bytes \in [Address -> Byte], NEW dst \in Nat, NEW src \in Nat, NEW w \in Nat, src + w <= ArenaSize
  PROVE  CopyWord(bytes, dst, src, w) \in [Address -> Byte]
<1>1. ASSUME NEW a \in Address, a \in dst .. dst + w - 1 PROVE src + (a - dst) \in Address
  BY <1>1, CopyCallsAssumption DEF Address
<1> QED BY <1>1 DEF CopyWord

\* The chunked functions' calls have their types.
LEMMA ChunkTypes == ChunkInv /\ memory.trace \in Traces => ChunkTypeOK
<1> SUFFICES ASSUME ChunkInv, memory.trace \in Traces PROVE ChunkTypeOK
  OBVIOUS
<1>1. CASE CopyInv
  <2>1. /\ call.fn = "chunked_copy" /\ block \in CopyLabels
        /\ call.bytes \in [Address -> Byte] /\ call.dst \in Nat /\ call.src \in Nat /\ call.count \in Nat
        /\ call.src + call.count <= ArenaSize /\ ArenaSize \in Nat
    BY <1>1, CopyCallsAssumption DEF CopyInv
  <2>2. /\ memory.bytes = CopyWord(call.bytes, call.dst, call.src, Done)
        /\ Done \in Nat /\ env.count \in Nat /\ Done = call.count - env.count
    BY <1>1, <2>1 DEF CopyInv, CopyIsExact, DoneInv, Done
  <2>3. call.src + Done <= ArenaSize
    BY <2>1, <2>2
  <2>4. memory.bytes \in [Address -> Byte]
    BY <2>1, <2>2, <2>3, CopiedBytes
  <2> QED BY <2>1, <2>4 DEF ChunkTypeOK, Traces
<1>2. CASE CompareInv
  <2>1. /\ call.fn = "chunked_compare" /\ block \in CompareLabels
        /\ memory.bytes = call.bytes /\ call.bytes \in [Address -> Byte]
    BY <1>2, CompareCallsAssumption DEF CompareInv
  <2> QED BY <2>1 DEF ChunkTypeOK, Traces
<1> QED BY <1>1, <1>2 DEF ChunkInv

\* The list's calls have their types: the newest node lies in the arena.
LEMMA ListTypes == ListInv => ListTypeOK
<1> SUFFICES ASSUME ListInv PROVE ListTypeOK
  OBVIOUS
<1>1. /\ block \in ListLabels /\ call.appended \in Seq(NodeValues) /\ Len(call.appended) <= MaxNodes
      /\ memory \in [cells : [Offsets -> Int], here : Nat, latest : Nat]
      /\ call.fn = "append" => Len(call.appended) > 0
      /\ call.fn \in {"append", "count", "get_nth"}
  BY DEF ListInv, ShapeInv, Length, Functions_
<1>2. memory.latest = DataOffset(Stored)
  BY <1>1 DEF ListInv, ArenaIsHistory
<1>3. Stored \in 0 .. MaxNodes
  <2>1. Len(call.appended) \in Nat /\ MaxNodes \in Nat
    BY <1>1, MaxNodesAssumption
  <2> QED BY <1>1, <2>1 DEF Stored
<1>4. \A k \in 0 .. MaxNodes : DataOffset(k) \in Offsets
  <2>1. DataOffset(0) \in Offsets
    BY MaxNodesAssumption DEF DataOffset, NULL_OFFSET, Offsets, CELL_BYTES
  <2> QED BY <2>1, NodeOffsets, MaxNodesAssumption
<1>5. DOMAIN memory.cells = Offsets /\ memory.here \in Nat
  BY <1>1
<1> QED BY <1>1, <1>2, <1>3, <1>4, <1>5 DEF ListTypeOK

\* The bit fields' calls have their types: what was last stored has the field's width.
LEMMA BitTypes == BitInv => BitTypeOK
<1> SUFFICES ASSUME BitInv PROVE BitTypeOK
  OBVIOUS
<1>1. /\ memory \in Int_(StorageBits) /\ call.found \in Int_(StorageBits)
      /\ \A f \in FieldNames : loaded(memory, f) = call.last[f]
  BY DEF BitInv, BitCalls, FieldsAreIndependent
<1>2. ASSUME NEW f \in FieldNames PROVE call.last[f] \in Int_(bit_width[f])
  <2>1. call.last[f] = [i \in Bits(bit_width[f]) |-> memory[i + bit_offset[f]]]
    BY <1>1, LoadedBits
  <2>2. \A i \in Bits(bit_width[f]) : i + bit_offset[f] \in Bits(StorageBits)
    BY FieldFits DEF Bits
  <2>3. \A i \in Bits(bit_width[f]) : memory[i + bit_offset[f]] \in BOOLEAN
    BY <1>1, <2>2 DEF Int_
  <2> QED BY <2>1, <2>3 DEF Int_
<1> QED BY <1>1, <1>2 DEF BitTypeOK

\* The registry's requests have their types.
LEMMA RegistryTypes == RegistryInv /\ LiveModules \subseteq ModuleIds => RegistryTypeOK
BY DEF RegistryInv, RegistryTypeOK, ModuleRecord, Context

\* The invariants give every function's call its types.
LEMMA TypesFollow == HelperInv /\ TypesInv => TypeOK
<1> SUFFICES ASSUME HelperInv, TypesInv PROVE TypeOK
  OBVIOUS
<1>1. ChunkTypeOK
  BY OthersTypes, InvariantFamily, ChunkTypes DEF HelperInv, TypesInv
<1>2. WalkTypeOK
  BY OthersTypes, InvariantFamily DEF HelperInv, ChainInv
<1>3. SearchTypeOK
  BY OthersTypes, InvariantFamily DEF HelperInv, SearchInv
<1>4. ListTypeOK
  BY OthersTypes, InvariantFamily, ListTypes DEF HelperInv
<1>5. EvalTypeOK
  BY OthersTypes, InvariantFamily DEF HelperInv, EvalInv
<1>6. StackTypeOK
  BY OthersTypes, InvariantFamily DEF HelperInv, StackInv
<1>7. BitTypeOK
  BY OthersTypes, InvariantFamily, BitTypes DEF HelperInv
<1>8. LayoutTypeOK
  BY OthersTypes, InvariantFamily, LayoutKinds DEF HelperInv
<1>9. ProtocolTypeOK
  BY OthersTypes, OwnInvariant, ProtocolTyped
<1>10. MergeTypeOK
  BY OthersTypes, InvariantFamily DEF HelperInv, MergeInv
<1>11. RegionTypeOK
  BY OthersTypes, InvariantFamily DEF HelperInv, RegionInv
<1>12. RegistryTypeOK
  BY OthersTypes, OwnInvariant, RegistryTypes DEF TypesInv
<1>13. PlanTypeOK
  <2>1. Family(call.fn) = "plan" => PlanInv /\ PlanCount
    BY InvariantFamily DEF HelperInv, TypesInv
  <2> QED BY <2>1, OthersTypes, PlanTypes DEF PlanInv
<1> QED BY <1>1, <1>2, <1>3, <1>4, <1>5, <1>6, <1>7, <1>8, <1>9, <1>10, <1>11, <1>12, <1>13 DEF TypeOK

\* Whatever is called, in whatever order, the memory, the registers and the block of a compiled
\* function, and what the registry and the plan keep, have their types (codegen, exploration labs).
THEOREM HelperTypes == Spec => []TypeOK
<1>1. Init => TypesInv
  BY TypesInitial
<1>2. HelperInv /\ TypesInv /\ [Next]_vars => TypesInv'
  BY TypesStep
<1>3. HelperInv /\ TypesInv => TypeOK
  BY TypesFollow
<1> QED BY <1>1, <1>2, <1>3, HelperInvariant, PTL DEF Spec

===============================================================================
