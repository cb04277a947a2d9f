---------------------------- MODULE ChunkedMemory ----------------------------
(***************************************************************************)
(* The chunked_copy and chunked_compare functions: each activation handles *)
(* one chunk of 8, 4 or 1 bytes at the front of the region and musttail-   *)
(* calls itself on the rest.  A trace buffer records the chunks.           *)
(***************************************************************************)
EXTENDS CompiledFunction

CONSTANTS
  ArenaSize,   \* bytes of the memory both regions lie in
  ByteBits,    \* bits of a byte
  CopyCalls,   \* calls: [fn, dst, src, count, bytes]
  CompareCalls \* calls: [fn, left, right, count, bytes]

Address == 0 .. ArenaSize - 1
ByteValues == 2 ^ ByteBits
Byte == 0 .. ByteValues - 1

\* The buffers are 8-aligned and, for a copy, apart or moved downwards.
ASSUME CopyCallsAssumption ==
  /\ ArenaSize \in Nat
  /\ ByteBits \in Nat
  /\ \A c \in CopyCalls :
       /\ c.fn = "chunked_copy"
       /\ c.dst \in Nat /\ c.src \in Nat /\ c.count \in Nat
       /\ c.bytes \in [Address -> Byte]
       /\ c.dst % 8 = 0 /\ c.src % 8 = 0
       /\ c.dst + c.count <= ArenaSize /\ c.src + c.count <= ArenaSize
       /\ c.dst <= c.src \/ c.src + c.count <= c.dst
ASSUME CompareCallsAssumption ==
  \A c \in CompareCalls :
    /\ c.fn = "chunked_compare"
    /\ c.left \in Nat /\ c.right \in Nat /\ c.count \in Nat
    /\ c.bytes \in [Address -> Byte]
    /\ c.left % 8 = 0 /\ c.right % 8 = 0
    /\ c.left + c.count <= ArenaSize /\ c.right + c.count <= ArenaSize

Untraced == [i \in Address |-> 0]

CopyInit ==
  \E c \in CopyCalls :
    /\ call = c
    /\ block = "entry"
    /\ env = [dst |-> c.dst, src |-> c.src, count |-> c.count, trace_index |-> 0]
    /\ memory = [bytes |-> c.bytes, trace |-> Untraced]

CompareInit ==
  \E c \in CompareCalls :
    /\ call = c
    /\ block = "entry"
    /\ env = [left |-> c.left, right |-> c.right, count |-> c.count, trace_index |-> 0]
    /\ memory = [bytes |-> c.bytes, trace |-> Untraced]

(***************************************************************************)
(* What a block that handles a chunk of w bytes does to memory.            *)
(***************************************************************************)
emit_trace_step(w) == [memory.trace EXCEPT ![env.trace_index] = w]

\* A load of w bytes and a store of what it read.
CopyWord(bytes, dst, src, w) ==
  [a \in Address |-> IF a \in dst .. dst + w - 1 THEN bytes[src + (a - dst)] ELSE bytes[a]]

\* The number of values of w bytes.
WordSize(w) == 2 ^ (ByteBits * w)

\* A little-endian load of w bytes.
WordAt(bytes, address, w) ==
  LET low[n \in 0 .. w] ==
        IF n = 0 THEN 0 ELSE low[n - 1] + bytes[address + n - 1] * WordSize(n - 1)
  IN  low[w]

(***************************************************************************)
(* chunked_copy.  count is unsigned and never below the chunk taken off.   *)
(***************************************************************************)
advance(address, w) == address + w

recurse_copy(w) ==
  GotoWith("entry", [dst |-> advance(env.dst, w), src |-> advance(env.src, w),
                     count |-> env.count - w, trace_index |-> env.trace_index + 1])

copy_chunk(w) ==
  /\ memory' = [bytes |-> CopyWord(memory.bytes, env.dst, env.src, w), trace |-> emit_trace_step(w)]
  /\ recurse_copy(w)

copy_entry ==
  At("chunked_copy", "entry") /\ Branch(env.count = 0, "count_is_zero", "check_8") /\ UNCHANGED memory
copy_zero == At("chunked_copy", "count_is_zero") /\ RetVoid /\ UNCHANGED memory
copy_check_8_fault ==
  At("chunked_copy", "check_8") /\ Branch(env.count > 8, "copy_8", "check_4") /\ UNCHANGED memory
copy_check_8 ==
  At("chunked_copy", "check_8") /\ Branch(env.count >= 8, "copy_8", "check_4") /\ UNCHANGED memory
copy_8 == At("chunked_copy", "copy_8") /\ copy_chunk(8)
copy_check_4 ==
  At("chunked_copy", "check_4") /\ Branch(env.count >= 4, "copy_4", "copy_1") /\ UNCHANGED memory
copy_4 == At("chunked_copy", "copy_4") /\ copy_chunk(4)
copy_1 == At("chunked_copy", "copy_1") /\ copy_chunk(1)

CopyNext ==
  copy_entry \/ copy_zero \/ copy_check_8 \/ copy_8 \/ copy_check_4 \/ copy_4 \/ copy_1

(***************************************************************************)
(* chunked_compare.  The words are subtracted; a difference is returned as *)
(* an i32: an 8-byte one truncated, a 1-byte one sign-extended.            *)
(***************************************************************************)
Difference(w) ==
  LET size == WordSize(w)
  IN  (WordAt(memory.bytes, env.left, w) - WordAt(memory.bytes, env.right, w) + size) % size

DifferenceResult(w) ==
  LET size == WordSize(IF w = 8 THEN 4 ELSE w)
  IN  SignedWord(Difference(w) % size, size)

compare_chunk(w, ret, recurse) ==
  /\ memory' = [memory EXCEPT !.trace = emit_trace_step(w)]
  /\ Branch(Difference(w) # 0, ret, recurse)

recurse_compare(w) ==
  /\ GotoWith("entry", [left |-> advance(env.left, w), right |-> advance(env.right, w),
                        count |-> env.count - w, trace_index |-> env.trace_index + 1])
  /\ UNCHANGED memory

compare_entry ==
  At("chunked_compare", "entry") /\ Branch(env.count = 0, "count_is_zero", "check_8") /\ UNCHANGED memory
compare_zero == At("chunked_compare", "count_is_zero") /\ Ret(0) /\ UNCHANGED memory
compare_check_8 ==
  At("chunked_compare", "check_8") /\ Branch(env.count >= 8, "cmp_8", "check_4") /\ UNCHANGED memory
cmp_8 == At("chunked_compare", "cmp_8") /\ compare_chunk(8, "ret_8", "recurse_8")
ret_8 == At("chunked_compare", "ret_8") /\ Ret(DifferenceResult(8)) /\ UNCHANGED memory
recurse_8 == At("chunked_compare", "recurse_8") /\ recurse_compare(8)
compare_check_4 ==
  At("chunked_compare", "check_4") /\ Branch(env.count >= 4, "cmp_4", "cmp_1") /\ UNCHANGED memory
cmp_4 == At("chunked_compare", "cmp_4") /\ compare_chunk(4, "ret_4", "recurse_4")
ret_4 == At("chunked_compare", "ret_4") /\ Ret(DifferenceResult(4)) /\ UNCHANGED memory
recurse_4 == At("chunked_compare", "recurse_4") /\ recurse_compare(4)
cmp_1 == At("chunked_compare", "cmp_1") /\ compare_chunk(1, "ret_1", "recurse_1")
ret_1 == At("chunked_compare", "ret_1") /\ Ret(DifferenceResult(1)) /\ UNCHANGED memory
recurse_1 == At("chunked_compare", "recurse_1") /\ recurse_compare(1)

CompareNext ==
  \/ compare_entry \/ compare_zero \/ compare_check_8 \/ cmp_8 \/ ret_8 \/ recurse_8
  \/ compare_check_4 \/ cmp_4 \/ ret_4 \/ recurse_4 \/ cmp_1 \/ ret_1 \/ recurse_1

ChunkInit == CopyInit \/ CompareInit
ChunkNext == CopyNext \/ CompareNext
CopySpec == CopyInit /\ [][CopyNext]_vars
ChunkSpec == ChunkInit /\ [][ChunkNext]_vars /\ WF_vars(ChunkNext)

(***************************************************************************)
(* Properties                                                              *)
(***************************************************************************)
CopyLabels == {"entry", "count_is_zero", "check_8", "copy_8", "check_4", "copy_4", "copy_1", "returned"}
CompareLabels ==
  {"entry", "count_is_zero", "check_8", "cmp_8", "ret_8", "recurse_8", "check_4", "cmp_4", "ret_4",
   "recurse_4", "cmp_1", "ret_1", "recurse_1", "returned"}

ChunkTypeOK ==
  call.fn \in {"chunked_copy", "chunked_compare"} =>
    /\ block \in (IF call.fn = "chunked_copy" THEN CopyLabels ELSE CompareLabels)
    /\ memory.bytes \in [Address -> Byte]
    /\ memory.trace \in [Address -> {0, 1, 4, 8}]

\* Between any two activations of chunked_copy, the bytes taken off count are copied, each from
\* where it was when the call began, and nothing else in memory has changed.
CopyIsExact ==
  call.fn = "chunked_copy" =>
    LET done == call.count - env.count
    IN  /\ env.dst = call.dst + done /\ env.src = call.src + done
        /\ memory.bytes = CopyWord(call.bytes, call.dst, call.src, done)
        /\ Returned => done = call.count

\* Both functions promise LLVM an 8-aligned or 4-aligned address at each wide access, and every
\* such address is aligned: a wide chunk is never taken after a narrower one.
ChunksAligned ==
  /\ block = "copy_8" => env.dst % 8 = 0 /\ env.src % 8 = 0
  /\ block = "copy_4" => env.dst % 4 = 0 /\ env.src % 4 = 0
  /\ block = "cmp_8" => env.left % 8 = 0 /\ env.right % 8 = 0
  /\ block = "cmp_4" => env.left % 4 = 0 /\ env.right % 4 = 0

\* The trace of a finished copy is the greedy plan: as many chunks of 8 as fit, then at most one
\* of 4, then single bytes, and its untouched slots are as the caller left them.
TraceIsPlan ==
  call.fn = "chunked_copy" /\ Returned =>
    LET eights == call.count \div 8
        fours == (call.count % 8) \div 4
    IN  /\ env.trace_index = eights + fours + (call.count % 4)
        /\ \A i \in Address :
             memory.trace[i] = CASE i < eights -> 8
                                 [] i >= eights /\ i < eights + fours -> 4
                                 [] i >= eights + fours /\ i < env.trace_index -> 1
                                 [] OTHER -> 0

\* Whatever the length, the chunks add up to the copy, in the order that keeps each access
\* aligned, and the trace tells them as they were.
ChunksMakeTheCopy == CopyIsExact /\ ChunksAligned /\ TraceIsPlan

\* A comparison returns zero when the regions are equal, and otherwise only when the first
\* difference lies in the upper half of an 8-byte chunk, which the truncation to i32 drops.
CompareDecides ==
  call.fn = "chunked_compare" /\ Returned =>
    LET differs == {i \in 0 .. call.count - 1 : call.bytes[call.left + i] # call.bytes[call.right + i]}
        dropped == {i \in differs : i < 8 * (call.count \div 8) /\ i % 8 >= 4}
    IN  env.result = 0 <=> \E i \in dropped \cup {call.count} :
                             \A j \in differs : i <= j
===============================================================================
