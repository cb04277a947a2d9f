----------------------------- MODULE RegionCompare -----------------------------
(***************************************************************************)
(* compare_aligned_i32_regions: the code it emits compares two regions a   *)
(* word at a time, by a parameterised loop with two ways out of it.  The   *)
(* length is in bytes; what is left of it after whole words is not looked  *)
(* at.                                                                     *)
(***************************************************************************)
EXTENDS CompiledFunction, Sequences

CONSTANT RegionCalls   \* calls: [fn, left, right, byte_length], the regions as sequences of words

WORD_BYTES == 4

\* Both regions have the words of the length.
ASSUME RegionCallsAssumption ==
  \A c \in RegionCalls :
    /\ c.fn = "regions_equal"
    /\ c.left \in Seq(Int) /\ c.right \in Seq(Int) /\ c.byte_length \in Nat
    /\ c.byte_length <= WORD_BYTES * Len(c.left) /\ c.byte_length <= WORD_BYTES * Len(c.right)
word_count == call.byte_length \div WORD_BYTES

RegionInit ==
  \E c \in RegionCalls :
    call = c /\ block = "entry" /\ env = <<>> /\ memory = [left |-> c.left, right |-> c.right]

InRegions(label) == At("regions_equal", label) /\ UNCHANGED memory
RegionHead(i) == GotoWith("head", [i |-> i])

regions_begin == InRegions("entry") /\ RegionHead(0)
regions_head == InRegions("head") /\ Branch(env.i < word_count, "body", "equal")
regions_body ==
  /\ InRegions("body")
  /\ IF memory.left[env.i + 1] = memory.right[env.i + 1] THEN RegionHead(env.i + 1) ELSE Goto("mismatch")
regions_mismatch == InRegions("mismatch") /\ Ret(FALSE)
regions_equal == InRegions("equal") /\ Ret(TRUE)

RegionNext == regions_begin \/ regions_head \/ regions_body \/ regions_mismatch \/ regions_equal

RegionTypeOK ==
  call.fn = "regions_equal" =>
    /\ block \in {"entry", "head", "body", "mismatch", "equal", "returned"}
    /\ DOMAIN env \in {{}, {"i"}, {"result"}}

\* The comparison says equal exactly when every whole word of the length is the same on both
\* sides: the last word counts, and what lies beyond the length does not.
RegionsCompared ==
  call.fn = "regions_equal" /\ Returned =>
    (env.result <=> SubSeq(call.left, 1, word_count) = SubSeq(call.right, 1, word_count))
===============================================================================
