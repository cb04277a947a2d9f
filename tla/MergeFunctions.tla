---------------------------- MODULE MergeFunctions ----------------------------
(***************************************************************************)
(* The functions of the phi labs: two arms and a merge block.              *)
(* branch_merge merges one value, tuple_join three, and zero_live_in_join  *)
(* none; select_merge computes both arms and has no merge.  Each is built  *)
(* raw and through a helper, with the same blocks.                         *)
(***************************************************************************)
EXTENDS CompiledFunction, WordArith

CONSTANT MergeCalls   \* calls: [fn, x, y, tos]; all but tuple_join use x only

MergeFns == {"branch_merge", "select_merge", "zero_live_in_join", "tuple_join"}

ASSUME MergeCallsAssumption ==
  \A c \in MergeCalls : c.fn \in MergeFns /\ c.x \in Int /\ c.y \in Int /\ c.tos \in Int

MergeInit ==
  \E c \in MergeCalls : call = c /\ block = "entry" /\ env = <<>> /\ memory = <<>>

InMerge(fn, label) == At(fn, label) /\ UNCHANGED memory
non_negative == call.x >= 0

\* branch_merge: each arm remembers its value for the edge to merge.
merge_entry ==
  \E fn \in {"branch_merge", "tuple_join"} :
    InMerge(fn, "entry") /\ Branch(non_negative, "then", "else")
merge_then == InMerge("branch_merge", "then") /\ GotoWith("merge", [merged |-> Wrap(call.x + 10)])
merge_else == InMerge("branch_merge", "else") /\ GotoWith("merge", [merged |-> Wrap(call.x - 10)])
merge_return == InMerge("branch_merge", "merge") /\ Ret(env.merged)

select_entry ==
  InMerge("select_merge", "entry") /\ Ret(IF non_negative THEN Wrap(call.x + 10) ELSE Wrap(call.x - 10))

zero_entry == InMerge("zero_live_in_join", "entry") /\ Branch(call.x % 2 = 0, "then", "else")
zero_arms == InMerge("zero_live_in_join", block) /\ block \in {"then", "else"} /\ Goto("merge")
zero_return == InMerge("zero_live_in_join", "merge") /\ Ret(Wrap(call.x + 100))

ToTupleMerge(x, y, tos) ==
  GotoWith("merge", [x |-> Wrap(x), y |-> Wrap(y), tos |-> Wrap(tos)])
tuple_then == InMerge("tuple_join", "then") /\ ToTupleMerge(call.x + 1, call.y * 2, call.tos + 10)
tuple_else == InMerge("tuple_join", "else") /\ ToTupleMerge(call.x - 1, call.y * 3, call.tos - 10)
tuple_return == InMerge("tuple_join", "merge") /\ Ret(Wrap(Wrap(env.x + env.y) + env.tos))

BranchMerge == merge_entry \/ merge_then \/ merge_else \/ merge_return
ZeroLiveInJoin == zero_entry \/ zero_arms \/ zero_return
TupleJoin == tuple_then \/ tuple_else \/ tuple_return

MergeNext == BranchMerge \/ select_entry \/ ZeroLiveInJoin \/ TupleJoin

MergeTypeOK ==
  call.fn \in MergeFns =>
    /\ block \in {"entry", "then", "else", "merge", "returned"}
    /\ DOMAIN env \in {{}, {"merged"}, {"x", "y", "tos"}, {"result"}}

\* The phis of a merge block take their values from one arm, the one the test chose: what the
\* function returns is the sum (modulo the word) of that arm's values and of no mixture, and a
\* merge without values returns what both arms have in common.
MergesOneArm ==
  call.fn \in MergeFns /\ Returned =>
    LET sign == IF call.x >= 0 THEN 1 ELSE -1
        sum == CASE call.fn = "zero_live_in_join" -> call.x + 100
                 [] call.fn = "tuple_join" ->
                      (call.x + sign) + call.y * (IF sign = 1 THEN 2 ELSE 3) + (call.tos + 10 * sign)
                 [] OTHER -> call.x + 10 * sign
    IN  env.result \in Word /\ (env.result - sum) % (2 * Half) = 0
===============================================================================
