----------------------------- MODULE LinkedWalks -----------------------------
(***************************************************************************)
(* count_nodes and index_of_value: loops over a singly linked list whose   *)
(* header carries two phis, the cursor and the count, that must advance    *)
(* together.                                                               *)
(***************************************************************************)
EXTENDS CompiledFunction, Sequences

CONSTANT WalkCalls   \* calls: [fn, values] and, for index_of_value, needle

ASSUME WalkCallsAssumption ==
  \A c \in WalkCalls :
    c.fn \in {"count_nodes", "index_of_value"} /\ c.values \in Seq(Int)

NullNode == 0

\* The caller lays the nodes out in list order; the k-th is at address k.
NodesOf(values) ==
  [k \in 1 .. Len(values) |->
     [value |-> values[k], next |-> IF k = Len(values) THEN NullNode ELSE k + 1]]

WalkInit ==
  \E c \in WalkCalls :
    /\ call = c
    /\ block = "entry"
    /\ env = [head |-> IF c.values = <<>> THEN NullNode ELSE 1]
    /\ memory = NodesOf(c.values)

InWalk(fn, label) == At(fn, label) /\ UNCHANGED memory
NodeValue(cursor) == memory[cursor].value
NodeNext(cursor) == memory[cursor].next

\* The edges into the loop header give both phis a value.
Header(cursor, count) == GotoWith("loop_header", [cursor |-> cursor, count |-> count])

count_entry == InWalk("count_nodes", "entry") /\ Header(env.head, 0)
count_header ==
  InWalk("count_nodes", "loop_header") /\ Branch(env.cursor # NullNode, "body", "exit")
count_body ==
  InWalk("count_nodes", "body") /\ Header(NodeNext(env.cursor), env.count + 1)
count_exit == InWalk("count_nodes", "exit") /\ Ret(env.count)

CountNodes == count_entry \/ count_header \/ count_body \/ count_exit

\* The edges into index_of_value's exit carry its result.
IndexExit(result) == GotoWith("exit", [result |-> result])

index_entry == InWalk("index_of_value", "entry") /\ Header(env.head, 0)
index_header ==
  InWalk("index_of_value", "loop_header") /\ Branch(env.cursor # NullNode, "body", "not_found")
index_body ==
  InWalk("index_of_value", "body") /\ Branch(NodeValue(env.cursor) = call.needle, "found", "advance")
index_found_fault == InWalk("index_of_value", "found") /\ IndexExit(env.cursor)
index_found == InWalk("index_of_value", "found") /\ IndexExit(env.count)
index_advance ==
  InWalk("index_of_value", "advance") /\ Header(NodeNext(env.cursor), env.count + 1)
index_not_found == InWalk("index_of_value", "not_found") /\ IndexExit(-1)
index_exit == InWalk("index_of_value", "exit") /\ Ret(env.result)

IndexOfValue ==
  \/ index_entry \/ index_header \/ index_body \/ index_found \/ index_advance
  \/ index_not_found \/ index_exit

WalkNext == CountNodes \/ IndexOfValue

WalkLabels ==
  {"entry", "loop_header", "body", "found", "advance", "not_found", "exit", "returned"}
WalkTypeOK ==
  call.fn \in {"count_nodes", "index_of_value"} =>
    /\ block \in WalkLabels
    /\ memory = NodesOf(call.values)
    /\ DOMAIN env \in {{"head"}, {"cursor", "count"}, {"result"}}

\* Both results: count_nodes returns the length of the list, and index_of_value the zero-based
\* place of the first node with the value, or -1 when no node has it.
WalkResults ==
  Returned =>
    /\ call.fn = "count_nodes" => env.result = Len(call.values)
    /\ call.fn = "index_of_value" =>
         LET places == {k \in 1 .. Len(call.values) : call.values[k] = call.needle}
         IN  \/ places = {} /\ env.result = -1
             \/ /\ env.result + 1 \in places
                /\ \A k \in places : env.result + 1 <= k
===============================================================================
