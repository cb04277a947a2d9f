--------------------------- MODULE PreviousLinkList ---------------------------
(***************************************************************************)
(* A list in a byte arena: a node is a cell with the offset of the         *)
(* previous node's data followed by its own data cell, and offsets point   *)
(* at data.  append grows it at here; count and get_nth walk it from       *)
(* latest.  The caller makes one call after another on the same arena.     *)
(***************************************************************************)
EXTENDS CompiledFunction, Sequences

CONSTANTS
  NodeValues,   \* the values appended
  MaxNodes      \* bound on the nodes; the arena of 64 bytes holds 8

ASSUME MaxNodesAssumption == MaxNodes \in Nat \ {0} /\ NodeValues \subseteq Int

CELL_BYTES == 4
NODE_BYTES == 2 * CELL_BYTES
FIRST_NODE_OFFSET == CELL_BYTES
NULL_OFFSET == 0

Offsets == {CELL_BYTES * k : k \in 0 .. 2 * MaxNodes - 1}

\* call.appended is what was appended so far, this call's value included.
ListInit ==
  /\ call = [fn |-> "get_nth", n |-> 0, appended |-> <<>>]
  /\ block = "entry"
  /\ env = [latest |-> NULL_OFFSET]
  /\ memory = [cells |-> [o \in Offsets |-> 0], here |-> FIRST_NODE_OFFSET, latest |-> NULL_OFFSET]

(***************************************************************************)
(* The caller                                                              *)
(***************************************************************************)
ListIdle == call.fn \in {"append", "count", "get_nth"} /\ Returned /\ UNCHANGED memory
Enter(c) == call' = c /\ GotoWith("entry", [latest |-> memory.latest])

CallAppend ==
  /\ ListIdle
  /\ Len(call.appended) < MaxNodes
  /\ \E v \in NodeValues : Enter([fn |-> "append", value |-> v, appended |-> Append(call.appended, v)])
CallCount == ListIdle /\ Enter([fn |-> "count", appended |-> call.appended])
CallGetNth ==
  ListIdle /\ \E n \in -1 .. MaxNodes : Enter([fn |-> "get_nth", n |-> n, appended |-> call.appended])
ListCaller == CallAppend \/ CallCount \/ CallGetNth

(***************************************************************************)
(* append: one block.                                                      *)
(***************************************************************************)
\* latest is given the new here.
StoreNode_fault(here, value) ==
  [memory EXCEPT !.cells[here - CELL_BYTES] = memory.latest, !.cells[here] = value,
                 !.here = here + NODE_BYTES, !.latest = here + NODE_BYTES]
StoreNode(here, value) ==
  [memory EXCEPT !.cells[here - CELL_BYTES] = memory.latest, !.cells[here] = value,
                 !.here = here + NODE_BYTES, !.latest = here]
append_entry ==
  At("append", "entry") /\ memory' = StoreNode(memory.here, call.value) /\ Ret(memory.here)

(***************************************************************************)
(* count and get_nth: a head with two loop-carried values.                 *)
(***************************************************************************)
InList(fn, label) == At(fn, label) /\ UNCHANGED memory
previous_link(offset) == memory.cells[offset - CELL_BYTES]
ToHead(offset, count) == GotoWith("head", [offset |-> offset, count |-> count])

count_begin == InList("count", "entry") /\ ToHead(env.latest, 0)
count_head == InList("count", "head") /\ Branch(env.offset # NULL_OFFSET, "body", "exit")
count_previous == InList("count", "body") /\ ToHead(previous_link(env.offset), env.count + 1)
count_return == InList("count", "exit") /\ Ret(env.count)
CountList == count_begin \/ count_head \/ count_previous \/ count_return

\* The incoming edges of get_nth's exit block: -1 from the head, the offset from found.
NthExit(result) == GotoWith("exit", [result |-> result])

nth_begin_fault == InList("get_nth", "entry") /\ ToHead(env.latest, 1)
nth_begin == InList("get_nth", "entry") /\ ToHead(env.latest, 0)
nth_head ==
  InList("get_nth", "head") /\ IF env.offset # NULL_OFFSET THEN Goto("body") ELSE NthExit(-1)
nth_body == InList("get_nth", "body") /\ Branch(env.count = call.n, "found", "continue")
nth_found == InList("get_nth", "found") /\ NthExit(env.offset)
nth_continue == InList("get_nth", "continue") /\ ToHead(previous_link(env.offset), env.count + 1)
nth_return == InList("get_nth", "exit") /\ Ret(env.result)
GetNth == nth_begin \/ nth_head \/ nth_body \/ nth_found \/ nth_continue \/ nth_return

ListBlocks == append_entry \/ CountList \/ GetNth
ListNext == ListCaller \/ ListBlocks
ListSpec == ListInit /\ [][ListNext]_vars /\ WF_vars(ListBlocks)

(***************************************************************************)
(* Properties                                                              *)
(***************************************************************************)
ListLabels == {"entry", "head", "body", "found", "continue", "exit", "returned"}
ListTypeOK ==
  call.fn \in {"append", "count", "get_nth"} =>
    /\ block \in ListLabels
    /\ call.appended \in Seq(NodeValues) /\ Len(call.appended) <= MaxNodes
    /\ DOMAIN memory.cells = Offsets
    /\ memory.here \in Nat /\ memory.latest \in Offsets

\* Where the k-th appended node's data lies; no node, NULL.
DataOffset(k) == IF k = 0 THEN NULL_OFFSET ELSE NODE_BYTES * k - CELL_BYTES

Stored == Len(call.appended) - (IF call.fn = "append" /\ block = "entry" THEN 1 ELSE 0)

\* The arena is the history of the appends: the k-th node holds the k-th value and links to the
\* one before it, the first to NULL, whatever was called between the appends.
ArenaIsHistory ==
  call.fn \in {"append", "count", "get_nth"} =>
    /\ memory.latest = DataOffset(Stored)
    /\ memory.here = DataOffset(Stored + 1)
    /\ \A k \in 1 .. Stored :
         /\ memory.cells[DataOffset(k)] = call.appended[k]
         /\ previous_link(DataOffset(k)) = DataOffset(k - 1)

\* append returns the new node, count the number of nodes, and get_nth the n-th newest node, or
\* -1 when there are not that many.
ListResults ==
  Returned =>
    LET length == Len(call.appended) IN
    /\ call.fn = "append" => env.result = DataOffset(length)
    /\ call.fn = "count" => env.result = length
    /\ call.fn = "get_nth" =>
         env.result = IF call.n \in 0 .. length - 1 THEN DataOffset(length - call.n) ELSE -1
===============================================================================
