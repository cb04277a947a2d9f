---------------------------- MODULE CompiledStacks ----------------------------
(***************************************************************************)
(* The same unchecked stack functions over three kinds of storage: the     *)
(* module's own globals, a stack and a stack pointer bound separately, and *)
(* a context struct bound whole.  The host owns two contexts and binds now *)
(* one, now the other.  Every function is one block; the host, which must  *)
(* keep within the stack, is the only guard there is.                      *)
(***************************************************************************)
EXTENDS CompiledFunction, Sequences

CONSTANTS
  STACK_SIZE,    \* 8 in the program
  StackValues    \* the values pushed

ASSUME StackAssumption ==
  STACK_SIZE \in Nat /\ STACK_SIZE >= 3 /\ StackValues \subseteq Int

\* The struct {generation, stack, sp}, in cells.
ContextCells == STACK_SIZE + 2
Contexts == {0, ContextCells}
StackOf(ctx) == ctx + 1
SpOf(ctx) == ctx + 1 + STACK_SIZE
CellAddress == 0 .. 2 * ContextCells - 1
GENERATION == 7

Providers == {"global", "external", "context"}

Fresh(address) ==
  CASE address \in Contexts -> GENERATION
    [] address \in {SpOf(ctx) : ctx \in Contexts} -> STACK_SIZE
    [] OTHER -> 0

\* The module's globals are cells like the first context's, known at compile time.
StackInit ==
  \E p \in Providers :
    /\ call = [fn |-> "bind", provider |-> p]
    /\ block = "returned"
    /\ env = <<>>
    /\ memory = [cells |-> [a \in CellAddress |-> Fresh(a)],
                 bound |-> IF p = "context" THEN [ctx |-> 0]
                           ELSE [base |-> StackOf(0), sp |-> SpOf(0)]]

(***************************************************************************)
(* Reaching the storage                                                    *)
(***************************************************************************)
load_stack_base ==
  IF call.provider = "context" THEN memory.bound.ctx + 1 ELSE memory.bound.base
load_sp_ptr ==
  IF call.provider = "context" THEN memory.bound.ctx + 1 + STACK_SIZE ELSE memory.bound.sp
load_sp == memory.cells[load_sp_ptr]
slot(index) == load_stack_base + index
peek_slot(index) == memory.cells[slot(index)]

\* Store values at addresses (in order) and then the stack pointer.
StoreCells(updates, sp) ==
  memory' = [memory EXCEPT !.cells =
               [a \in CellAddress |->
                  IF a = load_sp_ptr THEN sp ELSE IF a \in DOMAIN updates THEN updates[a] ELSE @[a]]]
At1(a, v) == [x \in {a} |-> v]
At2(a, v, b, w) == [x \in {a, b} |-> IF x = b THEN w ELSE v]

(***************************************************************************)
(* The functions.  The host calls one only within the stack.               *)
(***************************************************************************)
StackFunctions == {"bind", "reset_stack", "get_sp", "push", "pop", "dup", "swap", "over"}
Invoke(fn) ==
  call.fn \in StackFunctions /\ Returned /\ block' = block /\ call' = [call EXCEPT !.fn = fn]
NoResult == env' = <<>>

Depth == STACK_SIZE - load_sp
HasRoom == Depth < STACK_SIZE

\* The stack is rebound and the stack pointer is forgotten.
bind_external_stack_fault ==
  /\ Invoke("bind") /\ NoResult
  /\ \E ctx \in Contexts : memory' = [memory EXCEPT !.bound.base = StackOf(ctx)]
bind_external_stack ==
  /\ Invoke("bind") /\ NoResult
  /\ \E ctx \in Contexts : memory' = [memory EXCEPT !.bound = [base |-> StackOf(ctx), sp |-> SpOf(ctx)]]
bind_stack_context ==
  /\ Invoke("bind") /\ NoResult
  /\ \E ctx \in Contexts : memory' = [memory EXCEPT !.bound.ctx = ctx]

reset_stack == Invoke("reset_stack") /\ StoreCells(<<>>, STACK_SIZE) /\ NoResult
get_sp == Invoke("get_sp") /\ env' = [result |-> load_sp] /\ UNCHANGED memory
stack_push ==
  /\ Invoke("push") /\ HasRoom
  /\ \E v \in StackValues : StoreCells(At1(slot(load_sp - 1), v), load_sp - 1)
  /\ NoResult
stack_pop ==
  /\ Invoke("pop") /\ Depth >= 1
  /\ StoreCells(<<>>, load_sp + 1)
  /\ env' = [result |-> peek_slot(load_sp)]
stack_dup ==
  /\ Invoke("dup") /\ HasRoom /\ Depth >= 1
  /\ StoreCells(At1(slot(load_sp - 1), peek_slot(load_sp)), load_sp - 1)
  /\ NoResult
stack_swap ==
  /\ Invoke("swap") /\ Depth >= 2
  /\ StoreCells(At2(slot(load_sp + 1), peek_slot(load_sp), slot(load_sp), peek_slot(load_sp + 1)), load_sp)
  /\ NoResult
stack_over ==
  /\ Invoke("over") /\ HasRoom /\ Depth >= 2
  /\ StoreCells(At1(slot(load_sp - 1), peek_slot(load_sp + 1)), load_sp - 1)
  /\ NoResult

StackOps ==
  reset_stack \/ get_sp \/ stack_push \/ stack_pop \/ stack_dup \/ stack_swap \/ stack_over

Provided(p) == call.fn \in StackFunctions /\ call.provider = p
GlobalStack == Provided("global") /\ StackOps
ExternalStack == Provided("external") /\ (bind_external_stack \/ StackOps)
ContextStack == Provided("context") /\ (bind_stack_context \/ StackOps)

StackNext == GlobalStack \/ ExternalStack \/ ContextStack

(***************************************************************************)
(* Properties                                                              *)
(***************************************************************************)
StackTypeOK ==
  call.fn \in StackFunctions =>
    /\ call.provider \in Providers
    /\ memory.cells \in [CellAddress -> Int]
    /\ \A ctx \in Contexts : memory.cells[SpOf(ctx)] \in 0 .. STACK_SIZE

\* The host's view of a context's stack, top first (logical_stack).
Live(ctx) ==
  [k \in 1 .. STACK_SIZE - memory.cells[SpOf(ctx)] |->
     memory.cells[StackOf(ctx) + memory.cells[SpOf(ctx)] + k - 1]]
Bound(ctx) == load_sp_ptr = SpOf(ctx)

LifoStep(s, t, fn, results) ==
  CASE fn = "reset_stack" -> t = <<>>
    [] fn = "get_sp" -> t = s /\ results = [result |-> STACK_SIZE - Len(s)]
    [] fn = "push" -> \E v \in StackValues : t = <<v>> \o s
    [] fn = "pop" -> s = <<results.result>> \o t
    [] fn = "dup" -> t = <<s[1]>> \o s
    [] fn = "swap" -> t = <<s[2], s[1]>> \o SubSeq(s, 3, Len(s))
    [] fn = "over" -> t = <<s[2]>> \o s
    [] OTHER -> t = s

\* Each function does to the bound context's stack what its name says and nothing to anything
\* else: the other context's stack and both generation fields stay, whatever was bound between.
OnlyBoundStackChanges ==
  [][call.fn \in StackFunctions =>
       \A ctx \in Contexts :
         /\ memory'.cells[ctx] = memory.cells[ctx]
         /\ LifoStep(Live(ctx), Live(ctx)', IF Bound(ctx) THEN call'.fn ELSE "other", env')]_vars
===============================================================================
