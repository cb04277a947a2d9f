--------------------------- MODULE CompiledFunction ---------------------------
(***************************************************************************)
(* One call of a compiled function, basic block by basic block.  The labs  *)
(* build small LLVM functions with the same shape: blocks that load,       *)
(* compute and store, and end in a branch, a return or a tail call.  Each  *)
(* lab's module names its functions and gives one action per block.  Where *)
(* the Python that emits such code is itself the subject, a step is one    *)
(* Python call instead, and memory what it has emitted so far.             *)
(***************************************************************************)
EXTENDS Integers

VARIABLES
  call,    \* the call: fn, its name, and what it was given
  block,   \* the label of the block to run next, "returned" at the end
  env,     \* the arguments and values the remaining blocks use
  memory   \* what the function's pointers reach

vars == <<call, block, env, memory>>

At(fn, label) == call.fn = fn /\ block = label /\ UNCHANGED call

\* br and cbr to a block that takes no new value.
Goto(label) == block' = label /\ UNCHANGED env
Branch(cond, then, else) == Goto(IF cond THEN then ELSE else)

\* A branch or tail call that hands the target new values.
GotoWith(label, values) == block' = label /\ env' = values

Ret(value) == GotoWith("returned", [result |-> value])
RetVoid == Goto("returned")

Returned == block = "returned"

\* An n-bit integer read as two's complement.
SignedWord(n, modulus) == IF 2 * n < modulus THEN n ELSE n - modulus
===============================================================================
