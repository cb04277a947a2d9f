----------------------------- MODULE CellRpnBlocks -----------------------------
(***************************************************************************)
(* eval_cells, the RPN calculator of the cell lab, block by block: the     *)
(* stack pointer is reloaded in every block, the instruction pointer is a  *)
(* phi, and every way out is an incoming edge of one exit block.  The five *)
(* operators' blocks are one check, zero_check and apply, told apart by    *)
(* the cell.  A cell is chosen when it is loaded: it is loaded only once.  *)
(***************************************************************************)
EXTENDS CompiledFunction, WordArith, Sequences

CONSTANTS
  StackSize,     \* STACK_SIZE, 8 in the program
  CellLiterals,  \* the literal cells of the programs
  CellOpcodes,   \* their opcode cells, known or not
  MaxCellCount   \* bound on the length of a program

ASSUME CellRpnAssumption ==
  /\ StackSize \in Nat /\ StackSize >= 2
  /\ CellLiterals \subseteq LiteralValues
  /\ MaxCellCount \in Nat

Slots == 0 .. StackSize - 1

Errors ==
  [missing_exit |-> "MISSING_EXIT", underflow |-> "STACK_UNDERFLOW", divzero |-> "DIVIDE_BY_ZERO",
   bad_opcode |-> "BAD_OPCODE", bad_exit_shape |-> "STACK_NOT_SINGLETON", overflow |-> "STACK_OVERFLOW"]

\* run_program: a zeroed context and result cell for every call.
EvalInit ==
  \E n \in 0 .. MaxCellCount :
    /\ call = [fn |-> "eval_cells", cell_count |-> n]
    /\ block = "entry"
    /\ env = <<>>
    /\ memory = [stack |-> [i \in Slots |-> 0], sp |-> 0, result |-> 0]

InEval(label) == At("eval_cells", label)
Reads(label) == InEval(label) /\ UNCHANGED memory
Evaluating(ip) == GotoWith("loop", [ip |-> ip])

\* store result at index and move sp there
store_at(index, value) ==
  memory' = [memory EXCEPT !.stack[index] = value, !.sp = index]

eval_entry_fault == InEval("entry") /\ UNCHANGED memory /\ Evaluating(0)
eval_entry == InEval("entry") /\ memory' = [memory EXCEPT !.sp = StackSize] /\ Evaluating(0)

eval_loop == Reads("loop") /\ Branch(env.ip >= call.cell_count, "missing_exit", "dispatch")

FetchedLiteral ==
  \E v \in CellLiterals : GotoWith("literal.check", [ip |-> env.ip, literal |-> v])
FetchedOpcode ==
  \E o \in CellOpcodes : GotoWith("opcode.dispatch", [ip |-> env.ip, opcode |-> o])
eval_dispatch == Reads("dispatch") /\ (FetchedLiteral \/ FetchedOpcode)

literal_check == Reads("literal.check") /\ Branch(memory.sp # 0, "literal.store", "overflow")
literal_store ==
  InEval("literal.store") /\ store_at(memory.sp - 1, env.literal) /\ Evaluating(env.ip + 1)

opcode_dispatch ==
  /\ Reads("opcode.dispatch")
  /\ Goto(CASE env.opcode \in BinaryOps -> "check" [] env.opcode = "=" -> "ok" [] OTHER -> "bad_opcode")

enough_items == memory.sp <= StackSize - 2
rhs == memory.stack[memory.sp]
lhs == memory.stack[memory.sp + 1]

binary_check ==
  /\ Reads("check")
  /\ Goto(IF ~enough_items THEN "underflow"
          ELSE IF env.opcode \in zero_sensitive THEN "zero_check" ELSE "apply")
zero_check == Reads("zero_check") /\ Branch(rhs = 0, "divzero", "apply")
binary_apply ==
  /\ InEval("apply")
  /\ store_at(memory.sp + 1, Apply(env.opcode, lhs, rhs))
  /\ Evaluating(env.ip + 1)
\* The undefined division, on a build where the instruction traps.
binary_trap == Reads("apply") /\ Undefined(env.opcode, lhs, rhs) /\ Goto("trapped")

\* EvalExit.remember: a status and a result for the exit block's phis.
remember_exit(status, result) == GotoWith("exit", [status |-> status, result |-> result])

eval_ok == Reads("ok") /\ Branch(memory.sp = StackSize - 1, "ok.singleton", "bad_exit_shape")
ok_singleton == Reads("ok.singleton") /\ remember_exit("OK", memory.stack[memory.sp])
error_blocks ==
  call.fn = "eval_cells" /\ block \in DOMAIN Errors /\ Reads(block) /\ remember_exit(Errors[block], 0)
eval_finish ==
  InEval("exit") /\ memory' = [memory EXCEPT !.result = env.result] /\ Ret(env.status)

EvalNext ==
  \/ eval_entry \/ eval_loop \/ eval_dispatch
  \/ literal_check \/ literal_store
  \/ opcode_dispatch \/ binary_check \/ zero_check \/ binary_apply \/ binary_trap
  \/ eval_ok \/ ok_singleton \/ error_blocks \/ eval_finish

EvalLabels ==
  {"entry", "loop", "dispatch", "literal.check", "literal.store", "opcode.dispatch", "check",
   "zero_check", "apply", "ok", "ok.singleton", "exit", "trapped", "returned"} \cup DOMAIN Errors
EvalTypeOK ==
  call.fn = "eval_cells" =>
    /\ block \in EvalLabels
    /\ memory \in [stack : [Slots -> Word], sp : 0 .. StackSize, result : Word]

(***************************************************************************)
(* Any other function's call is an idle calculator to the abstract one.    *)
(***************************************************************************)
Evaluates == call.fn = "eval_cells"
EvalStack ==
  IF Evaluates THEN [i \in 1 .. StackSize - memory.sp |-> memory.stack[StackSize - i]]
               ELSE [i \in 1 .. StackSize |-> 0]
EvalPhase ==
  CASE ~Evaluates \/ block \in {"entry", "returned"} -> "idle"
    [] Evaluates /\ block = "trapped" -> "trapped"
    [] OTHER -> "running"

CellRpn == INSTANCE RpnStack WITH
  stk <- EvalStack,
  status <- IF Evaluates /\ Returned THEN env.result ELSE "none",
  result <- IF Evaluates THEN memory.result ELSE 0,
  phase <- EvalPhase

\* The block machine implements the sequence machine the promoted calculator implements too: no
\* block reads a stale stack pointer, every exit edge carries the status of its cause, and the
\* result cell is written exactly when the status is returned.
EvalImplementsRpnStack == CellRpn!Spec
===============================================================================
