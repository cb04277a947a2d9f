------------------------------ MODULE ExportPlan ------------------------------
(***************************************************************************)
(* Exports declared first and defined later.  A body may reopen and call   *)
(* an export that has no body yet; finalize compiles the module and makes  *)
(* its exports callable.  A step is one Python call, where `with define`   *)
(* is two: entering it, which appends the entry block, and leaving it, by  *)
(* its end or by an exception.  memory is the plan with its module, env    *)
(* the bodies being defined, outermost first.                              *)
(***************************************************************************)
EXTENDS CompiledFunction, Sequences, FiniteSets

CONSTANTS
  ExportNames,
  ExportSignatures,
  MaxBodies       \* bound on the bodies begun

ASSUME MaxBodiesAssumption == MaxBodies \in Nat

PlanFn == "ExportPlan"
NoDefinition == -1

PlanInit ==
  /\ call = [fn |-> PlanFn]
  /\ block = "returned"
  /\ env = [open |-> <<>>]
  /\ memory = [exports |-> <<>>, definition_counter |-> 0, finalized |-> FALSE, callables |-> <<>>]

Declared == DOMAIN memory.exports
Planning == call.fn = PlanFn /\ UNCHANGED <<call, block>>
Succeed(plan) == Planning /\ memory' = plan /\ UNCHANGED env
\* ValueError, KeyError, TypeError or RuntimeError, each before anything was changed.
Raises == Planning /\ UNCHANGED <<memory, env>>

\* The body being defined: an export and the number of its block.
InBody == env.open # <<>>
Body == env.open[Len(env.open)]
BodyBlock == memory.exports[Body.name].blocks[Body.index]
Leave == env' = [open |-> SubSeq(env.open, 1, Len(env.open) - 1)]
Emit(blk) == [memory EXCEPT !.exports[Body.name].blocks[Body.index] = blk]

declare(name, signature) ==
  \/ name \in Declared /\ Raises
  \/ /\ name \notin Declared
     /\ Succeed([memory EXCEPT !.exports = [n \in Declared \cup {name} |->
          IF n = name
          THEN [signature |-> signature, definition_index |-> NoDefinition, blocks |-> <<>>]
          ELSE @[n]]])

\* The emitter of a body reopens an export of the signature it expects and calls what it gets.
reopen(name, signature) ==
  \/ name \notin Declared /\ Raises
  \/ name \in Declared /\ memory.exports[name].signature # signature /\ Raises
  \/ /\ name \in Declared /\ memory.exports[name].signature = signature
     /\ \/ ~InBody /\ Succeed(memory)
        \/ /\ InBody /\ BodyBlock.ends = "open"
           /\ Succeed(Emit([BodyBlock EXCEPT
                !.calls = @ \cup {[name |-> name, signature |-> signature]}]))

\* The emitter's ret.
emit_ret ==
  /\ InBody /\ BodyBlock.ends = "open"
  /\ Succeed(Emit([BodyBlock EXCEPT !.ends = "ret"]))

Bodies == {b \in Declared \X (1 .. MaxBodies) : b[2] \in DOMAIN memory.exports[b[1]].blocks}

define_begin(name) ==
  \/ name \notin Declared /\ Raises
  \/ /\ name \in Declared /\ memory.exports[name].definition_index # NoDefinition
     /\ Raises
  \/ /\ name \in Declared /\ memory.exports[name].definition_index = NoDefinition
     /\ Cardinality(Bodies) < MaxBodies
     /\ Planning
     /\ memory' = [memory EXCEPT !.exports[name].blocks =
          Append(@, [calls |-> {}, ends |-> "open", body |-> "begun"])]
     /\ env' = [open |->
          Append(env.open, [name |-> name, index |-> Len(memory.exports[name].blocks) + 1])]

Mark(plan, name) ==
  [plan EXCEPT !.exports[name].definition_index = plan.definition_counter, !.definition_counter = @ + 1]
LeaveBlock(how) == Emit([BodyBlock EXCEPT !.body = how])

\* The body ran to its end.
define_end ==
  /\ InBody /\ Planning
  /\ memory' = Mark(LeaveBlock("finished"), Body.name)
  /\ Leave

\* An exception went through it.  Its block stays in the function.
define_raises ==
  /\ InBody /\ Planning
  /\ memory' = LeaveBlock("abandoned")
  /\ Leave

missing_definitions_fault == {}
missing_definitions == {n \in Declared : memory.exports[n].definition_index = NoDefinition}

\* parse_assembly and verify refuse a block without a terminator.
Verifies ==
  \A n \in Declared : \A i \in DOMAIN memory.exports[n].blocks :
    memory.exports[n].blocks[i].ends = "ret"

\* A compiled function starts at its first block; one that has none is only a declaration.
EntryBlock(n) ==
  IF memory.exports[n].blocks = <<>> THEN [calls |-> {}, ends |-> "nothing", body |-> "none"]
  ELSE memory.exports[n].blocks[1]

finalize ==
  \/ memory.finalized /\ Succeed(memory)
  \/ /\ ~memory.finalized
     /\ \/ (missing_definitions # {} \/ ~Verifies) /\ Raises
        \/ /\ missing_definitions = {} /\ Verifies
           /\ Succeed([memory EXCEPT !.finalized = TRUE,
                                     !.callables = [n \in Declared |-> EntryBlock(n)]])

call_i64(name) ==
  \/ (~memory.finalized \/ name \notin DOMAIN memory.callables) /\ Raises
  \/ memory.finalized /\ name \in DOMAIN memory.callables /\ Succeed(memory)

\* A call that raises inside a body leaves it by define_raises, unless the emitter catches it.
PlanNext ==
  call.fn = PlanFn /\
  (\/ emit_ret \/ define_end \/ define_raises \/ finalize
   \/ \E name \in ExportNames : define_begin(name) \/ call_i64(name)
   \/ \E name \in ExportNames, signature \in ExportSignatures :
        declare(name, signature) \/ reopen(name, signature))

PlanSpec == PlanInit /\ [][PlanNext]_vars

(***************************************************************************)
(* Properties                                                              *)
(***************************************************************************)
PlanTypeOK ==
  call.fn = PlanFn =>
    /\ Declared \subseteq ExportNames
    /\ \A n \in Declared : memory.exports[n].definition_index \in {NoDefinition} \cup 0 .. MaxBodies
    /\ \A i \in DOMAIN env.open :
         env.open[i].name \in Declared /\ env.open[i].index \in DOMAIN memory.exports[env.open[i].name].blocks

\* What becomes callable is whole: it has a body that returns, that ran to its end unless its
\* export was begun more than once, and each of its calls is to an export that became callable
\* with it, of the signature the caller was emitted for.
CallablesAreWhole ==
  call.fn = PlanFn =>
    \A n \in DOMAIN memory.callables :
      /\ memory.callables[n].ends = "ret"
      /\ memory.callables[n].body = "finished" \/ Len(memory.exports[n].blocks) > 1
      /\ \A c \in memory.callables[n].calls :
           c.name \in DOMAIN memory.callables /\ memory.exports[c.name].signature = c.signature
===============================================================================
