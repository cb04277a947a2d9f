--------------------------- MODULE ModuleLifecycle ---------------------------
(***************************************************************************)
(* JIT modules loaded, initialised, finalised and unloaded by a host.  The *)
(* registry hands out a generation with every load and takes it as the     *)
(* token of later requests; the compiled module_init and module_fini keep  *)
(* one flag, in the module, and count what they do in the host's context.  *)
(* A step is one request.  memory holds the registry and the context.      *)
(***************************************************************************)
EXTENDS CompiledFunction, FiniteSets

CONSTANTS
  ModuleIds,
  MaxGeneration,   \* bound on the loads
  MaxEffects       \* bound on the initialisations

Registry == "LifecycleRegistry"
ContextSlots == {"resource_counter", "init_effects", "fini_effects", "last_generation_marker"}

\* Nothing was requested yet, for no generation.
RegistryInit ==
  /\ call = [fn |-> Registry]
  /\ block = "returned"
  /\ env = [token |-> 0, error |-> "none"]
  /\ memory = [modules |-> <<>>, next_generation |-> 1, context |-> [s \in ContextSlots |-> 0]]

LiveModules == DOMAIN memory.modules
Generations == 1 .. memory.next_generation - 1

Request(token) == call.fn = Registry /\ UNCHANGED <<call, block>> /\ env' = [token |-> token, error |-> "none"]
Refuse(token, error) ==
  /\ call.fn = Registry /\ UNCHANGED <<call, block, memory>>
  /\ env' = [token |-> token, error |-> error]

(***************************************************************************)
(* The compiled functions.  Both return 0 on every path, so the registry's *)
(* init_failed and fini_failed are states no module reaches.               *)
(***************************************************************************)
increment_slot(context, slot, delta) == [context EXCEPT ![slot] = @ + delta]
write_slot(context, slot, value) == [context EXCEPT ![slot] = value]

\* What they leave of a module and the context.
module_init_fault(record, context) ==
  [record |-> [record EXCEPT !.initialized = TRUE],
   context |->
     write_slot(increment_slot(increment_slot(context, "resource_counter", 1), "init_effects", 1),
                "last_generation_marker", record.generation)]
module_init(record, context) ==
  IF record.initialized THEN [record |-> record, context |-> context]
  ELSE [record |-> [record EXCEPT !.initialized = TRUE],
        context |->
          write_slot(increment_slot(increment_slot(context, "resource_counter", 1), "init_effects", 1),
                     "last_generation_marker", record.generation)]
module_fini(record, context) ==
  IF ~record.initialized THEN [record |-> record, context |-> context]
  ELSE [record |-> [record EXCEPT !.initialized = FALSE],
        context |->
          write_slot(increment_slot(increment_slot(context, "resource_counter", -1), "fini_effects", 1),
                     "last_generation_marker", record.generation)]

(***************************************************************************)
(* The registry                                                            *)
(***************************************************************************)
\* The error of _require_live_record, "none" when there is a record to return.
require_live_record_fault(id, generation) == IF id \notin LiveModules THEN "LifecycleError" ELSE "none"
require_live_record(id, generation) ==
  IF id \notin LiveModules THEN "LifecycleError"
  ELSE IF memory.modules[id].generation # generation THEN "StaleGenerationError"
  ELSE "none"

\* The symbols have the same names in every module; they are looked up right after the new
\* module was added, and the addresses are then its own.
load_module(id) ==
  \/ id \in LiveModules /\ Refuse(0, "LifecycleError")
  \/ /\ id \notin LiveModules /\ memory.next_generation <= MaxGeneration
     /\ Request(memory.next_generation)
     /\ memory' = [memory EXCEPT
          !.next_generation = @ + 1,
          !.modules = [i \in LiveModules \cup {id} |->
             IF i = id
             THEN [generation |-> memory.next_generation, state |-> "registered", initialized |-> FALSE]
             ELSE @[i]]]

init_module(id, generation) ==
  LET error == require_live_record(id, generation) IN
  \/ error # "none" /\ Refuse(generation, error)
  \/ /\ error = "none"
     /\ memory.modules[id].initialized \/ memory.context["init_effects"] < MaxEffects
     /\ Request(generation)
     /\ LET done == module_init(memory.modules[id], memory.context) IN
        memory' = [memory EXCEPT
          !.modules[id] = [done.record EXCEPT !.state = IF done.record.initialized THEN "initialized" ELSE @],
          !.context = done.context]

\* module_fini runs before the callbacks are dropped and the module removed; the states between
\* are of a record the registry forgets in the same call.
unload_module(id, generation) ==
  LET error == require_live_record(id, generation) IN
  \/ error # "none" /\ Refuse(generation, error)
  \/ /\ error = "none"
     /\ Request(generation)
     /\ memory' = [memory EXCEPT
          !.modules = [i \in LiveModules \ {id} |-> @[i]],
          !.context = module_fini(memory.modules[id], @).context]

\* The host calls module_fini through the record it was given.  The registry is not told: the
\* record stays "initialized".
manual_fini(id) ==
  /\ id \in LiveModules
  /\ Request(memory.modules[id].generation)
  /\ LET done == module_fini(memory.modules[id], memory.context) IN
     memory' = [memory EXCEPT !.modules[id] = done.record, !.context = done.context]

RegistryNext ==
  call.fn = Registry /\
  \E id \in ModuleIds :
    \/ load_module(id)
    \/ manual_fini(id)
    \/ \E generation \in Generations : init_module(id, generation) \/ unload_module(id, generation)

RegistrySpec == RegistryInit /\ [][RegistryNext]_vars

(***************************************************************************)
(* Properties                                                              *)
(***************************************************************************)
RegistryTypeOK ==
  call.fn = Registry =>
    /\ LiveModules \subseteq ModuleIds
    /\ memory.modules \in [LiveModules -> [generation : Generations, state : {"registered", "initialized"},
                                    initialized : BOOLEAN]]
    /\ memory.context \in [ContextSlots -> Int]

Initialized == {id \in LiveModules : memory.modules[id].initialized}

\* Whatever was requested, how often and with which token, the context counts one resource for
\* each live module whose init ran and was not undone: a repeated init or fini counts once, and
\* unloading releases what was not released by hand.  No module runs that the registry does not
\* take for initialized.
ResourcesBalanced ==
  call.fn = Registry =>
    /\ memory.context["resource_counter"] = Cardinality(Initialized)
    /\ memory.context["resource_counter"] = memory.context["init_effects"] - memory.context["fini_effects"]
    /\ \A id \in Initialized : memory.modules[id].state = "initialized"

LiveGenerations == {memory.modules[id].generation : id \in LiveModules}

\* A generation that was unloaded never lives again, though its id and its symbols do, and the
\* context changes only in the name of the live generation the request named.
StaleTokensAreDead ==
  [][call.fn = Registry =>
       /\ \A g \in Generations : g \notin LiveGenerations => g \notin LiveGenerations'
       /\ memory'.context # memory.context =>
            /\ env'.token \in LiveGenerations
            /\ memory'.context["last_generation_marker"] = env'.token]_vars
===============================================================================
