---------------------------- MODULE ResultSearches ----------------------------
(***************************************************************************)
(* Searches over an array whose one exit block receives the result, or the *)
(* sentinel -1, on its incoming edges: find_first_ge by threshold, raw and *)
(* through the result-carrier helper, and a search that checks each record *)
(* in stages: visible, then of the wanted length, then of the wanted value.*)
(***************************************************************************)
EXTENDS CompiledFunction, Sequences

CONSTANTS
  ThresholdCalls,  \* calls: [fn, values, threshold]
  StagedCalls      \* calls: [fn, records, length, value]; a record is [hidden, length, value]

ASSUME SearchCallsAssumption ==
  /\ \A c \in ThresholdCalls :
       /\ c.fn \in {"find_first_ge_raw", "find_first_ge_pythonic"}
       /\ c.values \in Seq(Int) /\ c.threshold \in Int
  /\ \A c \in StagedCalls :
       /\ c.fn = "find_first_visible_length_value"
       /\ c.records \in Seq([hidden : BOOLEAN, length : Int, value : Int])
       /\ c.length \in Int /\ c.value \in Int

NoMatch == -1

ThresholdInit ==
  \E c \in ThresholdCalls : call = c /\ block = "entry" /\ env = <<>> /\ memory = c.values
StagedInit ==
  \E c \in StagedCalls : call = c /\ block = "entry" /\ env = <<>> /\ memory = c.records
SearchInit == ThresholdInit \/ StagedInit

Threshold == {"find_first_ge_raw", "find_first_ge_pythonic"}
Staged == "find_first_visible_length_value"

InSearch(fns, label) == call.fn \in fns /\ block = label /\ UNCHANGED <<call, memory>>
Loop(cursor) == GotoWith("loop", [cursor |-> cursor])
Element == memory[env.cursor + 1]

(***************************************************************************)
(* find_first_ge                                                           *)
(***************************************************************************)
ge_entry == InSearch(Threshold, "entry") /\ Loop(0)
ge_loop ==
  InSearch(Threshold, "loop") /\ Branch(env.cursor >= Len(memory), "not_found", "scan")
ge_scan ==
  /\ InSearch(Threshold, "scan")
  /\ IF Element >= call.threshold THEN GotoWith("found", [current_value |-> Element])
                                  ELSE Loop(env.cursor + 1)
raw_found == InSearch({"find_first_ge_raw"}, "found") /\ Ret(env.current_value)
raw_not_found == InSearch({"find_first_ge_raw"}, "not_found") /\ Ret(NoMatch)

RawThresholdSearch == ge_entry \/ ge_loop \/ ge_scan \/ raw_found \/ raw_not_found

\* The carrier remembers a value for the edge of the block it is called in.
remember(value) == GotoWith("exit", [result |-> value])
carrier_found == InSearch({"find_first_ge_pythonic"}, "found") /\ remember(env.current_value)
carrier_not_found == InSearch({"find_first_ge_pythonic"}, "not_found") /\ remember(NoMatch)
carrier_finish == InSearch({"find_first_ge_pythonic"}, "exit") /\ Ret(env.result)

CarrierThresholdSearch ==
  ge_entry \/ ge_loop \/ ge_scan \/ carrier_found \/ carrier_not_found \/ carrier_finish

(***************************************************************************)
(* The staged search: each stage that fails goes on with the next record.  *)
(***************************************************************************)
require(label, predicate, passed) ==
  InSearch({Staged}, label) /\ Branch(predicate, passed, "continue")

staged_entry == InSearch({Staged}, "entry") /\ Loop(0)
staged_loop == InSearch({Staged}, "loop") /\ Branch(env.cursor >= Len(memory), "not_found", "scan")
staged_scan == require("scan", ~Element.hidden, "visible")
staged_visible == require("visible", Element.length = call.length, "same_length")
staged_same_length == require("same_length", Element.value = call.value, "same_value")
accept == InSearch({Staged}, "same_value") /\ remember(Element.value)
advance_cursor_fault == InSearch({Staged}, "continue") /\ Loop(env.cursor)
advance_cursor == InSearch({Staged}, "continue") /\ Loop(env.cursor + 1)
staged_not_found == InSearch({Staged}, "not_found") /\ remember(NoMatch)
staged_exit == InSearch({Staged}, "exit") /\ Ret(env.result)

StagedSearch ==
  \/ staged_entry \/ staged_loop \/ staged_scan \/ staged_visible \/ staged_same_length
  \/ accept \/ advance_cursor \/ staged_not_found \/ staged_exit

SearchNext == RawThresholdSearch \/ CarrierThresholdSearch \/ StagedSearch

SearchLabels ==
  {"entry", "loop", "scan", "found", "visible", "same_length", "same_value", "continue",
   "not_found", "exit", "returned"}
SearchTypeOK ==
  call.fn \in Threshold \cup {Staged} =>
    /\ block \in SearchLabels
    /\ DOMAIN env \in {{}, {"cursor"}, {"current_value"}, {"result"}}

\* The result is the first acceptable value: for a threshold the first value that reaches it, for
\* a staged search the wanted value exactly when a visible record has it and the wanted length.
\* It is -1 when there is none (and also when the value found is itself -1).
SearchIsFirst ==
  Returned =>
    /\ call.fn \in Threshold =>
         LET reach == {k \in 1 .. Len(call.values) : call.values[k] >= call.threshold}
         IN  \/ reach = {} /\ env.result = NoMatch
             \/ \E k \in reach : env.result = call.values[k] /\ \A j \in reach : k <= j
    /\ call.fn = Staged =>
         env.result = IF \E k \in 1 .. Len(call.records) :
                           call.records[k] = [hidden |-> FALSE, length |-> call.length, value |-> call.value]
                      THEN call.value ELSE NoMatch
===============================================================================
