---------------------------- MODULE CompiledHelpers ----------------------------
(***************************************************************************)
(* The labs' compiled functions and the promoted emission helpers, side by *)
(* side: a behaviour is one call of one of them, or the calls one caller   *)
(* makes on the same arena, stack, struct or function under construction.  *)
(***************************************************************************)
EXTENDS ChunkedMemory, LinkedWalks, ResultSearches, PreviousLinkList, CellRpnBlocks,
        CompiledStacks, BitFields, StructLayout, BlockProtocol, MergeFunctions, RegionCompare,
        ModuleLifecycle, ExportPlan

Init ==
  \/ ChunkInit \/ WalkInit \/ SearchInit \/ ListInit \/ EvalInit
  \/ StackInit \/ BitInit \/ LayoutInit \/ ProtocolInit \/ MergeInit \/ RegionInit
  \/ RegistryInit \/ PlanInit

\* The steps a call takes by itself.
Runs ==
  ChunkNext \/ WalkNext \/ SearchNext \/ ListBlocks \/ EvalNext \/ LayoutNext \/ MergeNext
  \/ RegionNext

\* The calls a caller may or may not go on to make.
Caller ==
  ListCaller \/ StackNext \/ BitNext \/ ProtocolNext \/ RegistryNext \/ PlanNext

Next == Runs \/ Caller

\* A compiled function, once called, runs; nobody has to call again.
Spec == Init /\ [][Next]_vars /\ WF_vars(Runs)

TypeOK ==
  /\ ChunkTypeOK /\ WalkTypeOK /\ SearchTypeOK /\ ListTypeOK /\ EvalTypeOK
  /\ StackTypeOK /\ BitTypeOK /\ LayoutTypeOK /\ ProtocolTypeOK /\ MergeTypeOK
  /\ RegionTypeOK /\ RegistryTypeOK /\ PlanTypeOK

\* Each finished call has the result a plain reading of its arguments gives: the regions' order,
\* the length or the place found in a chain, the first match of a search, the values of one arm,
\* the equality of two names.
ResultsAreRight ==
  CompareDecides /\ WalkResults /\ SearchIsFirst /\ MergesOneArm /\ RegionsCompared

Ended == Returned \/ block = "trapped"

\* Every call ends: the loops and the tail recursion take something off what is left each time
\* around, whatever the list, the array, the program or the lengths given.
EveryCallEnds == ~Ended ~> Ended
===============================================================================
