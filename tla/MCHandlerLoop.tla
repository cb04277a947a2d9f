---------------------------- MODULE MCHandlerLoop ----------------------------
(***************************************************************************)
(* HandlerLoop on every short thread over cells that matter, whether it    *)
(* makes sense or not: operands are missing, branches go before the start  *)
(* or into operands, words are unknown or have no handler.                 *)
(***************************************************************************)
EXTENDS HandlerLoop, TLC

CONSTANTS AnyAtMost, PushingAtMost  \* bounds: the lengths of the two families of threads

HALT == 77  \* described, without a Python handler

\* A scenario's own words: none, an alias of ADD, a word of an unknown handler.
CustomWords == {<<>>, 1000 :> ADD, 1000 :> 99}

AnyCells == {LIT, ADD, BRANCH, ZBRANCH, LITSTRING, EXIT, HALT, 1000, -4, -1, 0, 1}
PushingCells == {LIT, ADD, ZBRANCH, LITSTRING, -4, 0, 5}

Threads(cells, at_most) == UNION {[1 .. n -> cells] : n \in 0 .. at_most}

MCScenarios ==
  [thread : Threads(AnyCells, AnyAtMost), words : CustomWords]
    \cup [thread : Threads(PushingCells, PushingAtMost), words : {<<>>}]

\* The docol-call scenario: SUM23 EXIT, with SUM23 a colon word at xt 1000.
DocolCall == {[thread |-> <<1000, EXIT>>, words |-> 1000 :> DOCOL]}
=============================================================================
