-------------------------- MODULE MCInnerInterpreter --------------------------
(***************************************************************************)
(* Small programs for TLC: every entry thread of up to MaxInstructions     *)
(* instructions over a few pairs of custom words.                          *)
(***************************************************************************)
EXTENDS InnerInterpreter

CONSTANT MaxInstructions

MCBothModes == {"step", "run"}
MCStepOnly == {"step"}

WordOf(name_cells, handler, body) ==
  [name_cells |-> name_cells, handler |-> handler, body |-> body]

MCEntryInstructions ==
  {Instr(LIT, v) : v \in {0, 1, ADD, EXECUTE, DOCOL}}
    \cup {Instr(op, 0) : op \in {ADD, EXIT, EXECUTE, HALT, DOCOL, 60, 100}}
    \cup {Instr(op, i) : op \in {BRANCH, ZBRANCH}, i \in 1 .. MaxInstructions + 1}
    \cup {Instr(CALL, 1), Instr(CALL, 2), Instr(LITXT, 1), Instr(LITXT, 2)}

BranchesWithin(body) ==
  \A i \in 1 .. Len(body) :
    body[i].op \in {BRANCH, ZBRANCH} => body[i].arg <= Len(body) + 1

MCEntries ==
  {body \in UNION {[1 .. n -> MCEntryInstructions] : n \in 1 .. MaxInstructions} :
     BranchesWithin(body)}

\* Longer threads over the instructions that act together.
MCCombined ==
  [1 .. 3 -> {Instr(LIT, 0), Instr(LIT, ADD), Instr(ADD, 0), Instr(EXECUTE, 0),
              Instr(ZBRANCH, 1), Instr(CALL, 1), Instr(LITXT, 2)}]

\* A leaf and a caller; a conditional and a word that executes its argument; an
\* empty thread and a word that calls itself; a word that does nothing and one
\* that names a handler without a descriptor; words that are primitives.
MCWordPairs ==
  { << WordOf(1, DOCOL, <<Instr(LIT, 1), Instr(LIT, 1), Instr(ADD, 0), Instr(EXIT, 0)>>),
       WordOf(2, DOCOL, <<Instr(CALL, 1), Instr(EXIT, 0)>>) >>,
    << WordOf(1, DOCOL, <<Instr(ZBRANCH, 3), Instr(EXIT, 0), Instr(LIT, 0), Instr(EXIT, 0)>>),
       WordOf(1, DOCOL, <<Instr(LITXT, 1), Instr(EXECUTE, 0), Instr(EXIT, 0)>>) >>,
    << WordOf(0, DOCOL, <<>>),
       WordOf(1, DOCOL, <<Instr(CALL, 2), Instr(HALT, 0)>>) >>,
    << WordOf(1, DOCOL, <<Instr(EXIT, 0)>>), WordOf(1, 100, <<>>) >>,
    << WordOf(1, ADD, <<>>), WordOf(1, EXECUTE, <<>>) >> }

MCScenarios ==
  {[entry |-> entry, words |-> words, direct |-> direct] :
     entry \in MCEntries, words \in MCWordPairs, direct \in 0 .. 2}

MCLongScenarios ==
  {[entry |-> entry, words |-> words, direct |-> 0] :
     entry \in MCCombined, words \in MCWordPairs}

MCAllScenarios == MCScenarios \cup MCLongScenarios

\* The programs that are compared with ForthMachine are programs to their authors.
ASSUME MCProgramsAreWellFormed == \A s \in MCAllScenarios : WellFormed(s)

\* The first word's thread is as long as it takes for the second word's code
\* field to be cell 15, the id of the primitive ADD.
MCShadowing ==
  {[entry |-> entry, direct |-> 0,
    words |-> << WordOf(2, DOCOL, << Instr(LIT, 1), Instr(LIT, 1), Instr(ADD, 0),
                                     Instr(LIT, 1), Instr(ADD, 0), Instr(EXIT, 0) >>),
                 WordOf(1, DOCOL, <<Instr(EXIT, 0)>>) >>] : entry \in MCCombined}

=============================================================================
