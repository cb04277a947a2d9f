---------------------------- MODULE MCStackKernels ----------------------------
(***************************************************************************)
(* Small scenarios for TLC: every data stack of a few telling cells, an    *)
(* empty and a full return stack, and bytes that are all different.        *)
(***************************************************************************)
EXTENDS StackKernels

Values == {-8, -1, 0, 3}

MCDataSeeds == UNION {[1 .. n -> Values] : n \in 0 .. StackSize}
MCReturnSeeds == {<<>>, <<3, 0, 1, 2>>}
MCSeedMemory == [a \in 0 .. MemorySize - 1 |-> (a + 1) % ByteMod]

=============================================================================
