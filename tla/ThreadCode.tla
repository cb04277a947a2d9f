------------------------------ MODULE ThreadCode ------------------------------
(***************************************************************************)
(* Threaded programs of the lowered-interpreter lab, twice: as the author  *)
(* of a scenario thinks of them, sequences of instructions, and as the     *)
(* program lays them out, arrays of untyped cells in which an inline       *)
(* operand follows its instruction and a custom word is called by the cell *)
(* index of its code field (its xt).                                       *)
(*                                                                         *)
(* A scenario has custom words, an entry thread and possibly a word that   *)
(* is run first by its xt.  Thread 0 is the entry thread, k > 0 is word k. *)
(***************************************************************************)
EXTENDS WordArith, Sequences, FiniteSets

CONSTANTS
  StackCapacity,    \* STACK_CAPACITY, 8
  ReturnCapacity,   \* RETURN_STACK_CAPACITY, 8
  Scenarios         \* the programs clients run

\* PrimitiveInstruction: the ids the lab lowers; 1 .. 77 all have a descriptor.
ADD == 15
EXIT == 35
EXECUTE == 67
LIT == 72
BRANCH == 73
ZBRANCH == 74
DOCOL == 76
HALT == 77
Described == 1 .. 77
Lowered == {ADD, EXIT, EXECUTE, LIT, BRANCH, ZBRANCH, DOCOL, HALT}
InlineOperand == {LIT, BRANCH, ZBRANCH}

Requirements_fault(h) ==
  [data_in |-> CASE h = ADD -> 2 [] h \in {ZBRANCH, EXECUTE} -> 1 [] OTHER -> 0,
   data_out |-> IF h \in {ADD, LIT} THEN 1 ELSE 0,
   return_in |-> IF h = EXIT THEN 1 ELSE 0,
   return_out |-> 0]
\* HandlerRequirements: what a handler takes from the two stacks and puts there.
Requirements(h) ==
  [data_in |-> CASE h = ADD -> 2 [] h \in {ZBRANCH, EXECUTE} -> 1 [] OTHER -> 0,
   data_out |-> IF h \in {ADD, LIT} THEN 1 ELSE 0,
   return_in |-> IF h = EXIT THEN 1 ELSE 0,
   return_out |-> IF h = DOCOL THEN 1 ELSE 0]

Meets(h, depth, return_depth) ==
  LET r == Requirements(h)
  IN  /\ depth >= r.data_in
      /\ depth - r.data_in + r.data_out <= StackCapacity
      /\ return_depth >= r.return_in
      /\ return_depth - r.return_in + r.return_out <= ReturnCapacity

(***************************************************************************)
(* Instructions.  CALL k stands for the name of word k in a thread, LITXT  *)
(* k for LIT followed by that name; a branch names the instruction of its  *)
(* own thread that it goes to.                                             *)
(***************************************************************************)
CALL == 0
LITXT == -1

Instr(op, arg) == [op |-> op, arg |-> arg]

Body(s, t) ==
  CASE t = 0 -> s.entry
    [] t \in 1 .. Len(s.words) -> s.words[t].body
    [] OTHER -> <<>>

Size(instr) == IF instr.op \in InlineOperand \cup {LITXT} THEN 2 ELSE 1

\* The cell at which instruction i starts; Starts(body)[Len(body) + 1] is the extent.
Starts(body) ==
  LET start[i \in 1 .. Len(body) + 1] ==
        IF i = 1 THEN 0 ELSE start[i - 1] + Size(body[i - 1])
  IN  start

Extent(s, t) == Starts(Body(s, t))[Len(Body(s, t)) + 1]

\* The xts of the words: create_word writes name, link, code field and data
\* cells one after the other, from cell 0 of the dictionary.
Xts(s) ==
  LET cfa[k \in 1 .. Len(s.words)] ==
        s.words[k].name_cells + 1
          + (IF k = 1 THEN 0 ELSE cfa[k - 1] + 1 + Extent(s, k - 1))
  IN  [k \in 1 .. Len(s.words) |-> cfa[k]]

Opcode(xts, instr) ==
  CASE instr.op = CALL -> xts[instr.arg]
    [] instr.op = LITXT -> LIT
    [] OTHER -> instr.op

\* A branch offset counts from the cell after the operand.
Operand(xts, start, i, instr) ==
  CASE instr.op \in {BRANCH, ZBRANCH} -> start[instr.arg] - (start[i] + 2)
    [] instr.op = LITXT -> xts[instr.arg]
    [] OTHER -> instr.arg

\* The cells of every thread, each numbered from 0: resolved_thread and
\* resolved_words of a prepared scenario.
Threads(s) ==
  LET xts == Xts(s)
      Cells(body) ==
        LET start == Starts(body)
            At(c) == CHOOSE i \in 1 .. Len(body) : start[i] <= c /\ c < start[i + 1]
        IN  [c \in 0 .. start[Len(body) + 1] - 1 |->
               LET i == At(c)
               IN  IF c = start[i] THEN Opcode(xts, body[i])
                   ELSE Operand(xts, start, i, body[i])]
  IN  [t \in 0 .. Len(s.words) |-> Cells(Body(s, t))]

\* find_word_by_cfa over these words; 0 when the xt is not a code field.
WordOfXt(xts, xt) ==
  IF \E k \in DOMAIN xts : xts[k] = xt THEN CHOOSE k \in DOMAIN xts : xts[k] = xt ELSE 0

\* Dispatch tries the dictionary first and then takes the xt for a primitive.
HandlerOfXt(s, xts, xt) ==
  LET k == WordOfXt(xts, xt) IN IF k = 0 THEN xt ELSE s.words[k].handler

(***************************************************************************)
(* What the author of a program sees to: names, branches and operands are  *)
(* of its own threads; no custom word is a handler that wants an inline    *)
(* operand, which only an instruction has; and the dictionary has no code  *)
(* field at a number that the program uses as a primitive's.               *)
(***************************************************************************)
Instructions == [op : Nat \cup {LITXT}, arg : Int]

WellFormed(s) ==
  /\ s.entry \in Seq(Instructions)
  /\ s.words \in Seq([name_cells : Nat, handler : Nat \ InlineOperand, body : Seq(Instructions)])
  /\ \A t \in 0 .. Len(s.words) : \A i \in 1 .. Len(Body(s, t)) :
       LET instr == Body(s, t)[i]
       IN  /\ instr.op \in {BRANCH, ZBRANCH} => instr.arg \in 1 .. Len(Body(s, t)) + 1
           /\ instr.op \in {CALL, LITXT} => instr.arg \in 1 .. Len(s.words)
           /\ instr.op # CALL => WordOfXt(Xts(s), Opcode(Xts(s), instr)) = 0

=============================================================================
