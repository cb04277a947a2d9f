---------------------------- MODULE SourceMachine ----------------------------
(***************************************************************************)
(* What a source of the handler-requirements lab does, said on the source  *)
(* itself: no thread, no cells, no offsets.  LIT pushes the number beside  *)
(* it, IF goes on when the flag is not zero and else continues at its      *)
(* THEN, S" pushes its text and length, EXIT stops.  This is the abstract  *)
(* specification that compiling and running a source implements.           *)
(***************************************************************************)
EXTENDS SourceText

CONSTANT StackLimit

VARIABLES
  source,    \* the lexemes
  position,  \* the word executed next, never a THEN
  stack,     \* values, top last
  outcome    \* "running", "rejected", "halted", or why it failed

vars == <<source, position, stack, outcome>>

Number(n) == [kind |-> "int", value |-> n, octets |-> <<>>]
String(octets) == [kind |-> "ref", value |-> 0, octets |-> octets]

Init ==
  /\ source \in Seq([kind : STRING, value : Int, octets : Seq(Nat)])
  /\ position = 1
  /\ stack = <<>>
  /\ outcome = "running"

Stop(why) == outcome' = why /\ UNCHANGED <<source, position, stack>>

\* A source that is not well formed is never executed.
Reject == outcome = "running" /\ ~WellFormed(source) /\ Stop("rejected")

At(kind) ==
  /\ outcome = "running"
  /\ WellFormed(source)
  /\ position <= Len(source)
  /\ source[position].kind = kind

Takes(kind) == CASE kind = "+" -> 2 [] kind = "IF" -> 1 [] OTHER -> 0

\* The room a word asks for beside what it takes.
Room(kind) == CASE kind \in {"+", "LIT"} -> 1 [] kind = "S\"" -> 2 [] OTHER -> 0

Fits(kind) == Len(stack) >= Takes(kind) /\ Len(stack) + Room(kind) <= StackLimit

Proceed(to, new_stack) ==
  /\ position' = Resume(source, to)
  /\ stack' = new_stack
  /\ UNCHANGED <<source, outcome>>

Below(n) == SubSeq(stack, 1, Len(stack) - n)

Literal ==
  /\ At("LIT") /\ Fits("LIT")
  /\ Proceed(position + 2, Append(stack, Number(source[position + 1].value)))

Plus ==
  /\ At("+") /\ Fits("+")
  /\ LET a == stack[Len(stack) - 1]
         b == stack[Len(stack)]
     IN  IF a.kind = "int" /\ b.kind = "int"
           THEN Proceed(position + 1, Append(Below(2), Number(a.value + b.value)))
           ELSE /\ stack' = Below(2)
                /\ outcome' = "TypeError"
                /\ UNCHANGED <<source, position>>

If ==
  /\ At("IF") /\ Fits("IF")
  /\ Proceed(IF stack[Len(stack)] = Number(0) THEN Match(source, position) ELSE position + 1,
             Below(1))

Quote ==
  /\ At("S\"") /\ Fits("S\"")
  /\ LET closing == Closing(source, position + 1)
         text == Text(source, position + 1, closing)
     IN  Proceed(closing + 1, stack \o <<String(text), Number(Len(text))>>)

Exit == At("EXIT") /\ Stop("halted")

Fault ==
  \E kind \in Keywords :
    /\ At(kind) /\ ~Fits(kind)
    /\ Stop(IF Len(stack) < Takes(kind) THEN "stack-underflow" ELSE "stack-overflow")

RunOut ==
  /\ outcome = "running"
  /\ WellFormed(source)
  /\ position > Len(source)
  /\ Stop("missing-exit")

Next == Reject \/ Literal \/ Plus \/ If \/ Quote \/ Exit \/ Fault \/ RunOut

Spec == Init /\ [][Next]_vars
=============================================================================
