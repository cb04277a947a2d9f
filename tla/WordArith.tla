------------------------------ MODULE WordArith ------------------------------
(***************************************************************************)
(* The two's-complement word of the 16-bit RPN calculator and the five     *)
(* LLVM instructions its binary opcodes emit: add, sub, mul, sdiv, srem.   *)
(* Half is 2^15 in the program; a small Half keeps the model checker's     *)
(* word small and every overflow within reach.                             *)
(***************************************************************************)
EXTENDS Integers

CONSTANT Half   \* The word holds -Half .. Half-1; a literal cell 0 .. Half-1.

ASSUME HalfAssumption == Half \in Nat \ {0}

Word == -Half .. Half - 1

LiteralValues == 0 .. Half - 1

\* What an LLVM integer instruction keeps of an exact result.
Wrap(x) == ((x + Half) % (2 * Half)) - Half

Magnitude(x) == IF x < 0 THEN -x ELSE x

\* sdiv and srem round toward zero, unlike \div and % (and unlike Python).
TruncQuotient(lhs, rhs) ==
  LET q == Magnitude(lhs) \div Magnitude(rhs)
  IN  IF (lhs < 0) = (rhs < 0) THEN q ELSE -q

TruncRemainder(lhs, rhs) == lhs - rhs * TruncQuotient(lhs, rhs)

BinaryOps == {"+", "-", "*", "/", "%"}

zero_sensitive == {"/", "%"}

(***************************************************************************)
(* sdiv and srem of the most negative word by -1 are undefined: the        *)
(* quotient is not a word.  A build traps (x86) or keeps the wrapped value *)
(* (AArch64), so both outcomes are modelled wherever Apply is used.        *)
(***************************************************************************)
Undefined(op, lhs, rhs) == op \in zero_sensitive /\ lhs = -Half /\ rhs = -1

Apply(op, lhs, rhs) ==
  CASE op = "+" -> Wrap(lhs + rhs)
    [] op = "-" -> Wrap(lhs - rhs)
    [] op = "*" -> Wrap(lhs * rhs)
    [] op = "/" -> Wrap(TruncQuotient(lhs, rhs))
    [] op = "%" -> Wrap(TruncRemainder(lhs, rhs))

=============================================================================
