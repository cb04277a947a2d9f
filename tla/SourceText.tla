------------------------------ MODULE SourceText ------------------------------
(***************************************************************************)
(* The tiny source language of the lab, cut into lexemes: what stands      *)
(* between two blanks or, where a string ends, up to its closing quote.    *)
(* Each keeps the octets of its text, the blank after it included (up to   *)
(* the quote for one that ends in a quote), because S" takes the text, and *)
(* not the words, of what follows it.                                      *)
(*                                                                         *)
(* Then what such a source means, independently of how it is compiled: its *)
(* word positions, whether it is well formed, and where each IF ends.      *)
(***************************************************************************)
EXTENDS Integers, Sequences, FiniteSetsExt, SequencesExt

Lexeme(kind, value, octets) == [kind |-> kind, value |-> value, octets |-> octets]

\* A lexeme in which a quote is found: S" itself is one.
HasQuote(lexeme) == lexeme.kind \in {"S\"", "quoted"}

\* The lexeme with the first quote at or after p, or 0.
Closing(source, p) ==
  LET quotes == {q \in p .. Len(source) : HasQuote(source[q])}
  IN  IF quotes = {} THEN 0 ELSE Min(quotes)

\* The text from p to the quote in q.
Text(source, p, q) ==
  FlattenSeq([i \in 1 .. q - p + 1 |-> source[p + i - 1].octets])

Keywords == {"LIT", "+", "EXIT", "IF", "THEN", "S\""}

(***************************************************************************)
(* Reference reading of a source.                                          *)
(***************************************************************************)
\* Where the word after the one at p starts.
After(source, p) ==
  CASE source[p].kind = "LIT" -> p + 2
    [] source[p].kind = "S\"" /\ Closing(source, p + 1) # 0 -> Closing(source, p + 1) + 1
    [] OTHER -> p + 1

WordPositions(source) ==
  LET starts[p \in 1 .. Len(source)] ==
        p = 1 \/ \E q \in 1 .. p - 1 : After(source, q) = p /\ starts[q]
  IN  {p \in 1 .. Len(source) : starts[p]}

Count(source, positions, kind) == Cardinality({p \in positions : source[p].kind = kind})

\* IFs open after the words from p up to q.
Open(source, p, q) ==
  LET range == WordPositions(source) \cap (p .. q)
  IN  Count(source, range, "IF") - Count(source, range, "THEN")

WellFormed(source) ==
  LET at == WordPositions(source)
  IN  /\ \A p \in at :
           /\ source[p].kind \in Keywords
           /\ source[p].kind = "LIT" => p < Len(source) /\ source[p + 1].kind = "number"
           /\ source[p].kind = "S\"" => Closing(source, p + 1) # 0
           /\ Open(source, 1, p) >= 0
      /\ Open(source, 1, Len(source)) = 0

\* The THEN of the IF at p.
Match(source, p) ==
  Min({q \in WordPositions(source) : q > p /\ Open(source, p, q) = 0})

\* The first word at or after p that does something, or the end of the source.
Resume(source, p) ==
  Min({q \in WordPositions(source) : q >= p /\ source[q].kind # "THEN"}
        \cup {Len(source) + 1})
=============================================================================
