--------------------------- MODULE MCCompileAndRun ---------------------------
(***************************************************************************)
(* CompileAndRun on sample sources: all short sequences of lexemes,        *)
(* which break the grammar in every way, and longer ones made of phrases,  *)
(* which reach nested branches, full stacks and every fault.  Octets are   *)
(* numbered from 1; what a text says plays no part, its length and order   *)
(* do.  The loop only runs what was compiled: it has no scenario besides.  *)
(***************************************************************************)
EXTENDS CompileAndRun

CONSTANTS LexemesAtMost, PhrasesAtMost  \* bounds of the two families

Blank == 1
Word(kind, letters) == Lexeme(kind, 0, Append(letters, Blank))

lit == Word("LIT", <<5, 6, 7>>)
plus == Word("+", <<4>>)
exit == Word("EXIT", <<8, 9, 6, 7>>)
if == Word("IF", <<6, 10>>)
then == Word("THEN", <<7, 11, 8, 12>>)
squote == Lexeme("S\"", 0, <<13>>)
zero == Lexeme("number", 0, <<2, Blank>>)
three == Lexeme("number", 3, <<3, Blank>>)
ending == Lexeme("quoted", 0, <<14, 6>>)
nothing == Lexeme("quoted", 0, <<>>)
junk == Word("other", <<15>>)

Lexemes == {lit, plus, exit, if, then, squote, zero, three, ending}

Phrases == {<<lit, zero>>, <<lit, three>>, <<plus>>, <<exit>>, <<if>>, <<then>>,
            <<squote, ending>>, <<squote, if, ending>>}

Fixed == {<<junk>>, <<squote, nothing>>, <<squote, then, nothing, exit>>,
          <<lit, junk>>, <<squote, lit, squote, exit>>,
          <<lit, zero, if, lit, three, if, squote, then, ending, then, then, exit>>,
          <<lit, three, if, lit, zero, if, lit, three, then, lit, three, then, plus, exit>>}

MCSources ==
  UNION {[1 .. n -> Lexemes] : n \in 0 .. LexemesAtMost}
    \cup {FlattenSeq(p) : p \in UNION {[1 .. n -> Phrases] : n \in 0 .. PhrasesAtMost}}
    \cup Fixed
=============================================================================
