------------------------------- MODULE WordList -------------------------------
(***************************************************************************)
(* What the dictionary promises its callers, with no memory in sight: an   *)
(* append-only list of words, oldest first, and a lookup that answers with *)
(* the newest visible word of a name.  Compiled code may overrun memory    *)
(* at a word of its own; the data given with it and with every later word  *)
(* is then out of the readers' reach.                                      *)
(***************************************************************************)
EXTENDS Integers, Sequences, FiniteSets

CONSTANTS
  Requests,     \* the create_word calls clients make
  HandlerMod,   \* handler_id keeps 7 bits: 128
  DataMod,      \* code_field_data keeps 18 bits: 2^18
  CellMod,      \* a data cell keeps an int32: 2^32
  Writers       \* who creates words: a subset of {"runtime", "ir"}

VARIABLES
  words,        \* the words created so far, oldest first
  overrun,      \* compiled code has written past the memory readers can index
  request,      \* the last create_word call
  reply         \* "created", or the exception it raised

vars == <<words, overrun, request, reply>>

int32(v) == LET u == v % CellMod IN IF 2 * u < CellMod THEN u ELSE u - CellMod

\* What reading the data of a word answers, when it was created in reach or past it.
DataOf(r, unreachable) ==
  IF unreachable /\ r.data # <<>>
  THEN [error |-> "IndexError", cells |-> <<>>]
  ELSE [error |-> "none", cells |-> [k \in 1 .. Len(r.data) |-> int32(r.data[k])]]

\* The word a request asks for, as far as the fields and cells can hold it.
WordOf(r, unreachable) ==
  [name |-> r.name, handler_id |-> r.handler_id % HandlerMod,
   code_field_data |-> r.code_field_data % DataMod,
   hidden |-> r.hidden, immediate |-> r.immediate, data |-> DataOf(r, unreachable)]

\* Positions count from 1; 0 answers that no visible word has the name.
NewestVisible(query) ==
  LET hits == {k \in 1 .. Len(words) : words[k].name = query /\ ~words[k].hidden}
  IN  IF hits = {} THEN 0 ELSE CHOOSE k \in hits : \A j \in hits : j <= k

Init ==
  /\ words = <<>>
  /\ overrun = FALSE
  /\ request \in Requests
  /\ reply = "none"

Create(r) ==
  /\ overrun' \in IF "ir" \in Writers THEN {overrun, TRUE} ELSE {overrun}
  /\ words' = Append(words, WordOf(r, overrun'))
  /\ request' = r
  /\ reply' = "created"

\* A call that raises changes no word.
Reject(r) ==
  /\ request' = r
  /\ reply' \in {"MemoryError", "ValueError"}
  /\ reply' = "ValueError" => r.code_field_data \notin 0 .. DataMod - 1
  /\ UNCHANGED <<words, overrun>>

Next == \E r \in Requests : Create(r) \/ Reject(r)

Spec == Init /\ [][Next]_vars

=============================================================================
