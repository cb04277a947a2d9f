----------------------------- MODULE MCDictionary -----------------------------
(***************************************************************************)
(* Small instances of the dictionary for TLC.                              *)
(***************************************************************************)
EXTENDS Dictionary

Request(name, handler, data18, hidden, data) ==
  [name |-> name, handler_id |-> handler, code_field_data |-> data18,
   hidden |-> hidden, immediate |-> hidden, data |-> data]

\* Names of no, one and two cells, one a padded prefix of another; hidden
\* words; a handler id, a code_field_data and data beyond their fields and cells.
MCRequests ==
  { Request(<<>>, 1, 0, FALSE, <<>>),
    Request(<<7>>, 2, 1, FALSE, <<5>>),
    Request(<<7>>, 3, 1, TRUE, <<>>),
    Request(<<7, 8>>, 1, 0, FALSE, <<>>),
    Request(<<7, 8, 9>>, 5, 3, FALSE, <<6, 3>>),
    Request(<<8>>, 1, 4, FALSE, <<>>) }

\* Two ordinary names and two that the length field cannot hold.
MCLongNames ==
  { Request(<<9>>, 1, 0, FALSE, <<>>),
    Request(<<7, 8>>, 1, 0, FALSE, <<>>),
    Request(<<7, 7, 8, 8>>, 2, 0, FALSE, <<>>),
    Request(<<7, 7, 8, 8, 9>>, 2, 0, FALSE, <<>>) }

MCRuntime == {"runtime"}
MCIR == {"ir"}
MCBoth == {"runtime", "ir"}

=============================================================================
