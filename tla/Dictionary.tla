------------------------------ MODULE Dictionary ------------------------------
(***************************************************************************)
(* The dictionary memory of fythvm: a block of cells into which words are  *)
(* written at HERE as  [name + padding][link][CodeField][data...], each    *)
(* linked to the word before it, LATEST naming the newest.  Two writers    *)
(* share it: the Python DictionaryRuntime (runtime.py), which checks the   *)
(* capacity and may raise half way, and compiled DictionaryIR code         *)
(* (ir.py), which checks nothing.  The data and return stacks follow the   *)
(* cells in the same structure.                                            *)
(*                                                                         *)
(* A name is a sequence of nonzero bytes.  A cell is a record of what was  *)
(* last written to it.  A definition X_fault is a plausible slip in the    *)
(* code X models; it shows that the properties would notice it.            *)
(***************************************************************************)
EXTENDS Integers, Sequences, FiniteSets

CONSTANTS
  CellSize,     \* CELL_SIZE, 4 bytes
  NameMod,      \* the name_length field has 5 bits: 32
  HandlerMod,   \* the handler_id field has 7 bits: 128
  DataMod,      \* the code_field_data field has 18 bits: 2^18
  CellMod,      \* a data cell is an int32: 2^32
  Capacity,     \* DEFAULT_MEMORY_CELLS, 256
  StackCells,   \* data_stack and return_stack together, 32 cells
  Requests,     \* the create_word calls clients make
  Writers,      \* which writers make them: a subset of {"runtime", "ir"}
  MaxWords      \* bound on the number of words an "ir" writer creates up to

NULL_INDEX == -1

Bytes == 1 .. 255

ASSUME DictionaryAssumption ==
  /\ CellSize \in Nat \ {0}
  /\ NameMod \in Nat \ {0}
  /\ HandlerMod \in Nat \ {0}
  /\ DataMod \in Nat \ {0}
  /\ CellMod \in Nat \ {0}
  /\ Capacity \in Nat
  /\ StackCells \in Nat
  /\ MaxWords \in Nat
  /\ Writers \subseteq {"runtime", "ir"}

ASSUME RequestsAssumption ==
  Requests \subseteq [name : Seq(Bytes), handler_id : Nat, code_field_data : Int,
                      hidden : BOOLEAN, immediate : BOOLEAN, data : Seq(Int)]

VARIABLES
  cells,        \* every cell of the structure, the stacks' cells last
  here,         \* registers.here: the first free cell
  latest,       \* registers.latest: the newest word's link cell, or NULL_INDEX
  entries,      \* history: where every word created lies, oldest first
  request,      \* the last create_word call
  reply,        \* "created", or the exception it raised
  cursor,       \* the saved next link of a live iter_words generator
  yielded       \* the words that generator has yielded so far

memory == <<cells, here, latest>>
iteration == <<cursor, yielded>>
vars == <<cells, here, latest, entries, request, reply, cursor, yielded>>

Addresses == 0 .. Capacity + StackCells - 1
StackAddresses == Capacity .. Capacity + StackCells - 1

(***************************************************************************)
(* Cells.  A torn code field is one whose last bits were never stored.     *)
(***************************************************************************)
ZeroCell == [kind |-> "zero"]
TornCell == [kind |-> "torn"]
NameCell(bytes) == [kind |-> "name", bytes |-> bytes]
LinkCell(index) == [kind |-> "link", to |-> index]

\* The value an int32 cell holds after v is stored in it.
int32(v) == LET u == v % CellMod IN IF 2 * u < CellMod THEN u ELSE u - CellMod

DataCell(value) == [kind |-> "data", value |-> int32(value)]

CodeCell(r) ==
  [kind |-> "code", handler_id |-> r.handler_id % HandlerMod, hidden |-> r.hidden,
   name_length |-> Len(r.name) % NameMod, immediate |-> r.immediate,
   code_field_data |-> r.code_field_data % DataMod]

aligned_name_cells(length) == (length + CellSize - 1) \div CellSize

PaddedName_fault(name, j) ==
  NameCell([b \in 1 .. CellSize |->
              LET p == j * CellSize + b IN IF p < Len(name) THEN name[p] ELSE 0])
\* Cell number j of a name: its bytes, then zeros up to the alignment.
PaddedName(name, j) ==
  NameCell([b \in 1 .. CellSize |->
              LET p == j * CellSize + b IN IF p <= Len(name) THEN name[p] ELSE 0])

(***************************************************************************)
(* Reading a word.                                                         *)
(***************************************************************************)
link(index) == cells[index].to
code_field(index) == cells[index + 1]
cfa_index(index) == index + 1
dfa_index(index) == index + 2
name_start(index) == index - aligned_name_cells(code_field(index).name_length)

name_bytes(index) ==
  [b \in 1 .. code_field(index).name_length |->
     cells[name_start(index) + (b - 1) \div CellSize].bytes[((b - 1) % CellSize) + 1]]

\* The Python reader indexes the cells array, which ends at Capacity; the names,
\* the links and the code fields are read by address, past its end too.
read_data_cells(index, count) ==
  IF count > 0 /\ dfa_index(index) + count > Capacity
  THEN [error |-> "IndexError", cells |-> <<>>]
  ELSE [error |-> "none", cells |-> [k \in 1 .. count |-> cells[dfa_index(index) + k - 1].value]]

(***************************************************************************)
(* Lookup walks the links from LATEST and stops at the first match: at[n]  *)
(* is the index after n rounds of the loop.  The chain of the words        *)
(* created has no more rounds in it than there are words.                  *)
(***************************************************************************)
FirstMatch(matches) ==
  LET at[n \in 0 .. Len(entries)] ==
        IF n = 0 THEN latest
        ELSE IF at[n - 1] = NULL_INDEX \/ matches[at[n - 1]] THEN at[n - 1]
        ELSE link(at[n - 1])
  IN  at[Len(entries)]

find_word(query) ==
  FirstMatch([index \in Addresses |-> ~code_field(index).hidden /\ name_bytes(index) = query])

\* The compiled lookup compares lengths, then whole zero-padded name cells.
word_matches_aligned_name_fault(index, query) ==
  \A j \in 0 .. aligned_name_cells(Len(query)) - 1 :
    cells[name_start(index) + j] = PaddedName(query, j)
word_matches_aligned_name(index, query) ==
  /\ code_field(index).name_length = Len(query)
  /\ \A j \in 0 .. aligned_name_cells(Len(query)) - 1 :
       cells[name_start(index) + j] = PaddedName(query, j)

find_word_ir(query) ==
  FirstMatch([index \in Addresses |->
                ~code_field(index).hidden /\ word_matches_aligned_name(index, query)])

find_word_by_cfa(cfa) == FirstMatch([index \in Addresses |-> cfa_index(index) = cfa])

(***************************************************************************)
(* Creating a word.                                                        *)
(***************************************************************************)
Init ==
  /\ cells = [a \in Addresses |-> ZeroCell]
  /\ here = 0
  /\ latest = NULL_INDEX
  /\ entries = <<>>
  /\ request \in Requests
  /\ reply = "none"
  /\ cursor = NULL_INDEX
  /\ yielded = <<>>

word_index(r) == here + aligned_name_cells(Len(r.name))
end_cell_fault(r) == word_index(r) + 1 + Len(r.data)
end_cell(r) == word_index(r) + 2 + Len(r.data)

Written_fault(r, code, data) ==
  [a \in Addresses |->
     IF a \in here .. word_index(r) - 1 THEN PaddedName(r.name, a - here)
     ELSE IF a \in {latest, word_index(r)} THEN LinkCell(word_index(r))
     ELSE IF a = word_index(r) + 1 THEN code
     ELSE IF a \in word_index(r) + 2 .. word_index(r) + 1 + Len(data)
          THEN DataCell(data[a - word_index(r) - 1])
     ELSE cells[a]]
\* The structure's cells once the entry of r is written with the given code field.
Written(r, code, data) ==
  [a \in Addresses |->
     IF a \in here .. word_index(r) - 1 THEN PaddedName(r.name, a - here)
     ELSE IF a = word_index(r) THEN LinkCell(latest)
     ELSE IF a = word_index(r) + 1 THEN code
     ELSE IF a \in word_index(r) + 2 .. word_index(r) + 1 + Len(data)
          THEN DataCell(data[a - word_index(r) - 1])
     ELSE cells[a]]

\* latest and here are stored last, once the whole entry is in place.
Commit(r) ==
  /\ cells' = Written(r, CodeCell(r), r.data)
  /\ latest' = word_index(r)
  /\ here' = end_cell(r)
  /\ entries' = Append(entries, [index |-> word_index(r), end |-> end_cell(r)])
  /\ reply' = "created"

Call(writer, r) ==
  /\ writer \in Writers
  /\ request' = r
  /\ UNCHANGED iteration

ValidData(r) == r.code_field_data \in 0 .. DataMod - 1

Fits_fault(r) == end_cell(r) <= Capacity + 1
Fits(r) == end_cell(r) <= Capacity

RuntimeCreate(r) ==
  /\ Call("runtime", r)
  /\ Fits(r)
  /\ ValidData(r)
  /\ Commit(r)

RuntimeExhausted(r) ==
  /\ Call("runtime", r)
  /\ ~Fits(r)
  /\ reply' = "MemoryError"
  /\ UNCHANGED <<memory, entries>>

RuntimeBadData_fault(r) ==
  /\ Call("runtime", r)
  /\ Fits(r)
  /\ ~ValidData(r)
  /\ cells' = Written(r, TornCell, <<>>)
  /\ reply' = "ValueError"
  /\ latest' = word_index(r)
  /\ UNCHANGED <<here, entries>>
\* The range check comes after the name, the link and the other fields are
\* written: the torn entry stays above HERE, unlinked.
RuntimeBadData(r) ==
  /\ Call("runtime", r)
  /\ Fits(r)
  /\ ~ValidData(r)
  /\ cells' = Written(r, TornCell, <<>>)
  /\ reply' = "ValueError"
  /\ UNCHANGED <<here, latest, entries>>

\* Compiled code has no capacity check and truncates every field.
IRCreate(r) ==
  /\ Call("ir", r)
  /\ Len(entries) < MaxWords
  /\ end_cell(r) <= Capacity + StackCells
  /\ Commit(r)

(***************************************************************************)
(* iter_words is a generator: words may be created while one is suspended. *)
(***************************************************************************)
IterStart ==
  /\ latest # NULL_INDEX
  /\ cursor' = link(latest)
  /\ yielded' = <<latest>>
  /\ UNCHANGED <<memory, entries, request, reply>>

IterNext_fault ==
  /\ cursor # NULL_INDEX
  /\ cursor' = link(latest)
  /\ yielded' = Append(yielded, cursor)
  /\ UNCHANGED <<memory, entries, request, reply>>
IterNext ==
  /\ cursor # NULL_INDEX
  /\ cursor' = link(cursor)
  /\ yielded' = Append(yielded, cursor)
  /\ UNCHANGED <<memory, entries, request, reply>>

Next ==
  \/ \E r \in Requests : RuntimeCreate(r)
  \/ \E r \in Requests : RuntimeExhausted(r)
  \/ \E r \in Requests : RuntimeBadData(r)
  \/ \E r \in Requests : IRCreate(r)
  \/ IterStart
  \/ IterNext

Spec == Init /\ [][Next]_vars

(***************************************************************************)
(* Properties.                                                             *)
(***************************************************************************)
CellType ==
  {ZeroCell, TornCell}
    \cup [kind : {"name"}, bytes : [1 .. CellSize -> 0 .. 255]]
    \cup [kind : {"link"}, to : Addresses \cup {NULL_INDEX}]
    \cup [kind : {"code"}, handler_id : 0 .. HandlerMod - 1, hidden : BOOLEAN,
          name_length : 0 .. NameMod - 1, immediate : BOOLEAN,
          code_field_data : 0 .. DataMod - 1]
    \cup [kind : {"data"}, value : {v \in Int : -CellMod <= 2 * v /\ 2 * v < CellMod}]

\* Every variable has its type.
TypeOK ==
  /\ cells \in [Addresses -> CellType]
  /\ here \in 0 .. Capacity + StackCells
  /\ latest \in Addresses \cup {NULL_INDEX}
  /\ entries \in Seq([index : Addresses, end : 0 .. Capacity + StackCells])
  /\ request \in Requests
  /\ reply \in {"none", "created", "MemoryError", "ValueError"}
  /\ cursor \in Addresses \cup {NULL_INDEX}
  /\ yielded \in Seq(Addresses)

Previous(k) == IF k = 1 THEN NULL_INDEX ELSE entries[k - 1].index

\* LATEST is the head of a chain that visits exactly the words created, newest
\* first, down to NULL_INDEX: each entry's link cell names the entry before it.
ChainIsHistory ==
  /\ latest = Previous(Len(entries) + 1)
  /\ \A k \in 1 .. Len(entries) : cells[entries[k].index] = LinkCell(Previous(k))

\* Entries lie one after the other below HERE: a word's name starts no earlier
\* than the previous word's data ends, so no word overlaps another or the free
\* cells a later word is written to.
EntriesAreDisjoint ==
  \A k \in 1 .. Len(entries) :
    LET e == entries[k]
    IN  /\ code_field(e.index).kind = "code"
        /\ name_start(e.index) >= IF k = 1 THEN 0 ELSE entries[k - 1].end
        /\ e.index + 2 <= e.end
        /\ e.end <= IF k = Len(entries) THEN here ELSE entries[k + 1].index

\* Nothing below HERE ever changes again, whether a call succeeds, raises half
\* way or is made while an iteration is suspended; HERE never moves back.
AppendOnly ==
  [][/\ here' >= here
     /\ \A a \in Addresses : a < here => cells'[a] = cells[a]]_vars

\* HERE stays the write frontier of the cells array, and the stacks that follow
\* the array in the structure keep their contents.
StacksUntouched ==
  /\ here <= Capacity
  /\ \A a \in StackAddresses : cells[a] = ZeroCell

\* No call of the Python writer, completed or raised half way, stores into the
\* stacks, not even after compiled code has moved HERE past the cells array.
PythonLeavesStacks ==
  [][(\E r \in Requests : RuntimeCreate(r) \/ RuntimeExhausted(r) \/ RuntimeBadData(r))
       => \A a \in StackAddresses : cells'[a] = cells[a]]_vars

\* Memory read back through the word prefixes is the word list of WordList:
\* each word is what its creator asked for, whatever calls followed it, and a
\* call that raised left nothing a reader can see.  Only the data of a word that
\* compiled code wrote past the cells array cannot be read back.
ReadWord(k) ==
  LET e == entries[k]
      code == code_field(e.index)
  IN  [name |-> name_bytes(e.index), handler_id |-> code.handler_id,
       code_field_data |-> code.code_field_data, hidden |-> code.hidden,
       immediate |-> code.immediate,
       data |-> read_data_cells(e.index, e.end - dfa_index(e.index))]

List == INSTANCE WordList WITH words <- [k \in 1 .. Len(entries) |-> ReadWord(k)],
                               overrun <- here > Capacity

ImplementsWordList == List!Spec

IndexAt(k) == IF k = 0 THEN NULL_INDEX ELSE entries[k].index

\* The Python and the compiled lookup give the same answer to every query: the
\* newest visible word of exactly that name, or NULL_INDEX.
LookupIsNewestVisible ==
  \A query \in {r.name : r \in Requests} :
    /\ find_word(query) = IndexAt(List!NewestVisible(query))
    /\ find_word_ir(query) = find_word(query)

\* An xt that is a word's CFA, hidden or shadowed as it may be, resolves to that
\* word, and no other cell index resolves to a word.
CfaIdentifiesWord ==
  \A cfa \in Addresses :
    find_word_by_cfa(cfa) =
      IF \E k \in 1 .. Len(entries) : cfa_index(entries[k].index) = cfa
      THEN cfa - 1 ELSE NULL_INDEX

\* By name or by CFA, in Python or compiled, a lookup finds the word that was
\* created, never another that shares a cell, a prefix or a name with it.
LookupsFindTheirWord == LookupIsNewestVisible /\ CfaIdentifiesWord

\* A suspended iteration goes on through the words that existed when it began,
\* in order and without a gap, however many words are created meanwhile.
IterationIsSnapshot ==
  yielded # <<>> =>
    \E m \in Len(yielded) .. Len(entries) :
      /\ \A i \in 1 .. Len(yielded) : yielded[i] = entries[m - i + 1].index
      /\ cursor = Previous(m - Len(yielded) + 1)

\* A word just defined, and not hidden, is the one its own name finds.
NewestDefinitionFound ==
  reply = "created" /\ ~request.hidden => find_word(request.name) = latest

=============================================================================
