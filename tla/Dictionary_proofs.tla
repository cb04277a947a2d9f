--------------------------- MODULE Dictionary_proofs ---------------------------
(***************************************************************************)
(* For every cell size, field width, capacity and set of requests: the     *)
(* chain of links is the history of the words created, entries never       *)
(* overlap or change once written, a suspended iteration keeps to its      *)
(* snapshot, the Python writer stays off the stacks, the memory implements *)
(* the word list WordList, and every lookup finds the word it should.      *)
(***************************************************************************)
EXTENDS Dictionary, SequenceTheorems, SetInduction, TLAPS

USE DictionaryAssumption, RequestsAssumption

-----------------------------------------------------------------------------
(***************************************************************************)
(* Arithmetic of cells and bytes.                                          *)
(***************************************************************************)
\* Division by a positive number, as quotient and remainder.
LEMMA DivisionFacts ==
  ASSUME NEW a \in Nat, NEW n \in Nat \ {0}
  PROVE  /\ a \div n \in Nat
         /\ a % n \in 0 .. n - 1
         /\ a = n * (a \div n) + (a % n)
  OBVIOUS

\* A quotient is the number of whole divisors below the dividend.
LEMMA QuotientBounds ==
  ASSUME NEW a \in Nat, NEW n \in Nat \ {0}
  PROVE  \E p \in Nat : p = a \div n /\ n * p \in Nat /\ n * p <= a /\ a < n * p + n
<1>1. a \div n \in Nat /\ a % n \in 0 .. n - 1 /\ a = n * (a \div n) + (a % n)
  BY DivisionFacts
<1>2. n * (a \div n) \in Nat
  BY <1>1
<1> QED
  BY <1>1, <1>2

\* A remainder is at most the dividend.
LEMMA RemainderBound ==
  ASSUME NEW a \in Nat, NEW n \in Nat \ {0}
  PROVE  a % n \in 0 .. a
<1>1. a \div n \in Nat /\ a % n \in 0 .. n - 1 /\ a = n * (a \div n) + (a % n)
  BY DivisionFacts
<1>2. PICK p \in Nat : p = n * (a \div n)
  BY <1>1
<1>3. a = p + (a % n) /\ a % n \in Nat
  BY <1>1, <1>2
<1> QED
  BY <1>3

\* A number below the divisor is its own remainder.
LEMMA SmallRemainder ==
  ASSUME NEW a \in Nat, NEW n \in Nat \ {0}, a < n
  PROVE  a % n = a
<1>1. PICK q \in Nat, p \in 0 .. n - 1 : p = a % n /\ a = n * q + p
  <2>1. a \div n \in Nat /\ a % n \in 0 .. n - 1 /\ a = n * (a \div n) + (a % n)
    BY DivisionFacts
  <2> QED
    BY <2>1
<1>2. q # 0 => n * q >= n
  <2>1. q # 0 => n * (q - 1) >= 0
    OBVIOUS
  <2>2. n * (q - 1) = n * q - n
    OBVIOUS
  <2>3. n * q \in Nat
    OBVIOUS
  <2> QED
    BY <2>1, <2>2, <2>3
<1>3. q = 0
  <2>1. n * q \in Nat
    OBVIOUS
  <2> QED
    BY <1>1, <1>2, <2>1
<1> QED
  BY <1>1, <1>3

\* Products with a positive factor keep a strict order.
LEMMA FactorCancels ==
  ASSUME NEW p \in Nat, NEW q \in Nat, NEW n \in Nat \ {0}, n * p < n * q
  PROVE  p < q
<1>1. SUFFICES ASSUME q <= p
               PROVE  n * q <= n * p
  OBVIOUS
<1>2. n * (p - q) >= 0
  BY <1>1
<1>3. n * (p - q) = n * p - n * q
  OBVIOUS
<1>4. n * p \in Int /\ n * q \in Int
  OBVIOUS
<1> QED
  BY <1>2, <1>3, <1>4

\* Quotients are ordered as their dividends are, and a whole divisor apart differ.
LEMMA QuotientOrder ==
  ASSUME NEW x \in Nat, NEW y \in Nat, NEW n \in Nat \ {0}
  PROVE  /\ x <= y => x \div n <= y \div n
         /\ x + n <= y => x \div n < y \div n
<1>1. PICK p \in Nat : p = x \div n /\ n * p \in Nat /\ n * p <= x /\ x < n * p + n
  BY QuotientBounds
<1>2. PICK q \in Nat : q = y \div n /\ n * q \in Nat /\ n * q <= y /\ y < n * q + n
  BY QuotientBounds
<1>3. ASSUME x <= y
      PROVE  p <= q
  <2>1. n * p < n * (q + 1)
    BY <1>1, <1>2, <1>3
  <2> QED
    BY <2>1, FactorCancels
<1>4. ASSUME x + n <= y
      PROVE  p < q
  <2>1. n * p < n * q
    BY <1>1, <1>2, <1>4
  <2> QED
    BY <2>1, FactorCancels
<1> QED
  BY <1>1, <1>2, <1>3, <1>4

\* A name's cells hold all of its bytes, and a shorter name takes no more cells.
LEMMA AlignedFacts ==
  ASSUME NEW length \in Nat
  PROVE  /\ aligned_name_cells(length) \in Nat
         /\ \A b \in 1 .. length :
              /\ (b - 1) \div CellSize \in Nat
              /\ (b - 1) % CellSize \in 0 .. CellSize - 1
              /\ b - 1 = CellSize * ((b - 1) \div CellSize) + ((b - 1) % CellSize)
              /\ (b - 1) \div CellSize < aligned_name_cells(length)
         /\ \A shorter \in 0 .. length :
              aligned_name_cells(shorter) <= aligned_name_cells(length)
<1>1. aligned_name_cells(length) \in Nat
  BY DivisionFacts DEF aligned_name_cells
<1>2. ASSUME NEW b \in 1 .. length
      PROVE  (b - 1) \div CellSize < aligned_name_cells(length)
  <2>1. b - 1 \in Nat /\ length + CellSize - 1 \in Nat /\ (b - 1) + CellSize <= length + CellSize - 1
    OBVIOUS
  <2> QED
    BY <2>1, QuotientOrder DEF aligned_name_cells
<1>3. ASSUME NEW shorter \in 0 .. length
      PROVE  aligned_name_cells(shorter) <= aligned_name_cells(length)
  <2>1. shorter + CellSize - 1 \in Nat /\ length + CellSize - 1 \in Nat
    OBVIOUS
  <2> QED
    BY <2>1, QuotientOrder DEF aligned_name_cells
<1>4. ASSUME NEW b \in 1 .. length
      PROVE  /\ (b - 1) \div CellSize \in Nat
             /\ (b - 1) % CellSize \in 0 .. CellSize - 1
             /\ b - 1 = CellSize * ((b - 1) \div CellSize) + ((b - 1) % CellSize)
  <2>1. b - 1 \in Nat
    OBVIOUS
  <2> QED
    BY <2>1, DivisionFacts
<1> QED
  BY <1>1, <1>2, <1>3, <1>4

-----------------------------------------------------------------------------
(***************************************************************************)
(* Where a request's entry goes.                                           *)
(***************************************************************************)
\* The entry starts at HERE and its parts follow in order.
LEMMA EntryFacts ==
  ASSUME here \in Nat, NEW r \in Requests
  PROVE  /\ Len(r.name) \in Nat /\ Len(r.data) \in Nat
         /\ word_index(r) \in Nat /\ here <= word_index(r)
         /\ end_cell(r) \in Nat /\ word_index(r) + 2 <= end_cell(r)
         /\ end_cell(r) = word_index(r) + 2 + Len(r.data)
<1>1. r.name \in Seq(Bytes) /\ r.data \in Seq(Int)
  OBVIOUS
<1>2. Len(r.name) \in Nat /\ Len(r.data) \in Nat
  BY <1>1
<1>3. aligned_name_cells(Len(r.name)) \in Nat
  BY <1>2, AlignedFacts
<1> QED
  BY <1>2, <1>3 DEF word_index, end_cell

\* Every name cell is padded to CellSize bytes.
LEMMA PaddedNameType ==
  ASSUME NEW r \in Requests, NEW j \in Nat
  PROVE  PaddedName(r.name, j) \in CellType
<1>1. r.name \in Seq(Bytes)
  OBVIOUS
<1>2. PICK base \in Nat : base = j * CellSize
  OBVIOUS
<1>3. ASSUME NEW b \in 1 .. CellSize
      PROVE  (IF base + b <= Len(r.name) THEN r.name[base + b] ELSE 0) \in 0 .. 255
  <2>1. CASE base + b <= Len(r.name)
    <3>1. base + b \in 1 .. Len(r.name)
      <4>1. base \in Nat /\ b \in Nat \ {0} /\ Len(r.name) \in Nat
        BY <1>1, <1>2
      <4> QED
        BY <2>1, <4>1
    <3>2. r.name[base + b] \in Bytes
      BY <1>1, <3>1
    <3> QED
      BY <2>1, <3>2 DEF Bytes
  <2>2. CASE ~(base + b <= Len(r.name))
    BY <2>2
  <2> QED
    BY <2>1, <2>2
<1>4. [b \in 1 .. CellSize |->
         LET p == j * CellSize + b IN IF p <= Len(r.name) THEN r.name[p] ELSE 0]
        \in [1 .. CellSize -> 0 .. 255]
  BY <1>2, <1>3
<1> QED
  BY <1>4 DEF PaddedName, NameCell, CellType

\* A code field holds each value modulo the width of its field.
LEMMA CodeCellType ==
  ASSUME NEW r \in Requests
  PROVE  CodeCell(r) \in CellType /\ CodeCell(r).kind = "code"
<1>1. Len(r.name) \in Nat /\ r.handler_id \in Nat /\ r.code_field_data \in Int
      /\ r.hidden \in BOOLEAN /\ r.immediate \in BOOLEAN
  OBVIOUS
<1>2. Len(r.name) % NameMod \in 0 .. NameMod - 1
  BY <1>1, DivisionFacts
<1>3. r.handler_id % HandlerMod \in 0 .. HandlerMod - 1
  BY <1>1
<1>4. r.code_field_data % DataMod \in 0 .. DataMod - 1
  BY <1>1
<1> QED
  BY <1>1, <1>2, <1>3, <1>4 DEF CodeCell, CellType

\* A data cell holds an int32, whatever is stored in it.
LEMMA DataCellType ==
  ASSUME NEW v \in Int
  PROVE  DataCell(v) \in CellType
<1>1. PICK u \in 0 .. CellMod - 1 : u = v % CellMod
  <2>1. v % CellMod \in 0 .. CellMod - 1
    OBVIOUS
  <2> QED
    BY <2>1
<1>2. /\ int32(v) \in Int
      /\ -CellMod <= 2 * int32(v)
      /\ 2 * int32(v) < CellMod
  <2>1. CASE 2 * u < CellMod
    BY <1>1, <2>1 DEF int32
  <2>2. CASE ~(2 * u < CellMod)
    <3>1. int32(v) = u - CellMod
      BY <1>1, <2>2 DEF int32
    <3> QED
      BY <2>2, <3>1
  <2> QED
    BY <2>1, <2>2
<1> QED
  BY <1>2 DEF DataCell, CellType

\* Writing an entry keeps the cells' type and every cell below HERE.
LEMMA WrittenFacts ==
  ASSUME TypeOK, NEW r \in Requests, NEW code \in CellType, NEW data \in Seq(Int)
  PROVE  /\ Written(r, code, data) \in [Addresses -> CellType]
         /\ \A a \in Addresses : a < here => Written(r, code, data)[a] = cells[a]
         /\ \A a \in Addresses : word_index(r) + 1 + Len(data) < a =>
              Written(r, code, data)[a] = cells[a]
         /\ word_index(r) \in Addresses =>
              Written(r, code, data)[word_index(r)] = LinkCell(latest)
         /\ word_index(r) + 1 \in Addresses =>
              Written(r, code, data)[word_index(r) + 1] = code
<1> DEFINE w == word_index(r)
<1>1. here \in Nat /\ w \in Nat /\ here <= w
  BY EntryFacts DEF TypeOK
<1>2. LinkCell(latest) \in CellType
  BY DEF TypeOK, LinkCell, CellType
<1>3. ASSUME NEW a \in here .. w - 1
      PROVE  PaddedName(r.name, a - here) \in CellType
  BY <1>1, PaddedNameType
<1>4. ASSUME NEW a \in w + 2 .. w + 1 + Len(data)
      PROVE  DataCell(data[a - w - 1]) \in CellType
  <2>1. data[a - w - 1] \in Int
    BY <1>1
  <2> QED
    BY <2>1, DataCellType
<1>5. \A a \in Addresses : cells[a] \in CellType
  BY DEF TypeOK
<1>6. Written(r, code, data) \in [Addresses -> CellType]
  BY <1>1, <1>2, <1>3, <1>4, <1>5 DEF Written
<1>7. Len(data) \in Nat
  OBVIOUS
<1>8. \A a \in Addresses : a \in Int
  BY DEF Addresses
<1> HIDE DEF w
<1> QED
  BY <1>1, <1>6, <1>7, <1>8 DEF Written, w

-----------------------------------------------------------------------------
(***************************************************************************)
(* The inductive invariant.  A link read while iterating is a link only if *)
(* the chain holds, and an entry keeps its cells only if it lies below     *)
(* HERE: neither fact is inductive alone.                                  *)
(***************************************************************************)
BelowHere ==
  \A k \in 1 .. Len(entries) :
    entries[k].index + 2 <= entries[k].end /\ entries[k].end <= here

NotIterating == yielded = <<>> => cursor = NULL_INDEX

IInv ==
  /\ TypeOK
  /\ ChainIsHistory
  /\ EntriesAreDisjoint
  /\ BelowHere
  /\ NotIterating
  /\ IterationIsSnapshot

\* An empty dictionary satisfies it.
LEMMA InitIInv == Init => IInv
<1> SUFFICES ASSUME Init
             PROVE  IInv
  OBVIOUS
<1> USE DEF Init
<1>1. TypeOK
  BY DEF TypeOK, CellType, ZeroCell
<1>2. Len(entries) = 0
  OBVIOUS
<1>3. ChainIsHistory
  BY <1>2 DEF ChainIsHistory, Previous
<1>4. EntriesAreDisjoint /\ BelowHere /\ NotIterating /\ IterationIsSnapshot
  BY <1>2 DEF EntriesAreDisjoint, BelowHere, NotIterating, IterationIsSnapshot
<1> QED
  BY <1>1, <1>3, <1>4 DEF IInv

\* What IInv says of one entry.
LEMMA EntryTypes ==
  ASSUME TypeOK, BelowHere, NEW k \in 1 .. Len(entries)
  PROVE  /\ entries[k].index \in Nat /\ entries[k].end \in Nat
         /\ entries[k].index \in Addresses /\ entries[k].index + 1 \in Addresses
         /\ entries[k].index + 1 < here
         /\ Len(entries) \in Nat /\ here \in Nat
<1>1. /\ entries \in Seq([index : Addresses, end : 0 .. Capacity + StackCells])
      /\ here \in 0 .. Capacity + StackCells
  BY DEF TypeOK
<1>2. entries[k] \in [index : Addresses, end : 0 .. Capacity + StackCells]
  BY <1>1, ElementOfSeq
<1>3. /\ entries[k].index \in Addresses
      /\ entries[k].end \in 0 .. Capacity + StackCells
      /\ Len(entries) \in Nat
  BY <1>1, <1>2
<1>4. entries[k].index + 2 <= entries[k].end /\ entries[k].end <= here
  BY DEF BelowHere
<1>5. entries[k].index \in Nat /\ entries[k].end \in Nat /\ here \in Nat
  BY <1>1, <1>3 DEF Addresses
<1>6. entries[k].index + 1 < here
  BY <1>4, <1>5
<1>7. entries[k].index + 1 \in Addresses
  BY <1>1, <1>5, <1>6, SMTT(20) DEF Addresses
<1> QED
  BY <1>3, <1>5, <1>6, <1>7

\* Whatever keeps the cells below HERE keeps every entry already there.
LEMMA EntriesKept ==
  ASSUME TypeOK, BelowHere, ChainIsHistory,
         \A a \in Addresses : a < here => cells'[a] = cells[a],
         NEW k \in 1 .. Len(entries), entries'[k] = entries[k]
  PROVE  /\ cells'[entries[k].index] = cells[entries[k].index]
         /\ code_field(entries[k].index)' = code_field(entries[k].index)
         /\ name_start(entries[k].index)' = name_start(entries[k].index)
<1>1. cells'[entries[k].index] = cells[entries[k].index]
  BY EntryTypes
<1>2. cells'[entries[k].index + 1] = cells[entries[k].index + 1]
  BY EntryTypes
<1> QED
  BY <1>1, <1>2 DEF code_field, name_start

\* A call that raises, or a read, creates nothing: it keeps IInv if it keeps
\* the types and every cell below HERE.
LEMMA NothingCreated ==
  ASSUME IInv, TypeOK', \A a \in Addresses : a < here => cells'[a] = cells[a],
         UNCHANGED <<here, latest, entries>>
  PROVE  ChainIsHistory' /\ EntriesAreDisjoint' /\ BelowHere'
<1> USE DEF IInv
<1>1. BelowHere'
  BY DEF BelowHere
<1>2. ChainIsHistory'
  <2>1. ASSUME NEW k \in 1 .. Len(entries)
        PROVE  cells'[entries[k].index] = LinkCell(Previous(k))
    BY EntriesKept DEF ChainIsHistory
  <2> QED
    BY <2>1 DEF ChainIsHistory, Previous
<1>3. EntriesAreDisjoint'
  <2>1. ASSUME NEW k \in 1 .. Len(entries)
        PROVE  /\ code_field(entries[k].index)' = code_field(entries[k].index)
               /\ name_start(entries[k].index)' = name_start(entries[k].index)
    BY EntriesKept
  <2> QED
    BY <2>1 DEF EntriesAreDisjoint
<1> QED
  BY <1>1, <1>2, <1>3

\* A link is the cell of a word, or NULL_INDEX.
LEMMA PreviousType ==
  ASSUME TypeOK, BelowHere, NEW k \in 1 .. Len(entries) + 1
  PROVE  Previous(k) \in Addresses \cup {NULL_INDEX}
<1>1. k = 1 \/ k - 1 \in 1 .. Len(entries)
  BY DEF TypeOK
<1> QED
  BY <1>1, EntryTypes DEF Previous

\* A word's name starts at a cell of the structure, as many cells before its
\* link as its length field asks for.
LEMMA NamesInPlace ==
  ASSUME TypeOK, BelowHere, EntriesAreDisjoint, NEW k \in 1 .. Len(entries)
  PROVE  /\ code_field(entries[k].index).name_length \in Nat
         /\ name_start(entries[k].index) \in Nat
<1>1. PICK index \in Addresses : index = entries[k].index /\ index + 1 \in Addresses
  BY EntryTypes
<1>2. code_field(index) \in CellType /\ code_field(index).kind = "code"
  BY <1>1 DEF code_field, TypeOK, EntriesAreDisjoint
<1>3. code_field(index).name_length \in 0 .. NameMod - 1
  BY <1>2 DEF CellType, ZeroCell, TornCell
<1>4. aligned_name_cells(code_field(index).name_length) \in Nat
  <2>1. PICK length \in Nat : length = code_field(index).name_length
    BY <1>3
  <2>2. aligned_name_cells(length) \in Nat
    BY <2>1, AlignedFacts
  <2> QED
    BY <2>1, <2>2
<1>5. name_start(index) \in Int
  BY <1>1, <1>4 DEF name_start, Addresses
<1>6. name_start(index) >= IF k = 1 THEN 0 ELSE entries[k - 1].end
  BY <1>1 DEF EntriesAreDisjoint
<1>7. CASE k = 1
  BY <1>1, <1>3, <1>5, <1>6, <1>7
<1>8. CASE k # 1
  <2>1. k - 1 \in 1 .. Len(entries)
    BY <1>8 DEF TypeOK
  <2>2. entries[k - 1].end \in Nat
    BY <2>1, EntryTypes
  <2> QED
    BY <1>1, <1>3, <1>5, <1>6, <1>8, <2>2
<1> QED
  BY <1>7, <1>8

\* What creating a word does to the history.
LEMMA HistoryGrows ==
  ASSUME TypeOK, NEW r \in Requests, Commit(r)
  PROVE  /\ Len(entries') = Len(entries) + 1
         /\ \A k \in 1 .. Len(entries) : entries'[k] = entries[k]
         /\ entries'[Len(entries) + 1] = [index |-> word_index(r), end |-> end_cell(r)]
  BY AppendProperties DEF TypeOK, Commit

\* Creating a word writes its entry's link and code field, and nothing below HERE.
LEMMA CommitWrites ==
  ASSUME TypeOK, NEW r \in Requests, Commit(r), end_cell(r) <= Capacity + StackCells
  PROVE  /\ cells' \in [Addresses -> CellType]
         /\ \A a \in Addresses : a < here => cells'[a] = cells[a]
         /\ \A a \in Addresses : end_cell(r) <= a => cells'[a] = cells[a]
         /\ word_index(r) \in Addresses /\ word_index(r) + 1 \in Addresses
         /\ cells'[word_index(r)] = LinkCell(latest)
         /\ cells'[word_index(r) + 1] = CodeCell(r)
<1>1. /\ word_index(r) \in Nat /\ end_cell(r) = word_index(r) + 2 + Len(r.data)
      /\ Len(r.data) \in Nat /\ r.data \in Seq(Int)
  BY EntryFacts DEF TypeOK
<1>2. word_index(r) \in Addresses /\ word_index(r) + 1 \in Addresses
  BY <1>1 DEF Addresses
<1>3. CodeCell(r) \in CellType
  BY CodeCellType
<1>4. cells' = Written(r, CodeCell(r), r.data)
  BY DEF Commit
<1>5. \A a \in Addresses : end_cell(r) <= a => word_index(r) + 1 + Len(r.data) < a
  BY <1>1 DEF Addresses
<1> QED
  BY <1>1, <1>2, <1>3, <1>4, <1>5, WrittenFacts

\* Creating a word keeps the types.
LEMMA CommitTypes ==
  ASSUME TypeOK, NEW r \in Requests, Commit(r), end_cell(r) <= Capacity + StackCells,
         request' \in Requests, UNCHANGED iteration
  PROVE  TypeOK'
<1>0. here \in Nat
  BY DEF TypeOK
<1>1. end_cell(r) \in 0 .. Capacity + StackCells /\ word_index(r) \in Addresses
  BY <1>0, EntryFacts, CommitWrites
<1>2. [index |-> word_index(r), end |-> end_cell(r)]
        \in [index : Addresses, end : 0 .. Capacity + StackCells]
  BY <1>1
<1>3. entries' \in Seq([index : Addresses, end : 0 .. Capacity + StackCells])
  BY <1>2, AppendProperties DEF TypeOK, Commit
<1>4. cells' \in [Addresses -> CellType]
  BY CommitWrites
<1> QED
  BY <1>1, <1>3, <1>4 DEF TypeOK, Commit, iteration

\* The new entry starts no earlier than HERE was: its name is read back from
\* the cells the entry owns, even when its length was cut short.
LEMMA NewEntryStarts ==
  ASSUME TypeOK, NEW r \in Requests, Commit(r), end_cell(r) <= Capacity + StackCells,
         NEW w, w = word_index(r)
  PROVE  /\ code_field(w)'.kind = "code"
         /\ name_start(w)' \in Nat
         /\ here <= name_start(w)'
<1>1. code_field(w)' = CodeCell(r)
  BY CommitWrites DEF code_field
<1>2. CodeCell(r).name_length = Len(r.name) % NameMod
  BY DEF CodeCell
<1>3. here \in Nat /\ Len(r.name) \in Nat
  BY EntryFacts DEF TypeOK
<1>4. PICK length \in 0 .. Len(r.name) : length = Len(r.name) % NameMod
  BY <1>3, RemainderBound
<1>5. /\ aligned_name_cells(length) \in Nat
      /\ aligned_name_cells(length) <= aligned_name_cells(Len(r.name))
      /\ aligned_name_cells(Len(r.name)) \in Nat
  <2>1. length \in Nat
    BY <1>3
  <2>2. aligned_name_cells(length) \in Nat
    BY <2>1, AlignedFacts
  <2>3. aligned_name_cells(Len(r.name)) \in Nat
    BY <1>3, AlignedFacts
  <2>4. aligned_name_cells(length) <= aligned_name_cells(Len(r.name))
    BY <1>3, AlignedFacts
  <2> QED
    BY <2>2, <2>3, <2>4
<1>6. name_start(w)' = w - aligned_name_cells(length)
  BY <1>1, <1>2, <1>4 DEF name_start, aligned_name_cells
<1>7. w = here + aligned_name_cells(Len(r.name))
  BY DEF word_index
<1>8. code_field(w)'.kind = "code"
  BY <1>1, CodeCellType
<1>9. name_start(w)' \in Nat /\ here <= name_start(w)'
  BY <1>3, <1>5, <1>6, <1>7
<1> QED
  BY <1>8, <1>9

\* Creating a word, by either writer, keeps IInv.
LEMMA CommitStep ==
  ASSUME IInv, NEW r \in Requests, Commit(r), end_cell(r) <= Capacity + StackCells,
         request' \in Requests, UNCHANGED iteration
  PROVE  IInv'
<1>0. TypeOK /\ ChainIsHistory /\ EntriesAreDisjoint /\ BelowHere /\ NotIterating
      /\ IterationIsSnapshot
  BY DEF IInv
<1>1. PICK n \in Nat : n = Len(entries)
  BY <1>0 DEF TypeOK
<1>2. PICK w : w = word_index(r)
  OBVIOUS
<1>3. /\ here \in Nat /\ w \in Nat /\ here <= w /\ w + 2 <= here' /\ here' \in Nat
      /\ here' = end_cell(r) /\ latest' = w
  <2>1. here \in Nat
    BY <1>0 DEF TypeOK
  <2> QED
    BY <1>2, <2>1, EntryFacts DEF Commit
<1>4. /\ Len(entries') = n + 1
      /\ \A k \in 1 .. n : entries'[k] = entries[k]
      /\ entries'[n + 1].index = w
      /\ entries'[n + 1].end = here'
  <2>1. /\ Len(entries') = Len(entries) + 1
        /\ \A k \in 1 .. Len(entries) : entries'[k] = entries[k]
        /\ entries'[Len(entries) + 1] = [index |-> word_index(r), end |-> end_cell(r)]
    BY <1>0, HistoryGrows
  <2>2. entries'[n + 1] = [index |-> w, end |-> here']
    BY <1>1, <1>2, <1>3, <2>1
  <2> QED
    BY <1>1, <2>1, <2>2
<1>5. \A k \in 1 .. n : /\ entries[k].index + 2 <= entries[k].end
                        /\ entries[k].end <= here
                        /\ entries[k].index \in Nat /\ entries[k].end \in Nat
  BY <1>0, <1>1, EntryTypes DEF BelowHere
<1>6. \A k \in 1 .. n :
        /\ cells'[entries[k].index] = cells[entries[k].index]
        /\ \A e : e = entries[k].index => /\ code_field(e)' = code_field(e)
                                          /\ name_start(e)' = name_start(e)
  <2>1. \A a \in Addresses : a < here => cells'[a] = cells[a]
    BY <1>0, CommitWrites
  <2> QED
    BY <1>0, <1>1, <1>4, <2>1, EntriesKept
<1>7. TypeOK'
  BY <1>0, CommitTypes
<1>8. BelowHere'
  <2>1. ASSUME NEW k \in 1 .. n + 1
        PROVE  entries'[k].index + 2 <= entries'[k].end /\ entries'[k].end <= here'
    <3>1. CASE k = n + 1
      BY <1>3, <1>4, <3>1
    <3>2. CASE k \in 1 .. n
      <4>1. entries'[k] = entries[k]
        BY <1>4, <3>2
      <4>2. /\ entries[k].index + 2 <= entries[k].end
            /\ entries[k].end <= here /\ entries[k].end \in Nat
        BY <1>5, <3>2
      <4>3. here \in Nat /\ here' \in Nat /\ here <= here'
        BY <1>3
      <4> QED
        BY <4>1, <4>2, <4>3, SMTT(20)
    <3>3. k = n + 1 \/ k \in 1 .. n
      BY <1>1
    <3> QED
      BY <3>1, <3>2, <3>3
  <2> QED
    BY <1>4, <2>1 DEF BelowHere
<1>9. ASSUME NEW k \in 1 .. n + 1
      PROVE  Previous(k)' = Previous(k)
  <2>1. k = 1 \/ k - 1 \in 1 .. n
    BY <1>1
  <2> QED
    BY <1>4, <2>1 DEF Previous
<1>10. ChainIsHistory'
  <2>1. latest' = Previous(n + 2)'
    BY <1>1, <1>3, <1>4 DEF Previous
  <2>2. ASSUME NEW k \in 1 .. n
        PROVE  cells'[entries'[k].index] = LinkCell(Previous(k)')
    <3>1. k \in 1 .. n + 1 /\ k \in 1 .. Len(entries)
      BY <1>1
    <3>2. cells[entries[k].index] = LinkCell(Previous(k))
      BY <1>0, <3>1 DEF ChainIsHistory
    <3>3. Previous(k)' = Previous(k)
      BY <1>9, <3>1
    <3> QED
      BY <1>4, <1>6, <3>2, <3>3
  <2>3. cells'[entries'[n + 1].index] = LinkCell(Previous(n + 1)')
    <3>1. latest = Previous(n + 1)
      BY <1>0, <1>1 DEF ChainIsHistory
    <3>2. Previous(n + 1)' = Previous(n + 1)
      BY <1>1, <1>9
    <3>3. cells'[w] = LinkCell(latest)
      BY <1>0, <1>2, CommitWrites
    <3> QED
      BY <1>4, <3>1, <3>2, <3>3
  <2>4. ASSUME NEW k \in 1 .. n + 1
        PROVE  cells'[entries'[k].index] = LinkCell(Previous(k)')
    <3>1. k = n + 1 \/ k \in 1 .. n
      BY <1>1
    <3>2. CASE k = n + 1
      BY <2>3, <3>2, Zenon
    <3>3. CASE k \in 1 .. n
      BY <2>2, <3>3, Zenon
    <3> QED
      BY <3>1, <3>2, <3>3
  <2> QED
    BY <1>1, <1>4, <2>1, <2>4 DEF ChainIsHistory, LinkCell
<1>11. EntriesAreDisjoint'
  <2>1. /\ code_field(w)'.kind = "code"
        /\ name_start(w)' \in Nat
        /\ here <= name_start(w)'
    BY <1>0, <1>2, NewEntryStarts
  <2>2. ASSUME NEW k \in 1 .. n
        PROVE  /\ code_field(entries[k].index).kind = "code"
               /\ name_start(entries[k].index) >= IF k = 1 THEN 0 ELSE entries[k - 1].end
               /\ entries[k].index + 2 <= entries[k].end
               /\ k # n => entries[k].end <= entries[k + 1].index
    BY <1>0, <1>1 DEF EntriesAreDisjoint
  <2>3. ASSUME NEW k \in 1 .. n, NEW e, e = entries'[k].index
        PROVE  /\ code_field(e)'.kind = "code"
               /\ name_start(e)' >= IF k = 1 THEN 0 ELSE entries'[k - 1].end
               /\ e + 2 <= entries'[k].end
               /\ entries'[k].end <= entries'[k + 1].index
    <3>1. e = entries[k].index /\ code_field(e)' = code_field(e) /\ name_start(e)' = name_start(e)
      BY <1>4, <1>6, <2>3
    <3>2. k = 1 \/ k - 1 \in 1 .. n
      BY <1>1
    <3>3. k = n \/ k + 1 \in 1 .. n
      BY <1>1
    <3>4. entries'[k].end <= entries'[k + 1].index
      <4>1. CASE k = n
        <5>1. entries'[k].end = entries[k].end /\ entries'[k + 1].index = w
          BY <1>1, <1>4, <4>1
        <5>2. entries[k].end <= here /\ entries[k].end \in Nat
          BY <1>5
        <5> QED
          BY <1>3, <5>1, <5>2, SMTT(20)
      <4>2. CASE k # n
        <5>1. entries'[k] = entries[k] /\ entries'[k + 1] = entries[k + 1]
          BY <1>4, <3>3, <4>2
        <5> QED
          BY <2>2, <4>2, <5>1
      <4> QED
        BY <4>1, <4>2
    <3> QED
      BY <1>4, <2>2, <3>1, <3>2, <3>4
  <2>4. ASSUME NEW k \in 1 .. n + 1, k = n + 1
        PROVE  /\ name_start(w)' >= IF k = 1 THEN 0 ELSE entries'[k - 1].end
               /\ w + 2 <= entries'[k].end
               /\ entries'[k].end <= here'
    <3>1. k = 1 \/ k - 1 \in 1 .. n
      BY <1>1
    <3> QED
      BY <1>1, <1>3, <1>4, <1>5, <2>1, <2>4, <3>1, SMTT(20)
  <2>5. ASSUME NEW k \in 1 .. n + 1, NEW e, e = entries'[k].index
        PROVE  /\ code_field(e)'.kind = "code"
               /\ name_start(e)' >= IF k = 1 THEN 0 ELSE entries'[k - 1].end
               /\ e + 2 <= entries'[k].end
               /\ entries'[k].end <= IF k = n + 1 THEN here' ELSE entries'[k + 1].index
    <3>1. CASE k = n + 1
      BY <1>4, <2>1, <2>4, <2>5, <3>1
    <3>2. CASE k \in 1 .. n
      <4>1. k # n + 1
        BY <1>1, <3>2
      <4> QED
        BY <2>3, <2>5, <3>2, <4>1
    <3>3. k = n + 1 \/ k \in 1 .. n
      BY <1>1
    <3> QED
      BY <3>1, <3>2, <3>3
  <2> QED
    BY <1>4, <2>5 DEF EntriesAreDisjoint, name_start, code_field
<1>12. NotIterating'
  BY <1>0 DEF NotIterating, iteration
<1>13. IterationIsSnapshot'
  <2> SUFFICES ASSUME yielded # <<>>
               PROVE  IterationIsSnapshot'
    BY DEF IterationIsSnapshot, iteration
  <2>1. PICK y \in Nat : y = Len(yielded)
    BY <1>0 DEF TypeOK
  <2>2. PICK m \in y .. n :
          /\ \A i \in 1 .. y : yielded[i] = entries[m - i + 1].index
          /\ cursor = Previous(m - y + 1)
    BY <1>0, <1>1, <2>1 DEF IterationIsSnapshot
  <2>3. ASSUME NEW i \in 1 .. y
        PROVE  yielded[i] = entries'[m - i + 1].index
    <3>1. m - i + 1 \in 1 .. n
      BY <1>1, <2>1, <2>2
    <3> QED
      BY <1>4, <2>2, <3>1
  <2>4. cursor = Previous(m - y + 1)'
    BY <1>1, <1>9, <2>1, <2>2
  <2>5. m \in y .. n + 1
    BY <1>1, <2>1, <2>2
  <2> QED
    BY <1>4, <2>1, <2>3, <2>4, <2>5 DEF IterationIsSnapshot, iteration
<1> QED
  BY <1>7, <1>8, <1>10, <1>11, <1>12, <1>13 DEF IInv

\* Starting an iteration follows the newest word's link.
LEMMA IterStartStep ==
  ASSUME IInv, IterStart
  PROVE  IInv'
<1>0. TypeOK /\ ChainIsHistory /\ EntriesAreDisjoint /\ BelowHere
  BY DEF IInv
<1>1. PICK n \in Nat : n = Len(entries)
  BY <1>0 DEF TypeOK
<1>2. UNCHANGED <<cells, here, latest, entries, request, reply>>
  BY DEF IterStart, memory
<1>3. latest = Previous(n + 1) /\ n \in 1 .. n
  BY <1>0, <1>1 DEF ChainIsHistory, Previous, IterStart
<1>4. latest = entries[n].index /\ latest \in Addresses
  BY <1>0, <1>1, <1>3, EntryTypes DEF Previous
<1>5. cells[entries[n].index] = LinkCell(Previous(n))
  BY <1>0, <1>1, <1>3 DEF ChainIsHistory
<1>6. cursor' = Previous(n) /\ yielded' = <<latest>>
  BY <1>4, <1>5 DEF IterStart, link, LinkCell
<1>7. Previous(n) \in Addresses \cup {NULL_INDEX}
  <2>1. n \in 1 .. Len(entries) + 1
    BY <1>1, <1>3
  <2> QED
    BY <1>0, <2>1, PreviousType
<1>8. TypeOK'
  BY <1>0, <1>2, <1>4, <1>6, <1>7 DEF TypeOK
<1>9. ChainIsHistory' /\ EntriesAreDisjoint' /\ BelowHere'
  BY <1>2, <1>8, NothingCreated
<1>10. NotIterating'
  BY <1>6 DEF NotIterating
<1>11. IterationIsSnapshot'
  <2>1. /\ \A i \in 1 .. 1 : yielded'[i] = entries[n - i + 1].index
        /\ cursor' = Previous(n - 1 + 1)
        /\ n \in 1 .. n /\ Len(yielded') = 1
    BY <1>1, <1>3, <1>4, <1>6
  <2> QED
    BY <1>1, <1>2, <2>1 DEF IterationIsSnapshot, Previous
<1> QED
  BY <1>8, <1>9, <1>10, <1>11 DEF IInv

\* Resuming an iteration follows the link of the word it yields, which is
\* still where the history says, though words may have been created since.
LEMMA IterNextStep ==
  ASSUME IInv, IterNext
  PROVE  IInv'
<1>0. TypeOK /\ ChainIsHistory /\ BelowHere /\ NotIterating /\ IterationIsSnapshot
  BY DEF IInv
<1>1. PICK n \in Nat : n = Len(entries)
  BY <1>0 DEF TypeOK
<1>2. UNCHANGED <<cells, here, latest, entries, request, reply>>
  BY DEF IterNext, memory
<1>3. PICK y \in Nat : y = Len(yielded)
  BY <1>0 DEF TypeOK
<1>4. cursor # NULL_INDEX /\ yielded # <<>>
  BY <1>0 DEF IterNext, NotIterating
<1>5. PICK m \in y .. n :
        /\ \A i \in 1 .. y : yielded[i] = entries[m - i + 1].index
        /\ cursor = Previous(m - y + 1)
  BY <1>0, <1>1, <1>3, <1>4 DEF IterationIsSnapshot
<1>6. PICK j \in 1 .. n : j = m - y
  <2>1. m - y = 0 => Previous(m - y + 1) = NULL_INDEX
    BY DEF Previous
  <2>2. m - y \in 1 .. n
    BY <1>1, <1>3, <1>4, <1>5, <2>1
  <2> QED
    BY <2>2
<1>7. cursor = entries[j].index
  BY <1>1, <1>3, <1>5, <1>6 DEF Previous
<1>8. cursor \in Addresses /\ cells[entries[j].index] = LinkCell(Previous(j))
  BY <1>0, <1>1, <1>6, <1>7, EntryTypes DEF ChainIsHistory
<1>9. cursor' = Previous(j) /\ yielded' = Append(yielded, cursor)
  BY <1>7, <1>8 DEF IterNext, link, LinkCell
<1>10. /\ Len(yielded') = y + 1
       /\ \A i \in 1 .. y : yielded'[i] = yielded[i]
       /\ yielded'[y + 1] = cursor
       /\ yielded' \in Seq(Addresses)
  BY <1>0, <1>3, <1>8, <1>9, AppendProperties DEF TypeOK
<1>11. Previous(j) \in Addresses \cup {NULL_INDEX}
  <2>1. j \in 1 .. Len(entries) + 1
    BY <1>1, <1>6
  <2> QED
    BY <1>0, <2>1, PreviousType
<1>12. TypeOK'
  BY <1>0, <1>2, <1>9, <1>10, <1>11 DEF TypeOK
<1>13. ChainIsHistory' /\ EntriesAreDisjoint' /\ BelowHere'
  BY <1>2, <1>12, NothingCreated
<1>14. NotIterating'
  <2>1. Len(yielded') # 0
    BY <1>3, <1>10
  <2> QED
    BY <2>1 DEF NotIterating
<1>15. IterationIsSnapshot'
  <2>1. ASSUME NEW i \in 1 .. y + 1
        PROVE  yielded'[i] = entries[m - i + 1].index
    <3>1. CASE i = y + 1
      <4>1. m - i + 1 = j
        BY <1>3, <1>5, <1>6, <3>1
      <4> QED
        BY <1>7, <1>10, <3>1, <4>1
    <3>2. CASE i \in 1 .. y
      BY <1>5, <1>10, <3>2
    <3>3. i = y + 1 \/ i \in 1 .. y
      BY <1>3
    <3> QED
      BY <3>1, <3>2, <3>3
  <2>2. cursor' = Previous(m - (y + 1) + 1)
    <3>1. m - (y + 1) + 1 = j
      BY <1>3, <1>5, <1>6
    <3> QED
      BY <1>9, <3>1
  <2>3. m \in y + 1 .. n
    BY <1>1, <1>3, <1>5, <1>6
  <2> QED
    BY <1>1, <1>2, <1>10, <2>1, <2>2, <2>3 DEF IterationIsSnapshot, Previous
<1> QED
  BY <1>12, <1>13, <1>14, <1>15 DEF IInv

\* The torn entry of a data range error: name, link and code field, all of them
\* at HERE and above.
LEMMA TornWrites ==
  ASSUME TypeOK, NEW r \in Requests, RuntimeBadData(r)
  PROVE  /\ cells' \in [Addresses -> CellType]
         /\ \A a \in Addresses : a < here => cells'[a] = cells[a]
         /\ \A a \in Addresses : word_index(r) + 1 < a => cells'[a] = cells[a]
<1>1. TornCell \in CellType /\ <<>> \in Seq(Int)
  BY DEF CellType
<1>2. PICK code \in CellType, none \in Seq(Int) : code = TornCell /\ none = <<>>
  BY <1>1
<1>3. /\ Written(r, code, none) \in [Addresses -> CellType]
      /\ \A a \in Addresses : a < here => Written(r, code, none)[a] = cells[a]
      /\ \A a \in Addresses : word_index(r) + 1 + Len(none) < a =>
           Written(r, code, none)[a] = cells[a]
  BY WrittenFacts
<1>4. Len(none) = 0 /\ word_index(r) \in Nat
  BY <1>2, EntryFacts DEF TypeOK
<1>5. cells' = Written(r, code, none)
  BY <1>2 DEF RuntimeBadData
<1> QED
  BY <1>3, <1>4, <1>5

\* A call that raises leaves what a reader can reach: the torn entry of a data
\* range error lies at HERE and above.
LEMMA RaiseStep ==
  ASSUME IInv, NEW r \in Requests, RuntimeExhausted(r) \/ RuntimeBadData(r)
  PROVE  IInv'
<1>0. TypeOK /\ NotIterating /\ IterationIsSnapshot
  BY DEF IInv
<1>1. UNCHANGED <<here, latest, entries, cursor, yielded>> /\ request' = r
      /\ reply' \in {"MemoryError", "ValueError"}
  BY DEF RuntimeExhausted, RuntimeBadData, Call, memory, iteration
<1>2. cells' \in [Addresses -> CellType] /\ \A a \in Addresses : a < here => cells'[a] = cells[a]
  <2>1. CASE RuntimeExhausted(r)
    BY <1>0, <2>1 DEF RuntimeExhausted, memory, TypeOK
  <2>2. CASE RuntimeBadData(r)
    BY <1>0, <2>2, TornWrites
  <2> QED
    BY <2>1, <2>2
<1>3. TypeOK'
  BY <1>0, <1>1, <1>2 DEF TypeOK
<1>4. ChainIsHistory' /\ EntriesAreDisjoint' /\ BelowHere'
  BY <1>1, <1>2, <1>3, NothingCreated
<1>5. NotIterating' /\ IterationIsSnapshot'
  BY <1>0, <1>1 DEF NotIterating, IterationIsSnapshot, Previous
<1> QED
  BY <1>3, <1>4, <1>5 DEF IInv

\* Every step keeps IInv.
LEMMA NextIInv == IInv /\ [Next]_vars => IInv'
<1> SUFFICES ASSUME IInv, [Next]_vars
             PROVE  IInv'
  OBVIOUS
<1>1. ASSUME NEW r \in Requests, RuntimeCreate(r)
      PROVE  IInv'
  <2>1. end_cell(r) \in Nat
    BY EntryFacts DEF IInv, TypeOK
  <2>2. end_cell(r) <= Capacity + StackCells
    BY <1>1, <2>1 DEF RuntimeCreate, Fits
  <2> QED
    BY <1>1, <2>2, CommitStep DEF RuntimeCreate, Call
<1>2. ASSUME NEW r \in Requests, RuntimeExhausted(r)
      PROVE  IInv'
  BY <1>2, RaiseStep
<1>3. ASSUME NEW r \in Requests, RuntimeBadData(r)
      PROVE  IInv'
  BY <1>3, RaiseStep
<1>4. ASSUME NEW r \in Requests, IRCreate(r)
      PROVE  IInv'
  BY <1>4, CommitStep DEF IRCreate, Call
<1>5. CASE IterStart
  BY <1>5, IterStartStep
<1>6. CASE IterNext
  BY <1>6, IterNextStep
<1>7. CASE UNCHANGED vars
  <2>1. TypeOK'
    BY <1>7 DEF vars, IInv, TypeOK
  <2>2. ChainIsHistory' /\ EntriesAreDisjoint' /\ BelowHere'
    BY <1>7, <2>1, NothingCreated DEF vars
  <2>3. NotIterating' /\ IterationIsSnapshot'
    BY <1>7 DEF vars, IInv, NotIterating, IterationIsSnapshot, Previous
  <2> QED
    BY <2>1, <2>2, <2>3 DEF IInv
<1> QED
  BY <1>1, <1>2, <1>3, <1>4, <1>5, <1>6, <1>7 DEF Next

\* The invariant of every reachable state.
LEMMA InvariantHolds == Spec => []IInv
  BY InitIInv, NextIInv, PTL DEF Spec

-----------------------------------------------------------------------------
(***************************************************************************)
(* Theorems.                                                               *)
(***************************************************************************)
\* Every variable keeps its type: no link, cursor or HERE leaves the structure.
THEOREM TypeCorrect == Spec => []TypeOK
<1>1. IInv => TypeOK
  BY DEF IInv
<1> QED
  BY <1>1, InvariantHolds, PTL

\* LATEST heads a chain of exactly the words created, newest first, whatever
\* calls raised in between: find_word and iter_words see the whole history.
THEOREM ChainCorrect == Spec => []ChainIsHistory
<1>1. IInv => ChainIsHistory
  BY DEF IInv
<1> QED
  BY <1>1, InvariantHolds, PTL

\* No word's cells overlap another's or the free cells, not even when its
\* name's length does not fit the 5-bit field.
THEOREM EntriesDisjoint == Spec => []EntriesAreDisjoint
<1>1. IInv => EntriesAreDisjoint
  BY DEF IInv
<1> QED
  BY <1>1, InvariantHolds, PTL

\* A suspended iter_words generator goes through the words there were when it
\* began, in order, however many are created meanwhile.
THEOREM IterationSnapshot == Spec => []IterationIsSnapshot
<1>1. IInv => IterationIsSnapshot
  BY DEF IInv
<1> QED
  BY <1>1, InvariantHolds, PTL

\* Nothing below HERE ever changes again, whichever writer writes and whether
\* its call succeeds or raises half way; HERE never moves back.
THEOREM MemoryIsAppendOnly == Spec => AppendOnly
<1> DEFINE Appends == /\ here' >= here
                      /\ \A a \in Addresses : a < here => cells'[a] = cells[a]
<1>1. IInv /\ [Next]_vars => [Appends]_vars
  <2> SUFFICES ASSUME IInv, Next
               PROVE  Appends
    OBVIOUS
  <2>1. TypeOK /\ here \in Nat
    BY DEF IInv, TypeOK
  <2>2. ASSUME NEW r \in Requests, Commit(r), end_cell(r) <= Capacity + StackCells
        PROVE  Appends
    <3>1. here' >= here
      BY <2>1, <2>2, EntryFacts DEF Commit
    <3> QED
      BY <2>1, <2>2, <3>1, CommitWrites
  <2>3. ASSUME NEW r \in Requests, RuntimeCreate(r)
        PROVE  Appends
    <3>1. end_cell(r) <= Capacity + StackCells
      BY <2>1, <2>3, EntryFacts DEF RuntimeCreate, Fits
    <3> QED
      BY <2>2, <2>3, <3>1 DEF RuntimeCreate
  <2>4. ASSUME NEW r \in Requests, IRCreate(r)
        PROVE  Appends
    BY <2>2, <2>4 DEF IRCreate
  <2>5. ASSUME NEW r \in Requests, RuntimeBadData(r)
        PROVE  Appends
    BY <2>1, <2>5, TornWrites DEF RuntimeBadData
  <2>6. ASSUME UNCHANGED memory
        PROVE  Appends
    BY <2>1, <2>6 DEF memory
  <2> QED
    BY <2>3, <2>4, <2>5, <2>6 DEF Next, RuntimeExhausted, IterStart, IterNext
<1> QED
  BY <1>1, InvariantHolds, PTL DEF Spec, AppendOnly

\* The Python writer never stores into the stacks that follow the dictionary's
\* cells, wherever compiled code has left HERE: its capacity check covers the
\* whole entry, a torn one's cells too.
THEOREM StacksLeftAlone == Spec => PythonLeavesStacks
<1> DEFINE Leaves == \A a \in StackAddresses : cells'[a] = cells[a]
<1>1. ASSUME IInv,
             NEW r \in Requests,
             RuntimeCreate(r) \/ RuntimeExhausted(r) \/ RuntimeBadData(r)
      PROVE  Leaves
  <2>1. TypeOK /\ here \in Nat
    BY <1>1 DEF IInv, TypeOK
  <2>2. StackAddresses \subseteq Addresses
    BY DEF StackAddresses, Addresses
  <2>3. CASE RuntimeCreate(r)
    <3>1. /\ end_cell(r) <= Capacity /\ end_cell(r) <= Capacity + StackCells
          /\ end_cell(r) \in Nat
      BY <2>1, <2>3, EntryFacts DEF RuntimeCreate, Fits
    <3>2. \A a \in Addresses : end_cell(r) <= a => cells'[a] = cells[a]
      BY <2>1, <2>3, <3>1, CommitWrites DEF RuntimeCreate
    <3>3. \A a \in StackAddresses : end_cell(r) <= a
      BY <3>1 DEF StackAddresses
    <3> QED
      BY <2>2, <3>2, <3>3
  <2>4. CASE RuntimeBadData(r)
    <3>1. /\ word_index(r) \in Nat /\ word_index(r) + 2 <= end_cell(r)
          /\ end_cell(r) \in Nat /\ end_cell(r) <= Capacity
      BY <2>1, <2>4, EntryFacts DEF RuntimeBadData, Fits
    <3>2. \A a \in StackAddresses : a \in Addresses /\ word_index(r) + 1 < a
      BY <2>2, <3>1 DEF StackAddresses
    <3> QED
      BY <2>1, <2>4, <3>2, TornWrites
  <2>5. CASE RuntimeExhausted(r)
    BY <2>5 DEF RuntimeExhausted, memory
  <2> QED
    BY <1>1, <2>3, <2>4, <2>5
<1>2. IInv /\ [Next]_vars
        => [(\E r \in Requests : RuntimeCreate(r) \/ RuntimeExhausted(r) \/ RuntimeBadData(r))
              => Leaves]_vars
  BY <1>1
<1> QED
  BY <1>2, InvariantHolds, PTL DEF Spec, PythonLeavesStacks

-----------------------------------------------------------------------------
(***************************************************************************)
(* Refinement: memory, read through the word prefixes, is the word list.   *)
(* A name longer than its 5-bit length field is not read back, so the      *)
(* theorem is about names that fit.                                        *)
(***************************************************************************)
\* A word below HERE reads the same as long as the cells below HERE do.
LEMMA ReadWordKept ==
  ASSUME IInv, \A a \in Addresses : a < here => cells'[a] = cells[a],
         NEW k \in 1 .. Len(entries), entries'[k] = entries[k]
  PROVE  ReadWord(k)' = ReadWord(k)
<1>0. TypeOK /\ ChainIsHistory /\ EntriesAreDisjoint /\ BelowHere
  BY DEF IInv
<1>1. PICK index \in Nat, end \in Nat : index = entries[k].index /\ end = entries[k].end
  <2>1. entries[k].index \in Nat /\ entries[k].end \in Nat
    BY <1>0, EntryTypes
  <2> QED
    BY <2>1
<1>2. /\ index + 1 < here /\ end <= here /\ here \in Nat
      /\ \A a \in 0 .. here - 1 : a \in Addresses /\ cells'[a] = cells[a]
  <2>1. here \in Nat /\ here <= Capacity + StackCells
    BY <1>0 DEF TypeOK
  <2>2. index + 1 < here /\ end <= here
    BY <1>0, <1>1, EntryTypes DEF BelowHere
  <2>3. \A a \in 0 .. here - 1 : a \in Addresses /\ a < here
    BY <2>1 DEF Addresses
  <2> QED
    BY <2>1, <2>2, <2>3
<1>3. code_field(index)' = code_field(index)
  BY <1>1, <1>2 DEF code_field
<1>4. /\ name_start(index)' = name_start(index)
      /\ name_start(index) \in Nat
      /\ code_field(index).name_length \in Nat
      /\ name_start(index) = index - aligned_name_cells(code_field(index).name_length)
  BY <1>0, <1>1, <1>2, <1>3, NamesInPlace DEF name_start, aligned_name_cells
<1>5. name_bytes(index)' = name_bytes(index)
  <2>1. PICK length \in Nat, start \in Nat :
          length = code_field(index).name_length /\ start = name_start(index)
    BY <1>4
  <2>2. ASSUME NEW b \in 1 .. length
        PROVE  cells'[start + (b - 1) \div CellSize] = cells[start + (b - 1) \div CellSize]
    <3>1. PICK j \in Nat : j = (b - 1) \div CellSize /\ j < aligned_name_cells(length)
      BY AlignedFacts
    <3>2. start + j \in 0 .. here - 1
      <4>1. PICK aligned \in Nat : aligned = aligned_name_cells(length)
        BY AlignedFacts
      <4>2. start = index - aligned /\ j < aligned
        BY <1>4, <2>1, <3>1, <4>1
      <4> QED
        BY <1>2, <4>1, <4>2
    <3> QED
      BY <1>2, <3>1, <3>2
  <2> QED
    BY <1>3, <1>4, <2>1, <2>2 DEF name_bytes
<1>6. read_data_cells(index, end - dfa_index(index))' = read_data_cells(index, end - dfa_index(index))
  <2>1. ASSUME NEW i \in 1 .. end - (index + 2)
        PROVE  cells'[index + 2 + i - 1] = cells[index + 2 + i - 1]
    <3>1. i \in Nat \ {0} /\ i <= end - (index + 2) /\ end <= here /\ here \in Nat
      BY <1>1, <1>2
    <3>2. index + 2 + i - 1 \in 0 .. here - 1
      BY <3>1
    <3> QED
      BY <1>2, <3>2
  <2> QED
    BY <2>1 DEF read_data_cells, dfa_index
<1> QED
  BY <1>1, <1>3, <1>5, <1>6 DEF ReadWord, dfa_index

\* The name of a word just created is read back, if its length fits the field.
LEMMA NewNameReadBack ==
  ASSUME TypeOK, NEW r \in Requests, Len(r.name) < NameMod,
         Commit(r), end_cell(r) <= Capacity + StackCells, NEW w, w = word_index(r)
  PROVE  name_bytes(w)' = r.name
<1>1. PICK length \in Nat : length = Len(r.name)
  BY EntryFacts DEF TypeOK
<1>2. PICK aligned \in Nat : aligned = aligned_name_cells(length)
  BY <1>1, AlignedFacts
<1>3. here \in Nat /\ w \in Nat /\ w = here + aligned
  <2>1. here \in Nat
    BY DEF TypeOK
  <2>2. w = here + aligned
    BY <1>1, <1>2 DEF word_index
  <2> QED
    BY <2>1, <2>2
<1>4. code_field(w)' = CodeCell(r)
  BY CommitWrites DEF code_field
<1>5. CodeCell(r).name_length = length
  <2>1. length % NameMod = length
    BY <1>1, SmallRemainder
  <2> QED
    BY <1>1, <2>1 DEF CodeCell
<1>6. name_start(w)' = here
  <2>1. name_start(w)' = w - aligned
    BY <1>2, <1>4, <1>5 DEF name_start, aligned_name_cells
  <2> QED
    BY <1>3, <2>1
<1>7. ASSUME NEW b \in 1 .. length
      PROVE  cells'[here + (b - 1) \div CellSize].bytes[((b - 1) % CellSize) + 1] = r.name[b]
  <2>1. PICK j \in Nat, c \in 0 .. CellSize - 1 :
          /\ j = (b - 1) \div CellSize /\ c = (b - 1) % CellSize
          /\ b - 1 = CellSize * j + c /\ j < aligned
    <3>1. /\ (b - 1) \div CellSize \in Nat
          /\ (b - 1) % CellSize \in 0 .. CellSize - 1
          /\ b - 1 = CellSize * ((b - 1) \div CellSize) + ((b - 1) % CellSize)
          /\ (b - 1) \div CellSize < aligned
      BY <1>2, AlignedFacts
    <3> QED
      BY <3>1
  <2>2. cells' = Written(r, CodeCell(r), r.data)
    BY DEF Commit
  <2>3. here + j \in Addresses /\ here + j \in here .. w - 1 /\ (here + j) - here = j
    <3>1. w \in Addresses
      BY CommitWrites
    <3>2. j \in Nat /\ j < aligned /\ w = here + aligned /\ here \in Nat /\ w \in Nat
      BY <1>2, <1>3, <2>1
    <3>3. here + j \in here .. w - 1 /\ (here + j) - here = j
      BY <3>2
    <3>4. here + j < w /\ here + j \in Nat
      BY <3>2
    <3>5. here + j \in Addresses
      BY <3>1, <3>4 DEF Addresses
    <3> QED
      BY <3>3, <3>5
  <2>4. cells'[here + j] = PaddedName(r.name, j)
    BY <2>2, <2>3 DEF Written
  <2>5. j * CellSize + (c + 1) = b
    <3>1. PICK base \in Nat : base = CellSize * j /\ base = j * CellSize
      BY <2>1
    <3> QED
      BY <2>1, <3>1
  <2>6. c + 1 \in 1 .. CellSize /\ b <= Len(r.name)
    BY <1>1, <2>1
  <2>7. PaddedName(r.name, j).bytes[c + 1] = r.name[b]
    BY <2>5, <2>6 DEF PaddedName, NameCell
  <2> QED
    BY <2>1, <2>4, <2>7
<1>8. name_bytes(w)' = [b \in 1 .. length |-> r.name[b]]
  BY <1>4, <1>5, <1>6, <1>7 DEF name_bytes
<1>9. r.name \in Seq(Bytes)
  OBVIOUS
<1>10. r.name \in [1 .. length -> Bytes]
  BY <1>1, <1>9, LenProperties
<1> QED
  BY <1>8, <1>10

\* Where the k-th data cell of an entry is.
LEMMA DataCellPlace ==
  ASSUME NEW start \in Nat, NEW w \in Nat, start <= w, NEW count \in Nat,
         NEW k \in 1 .. count, NEW limit \in Nat, w + 2 + count <= limit
  PROVE  \E a \in Nat :
           /\ a = w + 2 + k - 1 /\ a \in 0 .. limit - 1
           /\ a \in w + 2 .. w + 1 + count /\ a - w - 1 = k
           /\ a \notin start .. w - 1 /\ a # w /\ a # w + 1
<1> DEFINE a == w + 2 + k - 1
<1>1. /\ a \in Nat /\ a \in 0 .. limit - 1
      /\ a \in w + 2 .. w + 1 + count /\ a - w - 1 = k
      /\ a \notin start .. w - 1 /\ a # w /\ a # w + 1
  OBVIOUS
<1> QED
  BY <1>1

\* Its data cells hold the data it was created with, and they can be read back
\* unless the entry passes the end of the cells array.
LEMMA NewDataReadBack ==
  ASSUME TypeOK, NEW r \in Requests, Commit(r), end_cell(r) <= Capacity + StackCells,
         NEW w, w = word_index(r), NEW count, count = Len(r.data)
  PROVE  read_data_cells(w, count)' = List!DataOf(r, here > Capacity)'
<1>1. PICK start \in Nat, v \in Nat, n \in Nat, limit \in Nat :
        /\ start = here /\ v = w /\ n = count /\ limit = Capacity + StackCells
        /\ start <= v /\ v + 2 + n <= limit
  <2>1. /\ here \in Nat /\ w \in Nat /\ count \in Nat /\ here <= w
        /\ w + 2 + count <= Capacity + StackCells /\ Capacity + StackCells \in Nat
    BY EntryFacts DEF TypeOK
  <2> QED
    BY <2>1
<1>2. /\ start \in Nat /\ v \in Nat /\ n \in Nat /\ limit \in Nat
      /\ start <= v /\ v + 2 + n <= limit
  BY <1>1
<1>3. ASSUME NEW k \in 1 .. n
      PROVE  cells'[v + 2 + k - 1].value = List!int32(r.data[k])
  <2>1. PICK a \in Nat :
          /\ a = v + 2 + k - 1 /\ a \in 0 .. limit - 1
          /\ a \in v + 2 .. v + 1 + n /\ a - v - 1 = k
          /\ a \notin start .. v - 1 /\ a # v /\ a # v + 1
    BY <1>2, DataCellPlace
  <2>2. cells' = Written(r, CodeCell(r), r.data)
    BY DEF Commit
  <2>3. cells'[a] = DataCell(r.data[k])
    BY <1>1, <2>1, <2>2 DEF Written, Addresses
  <2>4. DataCell(r.data[k]).value = int32(r.data[k])
    BY DEF DataCell
  <2>5. int32(r.data[k]) = List!int32(r.data[k])
    BY Zenon DEF int32, List!int32
  <2> QED
    BY <2>1, <2>3, <2>4, <2>5
<1>4. here' = v + 2 + n
  BY <1>1 DEF Commit, end_cell
<1>5. r.data # <<>> <=> n > 0
  BY <1>1
<1>6. CASE n > 0 /\ v + 2 + n > Capacity
  <2>1. read_data_cells(w, count)' = [error |-> "IndexError", cells |-> <<>>]
    BY <1>1, <1>6 DEF read_data_cells, dfa_index
  <2>2. here' > Capacity /\ r.data # <<>>
    BY <1>4, <1>5, <1>6
  <2> QED
    BY <2>1, <2>2 DEF List!DataOf
<1>7. CASE ~(n > 0 /\ v + 2 + n > Capacity)
  <2>1. read_data_cells(w, count)'
          = [error |-> "none", cells |-> [k \in 1 .. n |-> List!int32(r.data[k])]]
    BY <1>1, <1>3, <1>7 DEF read_data_cells, dfa_index
  <2>2. ~(here' > Capacity /\ r.data # <<>>)
    BY <1>4, <1>5, <1>7
  <2> QED
    BY <1>1, <2>1, <2>2 DEF List!DataOf
<1> QED
  BY <1>6, <1>7

\* A sequence one longer that agrees with f and has v last is Append(f, v).
LEMMA GrownSequence ==
  ASSUME NEW S, NEW n \in Nat, NEW f \in [1 .. n -> S], NEW v \in S,
         NEW g \in [1 .. n + 1 -> S], \A i \in 1 .. n : g[i] = f[i], g[n + 1] = v
  PROVE  g = Append(f, v)
<1>1. f \in Seq(S) /\ Len(f) = n /\ g \in Seq(S) /\ Len(g) = n + 1
  OBVIOUS
<1>2. /\ Append(f, v) \in Seq(S)
      /\ Len(Append(f, v)) = n + 1
      /\ \A i \in 1 .. n + 1 : Append(f, v)[i] = IF i = n + 1 THEN v ELSE f[i]
  BY <1>1
<1>3. \A i \in 1 .. n + 1 : g[i] = Append(f, v)[i]
  BY <1>2
<1> QED
  BY <1>1, <1>2, <1>3, SeqEqual

\* A successful call appends the word it asked for to the list.
LEMMA CommitAppends ==
  ASSUME IInv, NEW r \in Requests, Len(r.name) < NameMod,
         Commit(r), end_cell(r) <= Capacity + StackCells, request' = r,
         (here > Capacity)' \in
            IF "ir" \in Writers THEN {here > Capacity, TRUE} ELSE {here > Capacity}
  PROVE  List!Create(r)
<1>0. TypeOK
  BY DEF IInv
<1>1. PICK n \in Nat : n = Len(entries)
  BY <1>0 DEF TypeOK
<1>2. /\ Len(entries') = n + 1
      /\ \A k \in 1 .. n : entries'[k] = entries[k]
      /\ entries'[n + 1] = [index |-> word_index(r), end |-> end_cell(r)]
  BY <1>0, <1>1, HistoryGrows
<1>3. ASSUME NEW k \in 1 .. n
      PROVE  ReadWord(k)' = ReadWord(k)
  <2>1. \A a \in Addresses : a < here => cells'[a] = cells[a]
    BY <1>0, CommitWrites
  <2>2. k \in 1 .. Len(entries) /\ entries'[k] = entries[k]
    BY <1>1, <1>2
  <2> QED
    BY <2>1, <2>2, ReadWordKept
<1>4. ReadWord(n + 1)' = List!WordOf(r, here > Capacity)'
  <2>1. PICK w \in Nat, count \in Nat :
          /\ w = word_index(r) /\ count = Len(r.data)
          /\ end_cell(r) - dfa_index(w) = count
    <3>1. /\ word_index(r) \in Nat /\ Len(r.data) \in Nat
          /\ end_cell(r) - dfa_index(word_index(r)) = Len(r.data)
      <4>1. here \in Nat
        BY <1>0 DEF TypeOK
      <4>2. /\ word_index(r) \in Nat /\ Len(r.data) \in Nat
            /\ end_cell(r) = word_index(r) + 2 + Len(r.data)
        BY <4>1, EntryFacts
      <4> QED
        BY <4>2 DEF dfa_index
    <3> QED
      BY <3>1
  <2>2. code_field(w)' = CodeCell(r)
    BY <1>0, <2>1, CommitWrites DEF code_field
  <2>3. name_bytes(w)' = r.name
    BY <1>0, <2>1, NewNameReadBack
  <2>4. read_data_cells(w, count)' = List!DataOf(r, here > Capacity)'
    BY <1>0, <2>1, NewDataReadBack
  <2>5. /\ CodeCell(r).handler_id = r.handler_id % HandlerMod
        /\ CodeCell(r).code_field_data = r.code_field_data % DataMod
        /\ CodeCell(r).hidden = r.hidden /\ CodeCell(r).immediate = r.immediate
    BY DEF CodeCell
  <2>6. entries'[n + 1].index = w /\ entries'[n + 1].end - dfa_index(w) = count
    BY <1>2, <2>1
  <2> QED
    BY <2>2, <2>3, <2>4, <2>5, <2>6 DEF ReadWord, List!WordOf, dfa_index
<1>5. [k \in 1 .. n + 1 |-> ReadWord(k)'] = Append([k \in 1 .. n |-> ReadWord(k)], List!WordOf(r, here > Capacity)')
  <2> DEFINE f == [k \in 1 .. n |-> ReadWord(k)]
             v == List!WordOf(r, here > Capacity)'
             S == {ReadWord(k) : k \in 1 .. n} \cup {v}
             g == [k \in 1 .. n + 1 |-> IF k = n + 1 THEN v ELSE f[k]]
  <2>1. f \in [1 .. n -> S] /\ v \in S /\ g \in [1 .. n + 1 -> S]
    <3>1. f \in [1 .. n -> S] /\ v \in S
      OBVIOUS
    <3> HIDE DEF f, v, S
    <3>2. \A k \in 1 .. n + 1 : k = n + 1 \/ k \in 1 .. n
      BY <1>1
    <3>3. \A k \in 1 .. n + 1 : (IF k = n + 1 THEN v ELSE f[k]) \in S
      BY <3>1, <3>2
    <3> QED
      BY <3>1, <3>3
  <2>2. \A i \in 1 .. n : g[i] = f[i]
    BY <1>1
  <2>3. g[n + 1] = v
    BY <1>1
  <2>4. [k \in 1 .. n + 1 |-> ReadWord(k)'] = g
    <3>1. ASSUME NEW k \in 1 .. n + 1
          PROVE  ReadWord(k)' = IF k = n + 1 THEN v ELSE f[k]
      <4>1. k = n + 1 \/ k \in 1 .. n
        BY <1>1
      <4>2. CASE k = n + 1
        BY <1>4, <4>2
      <4>3. CASE k \in 1 .. n
        <5>1. k # n + 1 /\ f[k] = ReadWord(k)
          BY <1>1, <4>3
        <5> QED
          BY <1>3, <4>3, <5>1
      <4> QED
        BY <4>1, <4>2, <4>3
    <3> HIDE DEF f, v, S
    <3> QED
      BY <3>1
  <2> HIDE DEF f, v, S, g
  <2>5. g = Append(f, v)
    BY <1>1, <2>1, <2>2, <2>3, GrownSequence
  <2> QED
    BY <2>4, <2>5 DEF f, v
<1> QED
  BY <1>1, <1>2, <1>5 DEF List!Create, Commit

\* A step that creates nothing leaves the list as it was.
LEMMA ListKept ==
  ASSUME IInv, \A a \in Addresses : a < here => cells'[a] = cells[a], UNCHANGED entries
  PROVE  [k \in 1 .. Len(entries') |-> ReadWord(k)'] = [k \in 1 .. Len(entries) |-> ReadWord(k)]
<1>1. \A k \in 1 .. Len(entries) : ReadWord(k)' = ReadWord(k)
  BY ReadWordKept
<1> QED
  BY <1>1

\* Every step of the memory is a step of the word list, or invisible in it.
LEMMA ListStep ==
  ASSUME \A r \in Requests : Len(r.name) < NameMod, IInv, [Next]_vars
  PROVE  [List!Next]_(List!vars)
<1>0. TypeOK /\ here \in Nat
  BY DEF IInv, TypeOK
<1>1. ASSUME NEW r \in Requests, RuntimeCreate(r)
      PROVE  List!Create(r)
  <2>1. end_cell(r) <= Capacity + StackCells /\ here <= Capacity /\ end_cell(r) <= Capacity
    BY <1>0, <1>1, EntryFacts DEF RuntimeCreate, Fits
  <2>2. ~(here > Capacity) /\ ~(here' > Capacity)
    <3>1. here' = end_cell(r) /\ end_cell(r) \in Int
      BY <1>0, <1>1, EntryFacts DEF RuntimeCreate, Commit
    <3> QED
      BY <1>0, <2>1, <3>1
  <2>3. (here > Capacity)' \in
          IF "ir" \in Writers THEN {here > Capacity, TRUE} ELSE {here > Capacity}
    <3>1. (here > Capacity) = FALSE /\ (here > Capacity)' = FALSE
      BY <2>2
    <3> QED
      BY <3>1, Zenon
  <2> QED
    BY <1>1, <2>1, <2>3, CommitAppends DEF RuntimeCreate, Call
<1>2. ASSUME NEW r \in Requests, IRCreate(r)
      PROVE  List!Create(r)
  <2>1. end_cell(r) <= Capacity + StackCells /\ "ir" \in Writers
    BY <1>2 DEF IRCreate, Call
  <2>2. here > Capacity => here' > Capacity
    <3>1. here' = end_cell(r) /\ end_cell(r) \in Int /\ here <= end_cell(r)
      BY <1>0, <1>2, EntryFacts DEF IRCreate, Commit
    <3> QED
      BY <1>0, <3>1
  <2>3. (here > Capacity)' \in
          IF "ir" \in Writers THEN {here > Capacity, TRUE} ELSE {here > Capacity}
    <3>1. CASE here' > Capacity
      <4>1. (here > Capacity)' = TRUE
        BY <3>1
      <4> QED
        BY <2>1, <4>1, Zenon
    <3>2. CASE ~(here' > Capacity)
      <4>1. (here > Capacity) = FALSE /\ (here > Capacity)' = FALSE
        BY <2>2, <3>2
      <4> QED
        BY <4>1, Zenon
    <3> QED
      BY <3>1, <3>2
  <2> QED
    BY <1>2, <2>1, <2>3, CommitAppends DEF IRCreate, Call
<1>3. ASSUME NEW r \in Requests, RuntimeExhausted(r)
      PROVE  List!Reject(r)
  <2>1. UNCHANGED <<cells, here, entries>> /\ reply' = "MemoryError" /\ request' = r
    BY <1>3 DEF RuntimeExhausted, Call, memory
  <2> QED
    BY <2>1, ListKept DEF List!Reject
<1>4. ASSUME NEW r \in Requests, RuntimeBadData(r)
      PROVE  List!Reject(r)
  <2>1. UNCHANGED <<here, entries>> /\ reply' = "ValueError" /\ request' = r
        /\ r.code_field_data \notin 0 .. DataMod - 1
    BY <1>4 DEF RuntimeBadData, Call, ValidData
  <2>2. \A a \in Addresses : a < here => cells'[a] = cells[a]
    BY <1>0, <1>4, TornWrites
  <2> QED
    BY <2>1, <2>2, ListKept DEF List!Reject
<1>5. ASSUME UNCHANGED <<cells, here, entries, request, reply>>
      PROVE  UNCHANGED List!vars
  BY <1>5, ListKept DEF List!vars
<1> QED
  BY <1>1, <1>2, <1>3, <1>4, <1>5 DEF Next, List!Next, IterStart, IterNext, vars, memory

\* With names that fit the length field, the dictionary in memory is an
\* append-only list of the words asked for: each reads back as its creator
\* wrote it, each field and data cell to its width, whatever calls follow, and a
\* call that raises adds nothing.  Data cannot be read back from words created
\* once compiled code has moved HERE past the cells array, and from no others.
THEOREM Refinement ==
  ASSUME \A r \in Requests : Len(r.name) < NameMod
  PROVE  Spec => ImplementsWordList
<1>1. Init => List!Init
  <2>1. Init => (here > Capacity) = FALSE
    BY DEF Init
  <2> QED
    BY <2>1 DEF Init, List!Init
<1>2. IInv /\ [Next]_vars => [List!Next]_(List!vars)
  BY ListStep
<1> QED
  BY <1>1, <1>2, InvariantHolds, PTL DEF Spec, ImplementsWordList, List!Spec

-----------------------------------------------------------------------------
(***************************************************************************)
(* Lookup.  A walk along the links meets the words newest first, so it     *)
(* stops at the newest match; and a query whose length and padded cells    *)
(* are those of a word in memory is that word's name.                      *)
(***************************************************************************)
\* The index a lookup is at after n rounds.
LookupAt(matches, at, n) ==
  IF n = 0 THEN latest
  ELSE IF at[n - 1] = NULL_INDEX \/ matches[at[n - 1]] THEN at[n - 1]
  ELSE link(at[n - 1])

\* Some function satisfies the recursion of the rounds.
LEMMA WalkExists ==
  ASSUME NEW matches, NEW count \in Nat
  PROVE  \E at : at = [n \in 0 .. count |-> LookupAt(matches, at, n)]
<1> DEFINE Is(at, k) == at = [n \in 0 .. k |-> LookupAt(matches, at, n)]
           S == {k \in Nat : \E at : Is(at, k)}
<1>1. 0 \in S
  <2> DEFINE at == [n \in 0 .. 0 |-> latest]
  <2>1. at = [n \in 0 .. 0 |-> LookupAt(matches, at, n)]
    BY DEF LookupAt
  <2> QED BY <2>1
<1>2. ASSUME NEW k \in Nat, k \in S PROVE k + 1 \in S
  <2>1. PICK at : Is(at, k)
    BY <1>2
  <2> DEFINE longer == [n \in 0 .. k + 1 |-> IF n = k + 1 THEN LookupAt(matches, at, k + 1) ELSE at[n]]
  <2> HIDE DEF S
  <2>2. \A n \in 0 .. k : at[n] = LookupAt(matches, at, n)
    BY <2>1, Zenon
  <2>3. (\A n \in 0 .. k : longer[n] = at[n]) /\ longer[k + 1] = LookupAt(matches, at, k + 1)
    OBVIOUS
  <2> HIDE DEF Is, longer
  <2>4. ASSUME NEW n \in 0 .. k + 1 PROVE LookupAt(matches, longer, n) = LookupAt(matches, at, n)
    <3>1. n = 0 \/ n - 1 \in 0 .. k
      OBVIOUS
    <3> QED BY <2>3, <3>1 DEF LookupAt
  <2>5. \A n \in 0 .. k + 1 : longer[n] = LookupAt(matches, longer, n)
    BY <2>2, <2>3, <2>4
  <2>6. longer = [n \in 0 .. k + 1 |-> LookupAt(matches, longer, n)]
    BY <2>5 DEF longer
  <2> QED BY <2>6 DEF S, Is
<1> HIDE DEF S
<1>3. count \in S
  BY <1>1, <1>2, NatSetInduction
<1> QED BY <1>3 DEF S

\* FirstMatch is where the walk is after as many rounds as there are words.
LEMMA WalkDefined ==
  ASSUME NEW matches, Len(entries) \in Nat
  PROVE  \E at : /\ FirstMatch(matches) = at[Len(entries)]
                 /\ \A n \in 0 .. Len(entries) : at[n] = LookupAt(matches, at, n)
<1> DEFINE count == Len(entries)
           Is(g) == g = [n \in 0 .. count |-> LookupAt(matches, g, n)]
           at == CHOOSE g : Is(g)
<1>1. FirstMatch(matches) = at[count]
  BY DEF FirstMatch, LookupAt
<1>2. \E g : Is(g)
  BY WalkExists
<1> HIDE DEF at
<1>3. Is(at)
  <2> HIDE DEF Is
  <2> QED BY <1>2 DEF at
<1>4. \A n \in 0 .. count : at[n] = LookupAt(matches, at, n)
  BY <1>3, Zenon
<1> QED BY <1>1, <1>4

\* A lookup answers with the newest word that matches.
LEMMA FirstMatchIsNewest ==
  ASSUME IInv, NEW matches, NEW k \in 0 .. Len(entries),
         k # 0 => matches[entries[k].index],
         \A j \in k + 1 .. Len(entries) : ~matches[entries[j].index]
  PROVE  FirstMatch(matches) = IndexAt(k)
<1> DEFINE count == Len(entries)
<1>1. TypeOK /\ BelowHere /\ ChainIsHistory /\ count \in Nat
  BY DEF IInv, TypeOK
<1>2. PICK at : /\ FirstMatch(matches) = at[count]
                /\ \A n \in 0 .. count : at[n] = LookupAt(matches, at, n)
  BY <1>1, WalkDefined
<1>3. latest = IndexAt(count)
  BY <1>1 DEF ChainIsHistory, Previous, IndexAt
<1>4. ASSUME NEW j \in 1 .. count
      PROVE  IndexAt(j) # NULL_INDEX /\ IndexAt(j) = entries[j].index /\ link(IndexAt(j)) = IndexAt(j - 1)
  <2>1. entries[j].index \in Nat
    BY <1>1, EntryTypes
  <2>2. cells[entries[j].index] = LinkCell(Previous(j))
    BY <1>1 DEF ChainIsHistory
  <2>3. Previous(j) = IndexAt(j - 1)
    BY DEF Previous, IndexAt
  <2>4. IndexAt(j) = entries[j].index
    BY DEF IndexAt
  <2> QED BY <2>1, <2>2, <2>3, <2>4 DEF link, LinkCell, NULL_INDEX
<1>5. IndexAt(0) = NULL_INDEX
  BY DEF IndexAt
<1> HIDE DEF count
<1> DEFINE Place(n) == IF count - n >= k THEN IndexAt(count - n) ELSE IndexAt(k)
           S == {n \in Nat : n <= count => at[n] = Place(n)}
<1>6. 0 \in S
  <2>1. at[0] = latest
    BY <1>1, <1>2 DEF LookupAt
  <2> QED BY <1>1, <1>3, <2>1 DEF count
<1>7. ASSUME NEW n \in Nat, n \in S PROVE n + 1 \in S
  <2> SUFFICES ASSUME n + 1 <= count PROVE at[n + 1] = Place(n + 1)
    OBVIOUS
  <2>1. at[n] = Place(n)
    BY <1>1, <1>7
  <2> HIDE DEF S
  <2>2. at[n + 1] = IF at[n] = NULL_INDEX \/ matches[at[n]] THEN at[n] ELSE link(at[n])
    BY <1>1, <1>2 DEF LookupAt
  <2>3. k \in 0 .. count
    BY DEF count
  <2>4. CASE count - n > k
    <3>1. count - n \in k + 1 .. count /\ count - n \in 1 .. count /\ count - (n + 1) = (count - n) - 1 /\ count - (n + 1) >= k
      BY <1>1, <2>3, <2>4
    <3>2. at[n] = IndexAt(count - n)
      BY <2>1, <3>1
    <3>3. ~matches[at[n]]
      <4>1. ~matches[entries[count - n].index]
        BY <3>1 DEF count
      <4> QED BY <1>4, <3>1, <3>2, <4>1
    <3>4. at[n + 1] = IndexAt((count - n) - 1)
      BY <1>4, <2>2, <3>1, <3>2, <3>3
    <3> QED BY <3>1, <3>4
  <2>5. CASE ~(count - n > k)
    <3>1. at[n] = IndexAt(k)
      BY <1>1, <2>1, <2>3, <2>5
    <3>2. ~(count - (n + 1) >= k)
      BY <1>1, <2>3, <2>5
    <3>3. at[n] = NULL_INDEX \/ matches[at[n]]
      <4>1. CASE k = 0
        BY <1>5, <3>1, <4>1
      <4>2. CASE k # 0
        BY <1>4, <2>3, <3>1, <4>2
      <4> QED BY <4>1, <4>2
    <3> QED BY <2>2, <3>1, <3>2, <3>3
  <2> QED BY <2>4, <2>5
<1> HIDE DEF S
<1>8. count \in S
  BY <1>1, <1>6, <1>7, NatSetInduction
<1>9. at[count] = Place(count)
  BY <1>1, <1>8 DEF S
<1>10. Place(count) = IndexAt(k)
  <2>1. k \in 0 .. count /\ count - count = 0
    BY <1>1 DEF count
  <2> QED BY <1>5, <2>1
<1> QED BY <1>2, <1>9, <1>10

\* A nonempty set of positions has a last one.
LEMMA LastPosition ==
  ASSUME NEW n \in Nat, NEW hits \in SUBSET (1 .. n), hits # {}
  PROVE  \E k \in hits : \A j \in hits : j <= k
<1> DEFINE S == {m \in Nat : \A T \in SUBSET (1 .. m) : T # {} => \E k \in T : \A j \in T : j <= k}
<1>1. 0 \in S
  <2>1. 1 .. 0 = {}
    OBVIOUS
  <2> QED BY <2>1
<1>2. ASSUME NEW m \in Nat, m \in S PROVE m + 1 \in S
  <2> SUFFICES ASSUME NEW T \in SUBSET (1 .. m + 1), T # {}
               PROVE  \E k \in T : \A j \in T : j <= k
    OBVIOUS
  <2>1. CASE m + 1 \in T
    <3>1. \A j \in T : j <= m + 1
      OBVIOUS
    <3> QED BY <2>1, <3>1
  <2>2. CASE m + 1 \notin T
    <3>1. T \in SUBSET (1 .. m)
      BY <2>2
    <3> QED BY <1>2, <3>1
  <2> QED BY <2>1, <2>2
<1> HIDE DEF S
<1>3. n \in S
  BY <1>1, <1>2, NatSetInduction
<1> QED BY <1>3 DEF S

\* What the word list calls the newest visible word of a name.
LEMMA NewestVisibleFacts ==
  ASSUME Len(entries) \in Nat, NEW query
  PROVE  LET k == List!NewestVisible(query)
             Named(j) == ReadWord(j).name = query /\ ~ReadWord(j).hidden
         IN  /\ k \in 0 .. Len(entries)
             /\ k # 0 => Named(k)
             /\ \A j \in k + 1 .. Len(entries) : ~Named(j)
<1> DEFINE n == Len(entries)
           words == [k \in 1 .. n |-> ReadWord(k)]
           Named(j) == ReadWord(j).name = query /\ ~ReadWord(j).hidden
           hits == {k \in 1 .. n : Named(k)}
           newest == CHOOSE k \in hits : \A j \in hits : j <= k
<1>1. Len(words) = n
  OBVIOUS
<1>2. \A k \in 1 .. n : words[k] = ReadWord(k)
  OBVIOUS
<1> HIDE DEF Named
<1> DEFINE found == {k \in 1 .. Len(words) : words[k].name = query /\ ~words[k].hidden}
<1>3. found = hits
  BY <1>1, <1>2 DEF Named
<1>4. List!NewestVisible(query) = IF hits = {} THEN 0 ELSE newest
  <2>1. List!NewestVisible(query) =
          IF found = {} THEN 0 ELSE CHOOSE k \in found : \A j \in found : j <= k
    BY Zenon DEF List!NewestVisible
  <2> HIDE DEF found, hits
  <2> QED BY <1>3, <2>1
<1>5. \A k \in 1 .. n : k \in hits <=> Named(k)
  OBVIOUS
<1>6. hits \in SUBSET (1 .. n)
  OBVIOUS
<1> HIDE DEF hits
<1>7. CASE hits = {}
  BY <1>4, <1>5, <1>7 DEF Named
<1>8. CASE hits # {}
  <2>1. newest \in hits /\ \A j \in hits : j <= newest
    BY <1>6, <1>8, LastPosition
  <2> HIDE DEF newest
  <2>2. newest \in 1 .. n
    BY <1>6, <2>1
  <2>3. ASSUME NEW j \in newest + 1 .. n PROVE ~Named(j)
    BY <1>5, <2>1, <2>2
  <2> QED BY <1>4, <1>5, <1>8, <2>1, <2>2, <2>3 DEF Named
<1> QED BY <1>7, <1>8

\* Python's find_word answers with the newest visible word of the name.
LEMMA FindWordIsNewest ==
  ASSUME IInv, NEW query
  PROVE  find_word(query) = IndexAt(List!NewestVisible(query))
<1> DEFINE k == List!NewestVisible(query)
           matches == [index \in Addresses |-> ~code_field(index).hidden /\ name_bytes(index) = query]
<1>1. TypeOK /\ BelowHere /\ Len(entries) \in Nat
  BY DEF IInv, TypeOK
<1>2. /\ k \in 0 .. Len(entries)
      /\ k # 0 => ReadWord(k).name = query /\ ~ReadWord(k).hidden
      /\ \A j \in k + 1 .. Len(entries) : ~(ReadWord(j).name = query /\ ~ReadWord(j).hidden)
  BY <1>1, NewestVisibleFacts
<1>3. ASSUME NEW j \in 1 .. Len(entries)
      PROVE  matches[entries[j].index] <=> ReadWord(j).name = query /\ ~ReadWord(j).hidden
  <2>1. entries[j].index \in Addresses
    BY <1>1, EntryTypes
  <2>2. matches[entries[j].index] <=> ~code_field(entries[j].index).hidden /\ name_bytes(entries[j].index) = query
    BY <2>1
  <2>3. ReadWord(j).name = name_bytes(entries[j].index) /\ ReadWord(j).hidden = code_field(entries[j].index).hidden
    BY DEF ReadWord
  <2> QED BY <2>2, <2>3
<1> HIDE DEF k
<1>4. /\ k # 0 => matches[entries[k].index]
      /\ \A j \in k + 1 .. Len(entries) : ~matches[entries[j].index]
  <2>1. \A j \in k + 1 .. Len(entries) : j \in 1 .. Len(entries)
    BY <1>1, <1>2
  <2>2. k # 0 => k \in 1 .. Len(entries)
    BY <1>1, <1>2
  <2> HIDE DEF matches
  <2> QED BY <1>2, <1>3, <2>1, <2>2
<1>5. find_word(query) = FirstMatch(matches)
  BY DEF find_word
<1> HIDE DEF matches
<1> QED BY <1>2, <1>4, <1>5, FirstMatchIsNewest DEF k

\* An execution token finds the word whose code field it is, or none.
LEMMA CfaFindsWord ==
  ASSUME IInv PROVE CfaIdentifiesWord
<1> SUFFICES ASSUME NEW cfa \in Addresses
             PROVE  find_word_by_cfa(cfa) =
                      IF \E k \in 1 .. Len(entries) : cfa_index(entries[k].index) = cfa
                      THEN cfa - 1 ELSE NULL_INDEX
  BY DEF CfaIdentifiesWord
<1> DEFINE n == Len(entries)
           matches == [index \in Addresses |-> cfa_index(index) = cfa]
           hits == {k \in 1 .. n : entries[k].index + 1 = cfa}
<1>1. TypeOK /\ BelowHere /\ n \in Nat
  BY DEF IInv, TypeOK
<1>2. ASSUME NEW j \in 1 .. n
      PROVE  matches[entries[j].index] <=> entries[j].index + 1 = cfa
  <2>1. entries[j].index \in Addresses
    BY <1>1, EntryTypes
  <2> QED BY <2>1 DEF cfa_index
<1>3. find_word_by_cfa(cfa) = FirstMatch(matches)
  BY DEF find_word_by_cfa
<1>4. \A k \in 1 .. n : k \in hits <=> entries[k].index + 1 = cfa
  OBVIOUS
<1>5. hits \in SUBSET (1 .. n)
  OBVIOUS
<1> HIDE DEF matches, hits
<1>6. CASE hits = {}
  <2>1. FirstMatch(matches) = IndexAt(0)
    <3>1. PICK k \in 0 .. n : k = 0
      BY <1>1
    <3>2. \A j \in k + 1 .. Len(entries) : ~matches[entries[j].index]
      BY <1>2, <1>4, <1>6, <3>1
    <3>3. FirstMatch(matches) = IndexAt(k)
      BY <3>1, <3>2, FirstMatchIsNewest
    <3> QED BY <3>1, <3>3
  <2> QED BY <1>3, <1>4, <1>6, <2>1 DEF IndexAt, cfa_index
<1>7. CASE hits # {}
  <2>1. PICK k \in hits : \A j \in hits : j <= k
    BY <1>1, <1>5, <1>7, LastPosition
  <2>2. k \in 1 .. n /\ k \in 0 .. Len(entries)
    BY <1>1, <1>5
  <2>3. k # 0 => matches[entries[k].index]
    BY <1>2, <1>4, <2>2
  <2>4. ASSUME NEW j \in k + 1 .. Len(entries) PROVE ~matches[entries[j].index]
    <3>1. j \in 1 .. n /\ ~(j <= k)
      BY <1>1, <2>2
    <3> QED BY <1>2, <1>4, <2>1, <3>1
  <2>5. FirstMatch(matches) = IndexAt(k)
    BY <2>2, <2>3, <2>4, FirstMatchIsNewest
  <2>6. entries[k].index + 1 = cfa /\ entries[k].index \in Nat
    BY <1>1, <1>4, <2>2, EntryTypes
  <2>7. entries[k].index = cfa - 1
    BY <2>6
  <2> QED BY <1>3, <2>2, <2>5, <2>6, <2>7 DEF IndexAt, cfa_index
<1> QED BY <1>6, <1>7

\* The byte a name cell holds for each byte of the name.
LEMMA PaddedByte ==
  ASSUME NEW name \in Seq(Bytes), NEW length \in Nat, length = Len(name), NEW b \in 1 .. length
  PROVE  \E j \in 0 .. aligned_name_cells(length) - 1 :
           /\ j = (b - 1) \div CellSize
           /\ PaddedName(name, j).bytes[((b - 1) % CellSize) + 1] = name[b]
<1>1. PICK aligned \in Nat : aligned = aligned_name_cells(length)
  BY AlignedFacts
<1>2. PICK j \in Nat, c \in 0 .. CellSize - 1 :
        /\ j = (b - 1) \div CellSize /\ c = (b - 1) % CellSize
        /\ b - 1 = CellSize * j + c /\ j < aligned
  <2>1. /\ (b - 1) \div CellSize \in Nat
        /\ (b - 1) % CellSize \in 0 .. CellSize - 1
        /\ b - 1 = CellSize * ((b - 1) \div CellSize) + ((b - 1) % CellSize)
        /\ (b - 1) \div CellSize < aligned
    BY <1>1, AlignedFacts
  <2> QED BY <2>1
<1>3. j * CellSize + (c + 1) = b
  <2>1. PICK base \in Nat : base = CellSize * j /\ base = j * CellSize
    BY <1>2
  <2> QED BY <1>2, <2>1
<1>4. c + 1 \in 1 .. CellSize /\ b <= Len(name)
  BY <1>2
<1>5. PaddedName(name, j).bytes[c + 1] = name[b]
  BY <1>3, <1>4 DEF PaddedName, NameCell
<1>6. j \in 0 .. aligned_name_cells(length) - 1
  BY <1>1, <1>2
<1> QED BY <1>2, <1>5, <1>6

\* Every word's name cells are its name's, padded with zeros: the compiled
\* lookup, which compares whole cells, depends on it.
PaddedAt(index) ==
  \A j \in 0 .. aligned_name_cells(code_field(index).name_length) - 1 :
    cells[name_start(index) + j] = PaddedName(name_bytes(index), j)

NamesPadded == \A k \in 1 .. Len(entries) : PaddedAt(entries[k].index)

\* Compiled code matches a word exactly when the word has the queried name.
LEMMA AlignedMatch ==
  ASSUME IInv, NamesPadded, NEW k \in 1 .. Len(entries), NEW query \in Seq(Bytes)
  PROVE  LET index == entries[k].index
         IN  word_matches_aligned_name(index, query) <=> name_bytes(index) = query
<1> DEFINE index == entries[k].index
           length == code_field(index).name_length
<1>1. length \in Nat
  BY NamesInPlace DEF IInv
<1>2. name_bytes(index) =
        [b \in 1 .. length |-> cells[name_start(index) + (b - 1) \div CellSize].bytes[((b - 1) % CellSize) + 1]]
  BY DEF name_bytes
<1>3. \A j \in 0 .. aligned_name_cells(length) - 1 :
        cells[name_start(index) + j] = PaddedName(name_bytes(index), j)
  BY DEF NamesPadded, PaddedAt
<1>4. word_matches_aligned_name(index, query) <=>
        /\ length = Len(query)
        /\ \A j \in 0 .. aligned_name_cells(Len(query)) - 1 :
             cells[name_start(index) + j] = PaddedName(query, j)
  BY DEF word_matches_aligned_name
<1> HIDE DEF index, length
<1>5. ASSUME name_bytes(index) = query
      PROVE  word_matches_aligned_name(index, query)
  <2>1. Len(query) = length
    <3> DEFINE byte(b) == cells[name_start(index) + (b - 1) \div CellSize].bytes[((b - 1) % CellSize) + 1]
    <3>1. query = [b \in 1 .. length |-> byte(b)]
      BY <1>2, <1>5
    <3> HIDE DEF byte
    <3> QED BY <1>1, <3>1
  <2> QED BY <1>3, <1>4, <1>5, <2>1
<1>6. ASSUME word_matches_aligned_name(index, query)
      PROVE  name_bytes(index) = query
  <2>1. /\ length = Len(query)
        /\ \A j \in 0 .. aligned_name_cells(length) - 1 :
             cells[name_start(index) + j] = PaddedName(query, j)
    BY <1>4, <1>6
  <2>2. ASSUME NEW b \in 1 .. length
        PROVE  cells[name_start(index) + (b - 1) \div CellSize].bytes[((b - 1) % CellSize) + 1] = query[b]
    <3>1. PICK j \in 0 .. aligned_name_cells(length) - 1 :
            /\ j = (b - 1) \div CellSize
            /\ PaddedName(query, j).bytes[((b - 1) % CellSize) + 1] = query[b]
      BY <1>1, <2>1, PaddedByte
    <3> QED BY <2>1, <3>1
  <2>3. name_bytes(index) = [b \in 1 .. length |-> query[b]]
    BY <1>2, <2>2
  <2>4. query \in [1 .. length -> Bytes]
    BY <1>1, <2>1, LenProperties
  <2> QED BY <2>3, <2>4
<1> QED BY <1>5, <1>6 DEF index

\* What keeps the cells below HERE keeps a word's name cells.
LEMMA NameCellsKept ==
  ASSUME IInv, \A a \in Addresses : a < here => cells'[a] = cells[a],
         NEW k \in 1 .. Len(entries), entries'[k] = entries[k], NEW index, index = entries[k].index
  PROVE  /\ code_field(index)' = code_field(index)
         /\ name_bytes(index)' = name_bytes(index)
         /\ name_start(index)' = name_start(index)
         /\ \A j \in 0 .. aligned_name_cells(code_field(index).name_length) - 1 :
              cells'[name_start(index) + j] = cells[name_start(index) + j]
<1>0. TypeOK /\ BelowHere /\ EntriesAreDisjoint
  BY DEF IInv
<1>1. PICK i \in Nat, h \in Nat : i = index /\ h = here /\ i + 1 < h
  BY <1>0, EntryTypes
<1>2. \A a \in 0 .. h - 1 : cells'[a] = cells[a]
  <2>1. here <= Capacity + StackCells /\ here \in Nat
    BY <1>0 DEF TypeOK
  <2>2. \A a \in 0 .. h - 1 : a \in Addresses /\ a < here
    BY <1>1, <2>1 DEF Addresses
  <2> QED BY <2>2
<1>3. code_field(index)' = code_field(index)
  BY <1>1, <1>2 DEF code_field
<1>4. name_start(index)' = name_start(index)
  BY <1>3 DEF name_start, aligned_name_cells
<1>5. name_bytes(index)' = name_bytes(index)
  <2>1. ReadWord(k)' = ReadWord(k)
    BY ReadWordKept
  <2>2. ReadWord(k).name = name_bytes(index) /\ ReadWord(k)'.name = name_bytes(index)'
    BY DEF ReadWord
  <2> QED BY <2>1, <2>2
<1>6. PICK aligned \in Nat, start \in Nat :
        /\ aligned = aligned_name_cells(code_field(index).name_length)
        /\ start = name_start(index) /\ start = i - aligned
  <2>1. PICK length \in Nat : length = code_field(index).name_length
    BY <1>0, NamesInPlace
  <2>2. aligned_name_cells(length) \in Nat /\ name_start(index) \in Nat
    BY <1>0, AlignedFacts, NamesInPlace
  <2> QED BY <1>1, <2>1, <2>2 DEF name_start
<1>7. ASSUME NEW j \in 0 .. aligned - 1 PROVE start + j \in 0 .. h - 1
  <2>1. start + aligned = i /\ i + 1 < h
    BY <1>1, <1>6
  <2> QED BY <2>1
<1> QED BY <1>2, <1>3, <1>4, <1>5, <1>6, <1>7

\* No step tears the padding of a name that fits the length field.
LEMMA NamesPaddedStep ==
  ASSUME \A r \in Requests : Len(r.name) < NameMod, IInv, NamesPadded, [Next]_vars
  PROVE  NamesPadded'
<1>0. TypeOK /\ here \in Nat /\ Len(entries) \in Nat
  BY DEF IInv, TypeOK
<1>1. ASSUME \A a \in Addresses : a < here => cells'[a] = cells[a],
             NEW k \in 1 .. Len(entries), entries'[k] = entries[k], NEW index, index = entries[k].index
      PROVE  PaddedAt(index)'
  <2>1. /\ code_field(index)' = code_field(index)
        /\ name_bytes(index)' = name_bytes(index)
        /\ name_start(index)' = name_start(index)
        /\ \A i \in 0 .. aligned_name_cells(code_field(index).name_length) - 1 :
              cells'[name_start(index) + i] = cells[name_start(index) + i]
    BY <1>1, NameCellsKept
  <2>2. PaddedAt(index)
    BY <1>1 DEF NamesPadded
  <2> QED BY <2>1, <2>2 DEF PaddedAt, aligned_name_cells
<1>2. ASSUME NEW r \in Requests, Commit(r), end_cell(r) <= Capacity + StackCells,
             NEW w, w = word_index(r)
      PROVE  PaddedAt(w)'
  <2>1. name_bytes(w)' = r.name
    BY <1>0, <1>2, NewNameReadBack
  <2>2. PICK length \in Nat : length = Len(r.name) /\ CodeCell(r).name_length = length
    <3>1. Len(r.name) \in Nat
      BY <1>0, EntryFacts
    <3>2. Len(r.name) % NameMod = Len(r.name)
      BY <3>1, SmallRemainder
    <3> QED BY <3>1, <3>2 DEF CodeCell
  <2>3. PICK aligned \in Nat : aligned = aligned_name_cells(length)
    BY AlignedFacts
  <2>4. code_field(w)' = CodeCell(r)
    BY <1>0, <1>2, CommitWrites DEF code_field
  <2>5. w \in Nat /\ w = here + aligned /\ w \in Addresses
    <3>1. w \in Nat
      BY <1>0, <1>2, EntryFacts
    <3>2. w \in Addresses
      BY <1>0, <1>2, CommitWrites
    <3> QED BY <1>2, <2>2, <2>3, <3>1, <3>2 DEF word_index
  <2>6. name_start(w)' = here
    <3>1. name_start(w)' = w - aligned
      BY <2>2, <2>3, <2>4 DEF name_start, aligned_name_cells
    <3> QED BY <1>0, <2>5, <3>1
  <2>7. ASSUME NEW j \in 0 .. aligned - 1
        PROVE  cells'[here + j] = PaddedName(r.name, j)
    <3>1. here + j \in here .. w - 1 /\ (here + j) - here = j /\ here + j \in Addresses
      <4>1. here + j \in Nat /\ here + j < w /\ here + j \in here .. w - 1
        BY <1>0, <2>5
      <4>2. here + j \in Addresses
        BY <2>5, <4>1 DEF Addresses
      <4> QED BY <1>0, <4>1, <4>2
    <3>2. cells' = Written(r, CodeCell(r), r.data)
      BY <1>2 DEF Commit
    <3> QED BY <1>2, <3>1, <3>2 DEF Written
  <2>8. aligned_name_cells(code_field(w).name_length)' = aligned
    BY <2>2, <2>3, <2>4 DEF aligned_name_cells
  <2> QED BY <2>1, <2>6, <2>7, <2>8 DEF PaddedAt
<1>3. ASSUME NEW n, n = Len(entries'),
             \A k \in 1 .. n : \A index : index = entries'[k].index => PaddedAt(index)'
      PROVE  NamesPadded'
  <2>1. ASSUME NEW k \in 1 .. n PROVE PaddedAt(entries[k].index)'
    <3>1. PICK index : index = entries'[k].index
      OBVIOUS
    <3>2. PaddedAt(index)'
      BY <1>3, <3>1
    <3> QED BY <3>1, <3>2 DEF PaddedAt, name_start, name_bytes, code_field, aligned_name_cells
  <2> QED BY <1>3, <2>1 DEF NamesPadded
<1>4. ASSUME NEW r \in Requests, Commit(r), end_cell(r) <= Capacity + StackCells
      PROVE  NamesPadded'
  <2>1. PICK n \in Nat : n = Len(entries)
    BY <1>0
  <2>2. /\ Len(entries') = n + 1
        /\ \A k \in 1 .. n : entries'[k] = entries[k]
        /\ entries'[n + 1].index = word_index(r)
    <3>1. /\ Len(entries') = Len(entries) + 1
          /\ \A k \in 1 .. Len(entries) : entries'[k] = entries[k]
          /\ entries'[Len(entries) + 1] = [index |-> word_index(r), end |-> end_cell(r)]
      BY <1>0, <1>4, HistoryGrows
    <3> QED BY <2>1, <3>1
  <2>3. \A a \in Addresses : a < here => cells'[a] = cells[a]
    BY <1>0, <1>4, CommitWrites
  <2>4. ASSUME NEW k \in 1 .. n + 1, NEW index, index = entries'[k].index
        PROVE  PaddedAt(index)'
    <3>1. CASE k \in 1 .. n
      BY <1>1, <2>1, <2>2, <2>3, <2>4, <3>1
    <3>2. CASE k = n + 1
      BY <1>2, <1>4, <2>2, <2>4, <3>2
    <3> QED BY <3>1, <3>2
  <2> QED BY <1>3, <2>2, <2>4
<1>5. ASSUME \A a \in Addresses : a < here => cells'[a] = cells[a], UNCHANGED entries
      PROVE  NamesPadded'
  <2>1. ASSUME NEW k \in 1 .. Len(entries'), NEW index, index = entries'[k].index
        PROVE  PaddedAt(index)'
    BY <1>1, <1>5, <2>1
  <2> QED BY <1>3, <2>1
<1>6. ASSUME NEW r \in Requests, RuntimeCreate(r)
      PROVE  NamesPadded'
  <2>1. end_cell(r) <= Capacity + StackCells
    BY <1>0, <1>6, EntryFacts DEF RuntimeCreate, Fits
  <2> QED BY <1>4, <1>6, <2>1 DEF RuntimeCreate
<1>7. ASSUME NEW r \in Requests, IRCreate(r)
      PROVE  NamesPadded'
  BY <1>4, <1>7 DEF IRCreate
<1>8. ASSUME NEW r \in Requests, RuntimeExhausted(r)
      PROVE  NamesPadded'
  BY <1>5, <1>8 DEF RuntimeExhausted, memory
<1>9. ASSUME NEW r \in Requests, RuntimeBadData(r)
      PROVE  NamesPadded'
  <2>1. \A a \in Addresses : a < here => cells'[a] = cells[a]
    BY <1>0, <1>9, TornWrites
  <2> QED BY <1>5, <1>9, <2>1 DEF RuntimeBadData
<1>10. ASSUME UNCHANGED <<cells, entries>>
      PROVE  NamesPadded'
  BY <1>5, <1>10
<1> QED
  BY <1>6, <1>7, <1>8, <1>9, <1>10 DEF Next, IterStart, IterNext, vars, memory

\* By name, in Python or compiled, a lookup finds the newest visible word.
LEMMA NameFindsWord ==
  ASSUME IInv, NamesPadded
  PROVE  LookupIsNewestVisible
<1> SUFFICES ASSUME NEW r \in Requests, NEW query, query = r.name
             PROVE  /\ find_word(query) = IndexAt(List!NewestVisible(query))
                    /\ find_word_ir(query) = find_word(query)
  BY DEF LookupIsNewestVisible
<1> DEFINE k == List!NewestVisible(query)
           matches == [index \in Addresses |->
                         ~code_field(index).hidden /\ word_matches_aligned_name(index, query)]
<1>1. TypeOK /\ BelowHere /\ Len(entries) \in Nat
  BY DEF IInv, TypeOK
<1>2. /\ k \in 0 .. Len(entries)
      /\ k # 0 => ReadWord(k).name = query /\ ~ReadWord(k).hidden
      /\ \A j \in k + 1 .. Len(entries) : ~(ReadWord(j).name = query /\ ~ReadWord(j).hidden)
  BY <1>1, NewestVisibleFacts
<1>3. ASSUME NEW j \in 1 .. Len(entries)
      PROVE  matches[entries[j].index] <=> ReadWord(j).name = query /\ ~ReadWord(j).hidden
  <2>1. entries[j].index \in Addresses /\ query \in Seq(Bytes)
    BY <1>1, EntryTypes
  <2>2. matches[entries[j].index] <=>
          ~code_field(entries[j].index).hidden /\ word_matches_aligned_name(entries[j].index, query)
    BY <2>1
  <2>3. ReadWord(j).name = name_bytes(entries[j].index) /\ ReadWord(j).hidden = code_field(entries[j].index).hidden
    BY DEF ReadWord
  <2> HIDE DEF matches
  <2> QED BY <2>1, <2>2, <2>3, AlignedMatch
<1> HIDE DEF k
<1>4. /\ k # 0 => matches[entries[k].index]
      /\ \A j \in k + 1 .. Len(entries) : ~matches[entries[j].index]
  <2>1. \A j \in k + 1 .. Len(entries) : j \in 1 .. Len(entries)
    BY <1>1, <1>2
  <2>2. k # 0 => k \in 1 .. Len(entries)
    BY <1>1, <1>2
  <2> HIDE DEF matches
  <2> QED BY <1>2, <1>3, <2>1, <2>2
<1>5. find_word_ir(query) = FirstMatch(matches)
  BY DEF find_word_ir
<1> HIDE DEF matches
<1>6. find_word_ir(query) = IndexAt(k)
  BY <1>2, <1>4, <1>5, FirstMatchIsNewest
<1> QED BY <1>6, FindWordIsNewest DEF k

\* An execution token resolves to the word whose CFA it is, hidden or shadowed
\* as that word may be, and no other cell index resolves to a word.
THEOREM CfaLookup == Spec => []CfaIdentifiesWord
<1>1. IInv => CfaIdentifiesWord
  BY CfaFindsWord
<1> QED BY <1>1, InvariantHolds, PTL

\* With names that fit the length field, every lookup finds the word that was
\* created: Python's and the compiled one agree on the newest visible word of a
\* name, after any number of calls completed or raised half way.
THEOREM LookupsCorrect ==
  ASSUME \A r \in Requests : Len(r.name) < NameMod
  PROVE  Spec => []LookupsFindTheirWord
<1>1. Init => NamesPadded
  BY DEF Init, NamesPadded
<1>2. IInv /\ NamesPadded /\ [Next]_vars => NamesPadded'
  BY NamesPaddedStep
<1>3. IInv /\ NamesPadded => LookupsFindTheirWord
  BY CfaFindsWord, NameFindsWord DEF LookupsFindTheirWord
<1> QED BY <1>1, <1>2, <1>3, InvariantHolds, PTL DEF Spec

\* A call that created a word left the word it asked for last in the list.
CreatedIsLast ==
  LET words == [k \in 1 .. Len(entries) |-> ReadWord(k)]
  IN  reply = "created" => Len(words) # 0 /\ words[Len(words)] = List!WordOf(request, here > Capacity)

\* Appending makes the appended word the last.
LEMMA LastOfAppend ==
  ASSUME NEW f, NEW n \in Nat, f = [k \in 1 .. n |-> f[k]], NEW v
  PROVE  Len(Append(f, v)) # 0 /\ Append(f, v)[Len(Append(f, v))] = v
<1> DEFINE S == {f[k] : k \in 1 .. n} \cup {v}
<1>1. f \in [1 .. n -> S]
  OBVIOUS
<1>2. v \in S
  OBVIOUS
<1> HIDE DEF S
<1>3. f \in Seq(S) /\ Len(f) = n
  BY <1>1
<1> QED BY <1>2, <1>3, AppendProperties

\* A step of the word list keeps it so.
LEMMA CreatedIsLastStep ==
  ASSUME CreatedIsLast, Len(entries) \in Nat, [List!Next]_(List!vars)
  PROVE  CreatedIsLast'
<1> DEFINE words == [k \in 1 .. Len(entries) |-> ReadWord(k)]
<1>1. ASSUME NEW r \in Requests, List!Create(r)
      PROVE  CreatedIsLast'
  <2>1. words' = Append(words, List!WordOf(r, here > Capacity)') /\ request' = r
    BY <1>1 DEF List!Create
  <2>2. words = [k \in 1 .. Len(entries) |-> words[k]]
    OBVIOUS
  <2>3. Len(words') # 0 /\ words'[Len(words')] = List!WordOf(r, here > Capacity)'
    <3> HIDE DEF words
    <3> QED BY <2>1, <2>2, LastOfAppend
  <2> QED BY <2>1, <2>3 DEF CreatedIsLast
<1>2. ASSUME NEW r \in Requests, List!Reject(r)
      PROVE  CreatedIsLast'
  BY <1>2 DEF List!Reject, CreatedIsLast
<1>3. CASE UNCHANGED List!vars
  <2>1. words' = words /\ request' = request /\ reply' = reply
        /\ (here > Capacity)' = (here > Capacity)
    BY <1>3 DEF List!vars
  <2> QED BY <2>1 DEF CreatedIsLast
<1> QED BY <1>1, <1>2, <1>3 DEF List!Next

\* Its name then finds it.
LEMMA LastIsFound ==
  ASSUME IInv, CreatedIsLast
  PROVE  NewestDefinitionFound
<1> SUFFICES ASSUME reply = "created", ~request.hidden
             PROVE  find_word(request.name) = latest
  BY DEF NewestDefinitionFound
<1>1. Len(entries) \in Nat /\ latest = IndexAt(Len(entries)) /\ request \in Requests
  BY DEF IInv, TypeOK, ChainIsHistory, Previous, IndexAt
<1> DEFINE n == Len(entries)
           query == request.name
           k == List!NewestVisible(query)
<1>2. n # 0 /\ ReadWord(n) = List!WordOf(request, here > Capacity)
  <2> DEFINE words == [j \in 1 .. n |-> ReadWord(j)]
  <2>1. Len(words) = n
    BY <1>1
  <2>2. Len(words) # 0 /\ words[Len(words)] = List!WordOf(request, here > Capacity)
    BY DEF CreatedIsLast
  <2>3. n # 0 /\ words[n] = List!WordOf(request, here > Capacity)
    <3> HIDE DEF words
    <3> QED BY <2>1, <2>2
  <2> QED BY <1>1, <2>3
<1>3. ReadWord(n).name = query /\ ~ReadWord(n).hidden
  BY <1>2 DEF List!WordOf
<1>4. k \in 0 .. n /\ \A j \in k + 1 .. n : ~(ReadWord(j).name = query /\ ~ReadWord(j).hidden)
  BY <1>1, NewestVisibleFacts
<1>5. find_word(query) = IndexAt(k)
  BY FindWordIsNewest
<1> HIDE DEF n, query, k
<1>6. k = n
  <2>1. n \in Nat
    BY <1>1 DEF n
  <2>2. n \in k + 1 .. n => FALSE
    BY <1>3, <1>4
  <2> QED BY <1>4, <2>1, <2>2
<1> QED BY <1>1, <1>5, <1>6 DEF n, query

\* With names that fit the length field, a visible word just defined is the one
\* its own name finds: only a name that does not fit can lose it.
THEOREM NewestFound ==
  ASSUME \A r \in Requests : Len(r.name) < NameMod
  PROVE  Spec => []NewestDefinitionFound
<1>1. Init => CreatedIsLast
  BY DEF Init, CreatedIsLast
<1>2. IInv /\ CreatedIsLast /\ [Next]_vars => CreatedIsLast'
  <2> SUFFICES ASSUME IInv, CreatedIsLast, [Next]_vars PROVE CreatedIsLast'
    OBVIOUS
  <2>1. [List!Next]_(List!vars)
    BY ListStep
  <2> QED BY <2>1, CreatedIsLastStep DEF IInv, TypeOK
<1>3. IInv /\ CreatedIsLast => NewestDefinitionFound
  BY LastIsFound
<1> QED BY <1>1, <1>2, <1>3, InvariantHolds, PTL DEF Spec

=============================================================================
