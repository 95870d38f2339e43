------------------------------- MODULE DataFile -------------------------------
(***************************************************************************)
(* The format of a data file of columnar-engine (src/storage/data.rs): a   *)
(* magic number, the numbers of rows and columns, a type and a start for   *)
(* every column, and the columns one after the other.                      *)
(*                                                                         *)
(* A file is a sequence of bytes, and a byte is a pair of what was written *)
(* and which of its bytes this is: reading at the wrong place, or with the *)
(* wrong width, gives Misread.  A string of n equal characters stands for  *)
(* the value n, so that values keep their order and a string its length.   *)
(***************************************************************************)
EXTENDS Integers, Sequences, SequencesExt

Int32 == 0
UInt32 == 1
RowID == 2
Varchar == 3
TypeID == {Int32, UInt32, RowID, Varchar}

Misread == -1
Magic == -2

\* The n bytes of v.
Bytes(n, v) == [i \in 1 .. n |-> <<v, i>>]

\* read_exact of n bytes after the first `at` ones.
Read(bytes, at, n) ==
  IF n = 0 THEN 0
  ELSE IF at + n <= Len(bytes) /\ SubSeq(bytes, at + 1, at + n) = Bytes(n, bytes[at + 1][1])
       THEN bytes[at + 1][1]
       ELSE Misread

ByteLength(columns) == 24 + 16 * columns

-----------------------------------------------------------------------------

Width(type, v) ==
  CASE type = RowID             -> 8
    [] type \in {Int32, UInt32} -> 4
    [] type = Varchar           -> 8 + v

\* A string comes after its length, which takes eight bytes.
WriteValue(type, v) ==
  IF type = Varchar THEN Bytes(8, v) \o Bytes(v, v) ELSE Bytes(Width(type, v), v)

WriteColumn(type, column) ==
  FlattenSeq([i \in DOMAIN column |-> WriteValue(type, column[i])])

\* Fault: the length before a string is not counted.
ColumnLength_NoPrefix(type, column) ==
  FoldLeft(LAMBDA sum, v : sum + Width(type, v) - (IF type = Varchar THEN 8 ELSE 0), 0, column)

ColumnLength(type, column) == FoldLeft(LAMBDA sum, v : sum + Width(type, v), 0, column)

\* The starts are computed while the columns are written.
Starts(types, data) ==
  LET start[c \in DOMAIN data] ==
        IF c = 1 THEN ByteLength(Len(types))
        ELSE start[c - 1] + ColumnLength(types[c - 1], data[c - 1])
  IN  start

HeaderBytes(rows, types, starts) ==
  Bytes(8, Magic) \o Bytes(8, rows) \o Bytes(8, Len(types)) \o
  FlattenSeq([c \in DOMAIN types |-> Bytes(8, types[c]) \o Bytes(8, starts[c])])

\* The file with the columns `data`, of these types.
ToBytes(types, data) ==
  HeaderBytes(Len(data[1]), types, Starts(types, data)) \o
  FlattenSeq([c \in DOMAIN data |-> WriteColumn(types[c], data[c])])

-----------------------------------------------------------------------------

\* The values of one column: where one ends is known when it has been read.
ParseColumn(bytes, rows, type, start) ==
  LET at[i \in 1 .. rows] ==
        IF i = 1 THEN start ELSE at[i - 1] + Width(type, Read(bytes, at[i - 1], 8))
      fixed[i \in 1 .. rows] == start + (i - 1) * Width(type, 0)
  IN  [i \in 1 .. rows |->
         IF type # Varchar THEN Read(bytes, fixed[i], Width(type, 0))
         ELSE IF Read(bytes, at[i], 8) \in Nat
              THEN Read(bytes, at[i] + 8, Read(bytes, at[i], 8))
              ELSE Misread]

ParseHeader(bytes) ==
  [rows    |-> Read(bytes, 8, 8),
   types   |-> [c \in 1 .. Read(bytes, 16, 8) |-> Read(bytes, ByteLength(c - 1), 8)],
   starts  |-> [c \in 1 .. Read(bytes, 16, 8) |-> Read(bytes, ByteLength(c - 1) + 8, 8)]]

\* The columns in sel; the others are there, and empty.
ParseColumns(bytes, sel) ==
  LET header == ParseHeader(bytes)
  IN  [c \in DOMAIN header.types |->
         IF c \in sel
         THEN ParseColumn(bytes, header.rows, header.types[c], header.starts[c])
         ELSE <<>>]

Parse(bytes) == ParseColumns(bytes, DOMAIN ParseHeader(bytes).types)

=============================================================================
