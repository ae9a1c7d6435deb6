----------------------------- MODULE RowFormat -----------------------------
(***************************************************************************)
(* How schemas and rows are kept as bytes: Schema::serialize and           *)
(* deserialize, serialize_row and deserialize_row.  A text is a sequence   *)
(* of characters, each of which is one byte, its code.  Bytes count from   *)
(* 1; a byte has BYTE values, and a 16-bit number WORD.                    *)
(*                                                                         *)
(* Lengths are cut to the width of their field, as in the code.  What is   *)
(* then read is what was written only of schemas that fit (SchemaFits) and *)
(* of rows shorter than WORD.                                              *)
(***************************************************************************)
EXTENDS Integers, Sequences

CONSTANTS
  BYTE,  \* 256
  Code   \* Code[ch]: the byte of a character

ASSUME CodeAssumption ==
  /\ BYTE \in Nat \ {0, 1}
  /\ \A ch \in DOMAIN Code : Code[ch] \in 0 .. BYTE - 1
  /\ \A c, d \in DOMAIN Code : Code[c] = Code[d] => c = d

WORD == BYTE * BYTE

Char == [b \in {Code[ch] : ch \in DOMAIN Code} |-> CHOOSE ch \in DOMAIN Code : Code[ch] = b]

chars(text) == [i \in DOMAIN text |-> Code[text[i]]]
assign(buf, pos, len) == [i \in 1 .. len |-> Char[buf[pos + i - 1]]]

(* Mutant: the upper byte of a length is not shifted down.                 *)
uint16_bytes_unshifted(n) == <<n % BYTE, n - (n % BYTE)>>

uint16_bytes(n) == <<n % BYTE, (n \div BYTE) % BYTE>>
uint16(buf, pos) == buf[pos] + BYTE * buf[pos + 1]

Int32 == -((WORD * WORD) \div 2) .. (WORD * WORD) \div 2 - 1

(* A little-endian two's complement number of four bytes.                  *)
int32_bytes(n) == uint16_bytes(n % WORD) \o uint16_bytes((n \div WORD) % WORD)
int32(buf, pos) ==
  LET n == uint16(buf, pos) + WORD * uint16(buf, pos + 2)
  IN  IF n < (WORD * WORD) \div 2 THEN n ELSE n - WORD * WORD

ColType == [INT |-> 0, TEXT |-> 1]
col_type(b) == IF b = ColType.INT THEN "INT" ELSE "TEXT"

-----------------------------------------------------------------------------
(* Every loop is a function of the number of steps that it has made, and   *)
(* of where it has come to in the bytes.                                   *)
column_bytes(c) ==
  <<ColType[c.type]>> \o uint16_bytes(c.max_len) \o <<Len(c.name) % BYTE>> \o chars(c.name)

serialize(cols) ==
  LET out[i \in 0 .. Len(cols)] ==
        IF i = 0 THEN <<Len(cols) % BYTE>> ELSE out[i - 1] \o column_bytes(cols[i])
  IN  out[Len(cols)]

read_column(buf, pos) ==
  [name |-> assign(buf, pos + 4, buf[pos + 3]), type |-> col_type(buf[pos]),
   max_len |-> uint16(buf, pos + 1)]

deserialize(buf) ==
  LET after[i \in 0 .. buf[1]] ==
        IF i = 0 THEN [cols |-> <<>>, pos |-> 2]
        ELSE LET s == after[i - 1]
             IN  IF s.pos > Len(buf) THEN s
                 ELSE [cols |-> Append(s.cols, read_column(buf, s.pos)),
                       pos  |-> s.pos + 4 + buf[s.pos + 3]]
  IN  after[buf[1]].cols

-----------------------------------------------------------------------------
serialize_value(type, v) ==
  IF type = "INT" THEN int32_bytes(v) ELSE uint16_bytes(Len(v)) \o chars(v)

serialize_row(cols, row) ==
  LET buf[c \in 0 .. Len(cols)] ==
        IF c = 0 THEN <<>> ELSE buf[c - 1] \o serialize_value(cols[c].type, row[c])
  IN  buf[Len(cols)]

(* The bytes that insert_row hands to the heap page: as many as a 16-bit   *)
(* length can say.                                                         *)
stored(bytes) == SubSeq(bytes, 1, Len(bytes) % WORD)

(* A value read behind those of s.                                         *)
read_value(type, buf, s) ==
  IF type = "INT" THEN [row |-> Append(s.row, int32(buf, s.pos)), pos |-> s.pos + 4]
  ELSE LET slen == uint16(buf, s.pos)
       IN  [row |-> Append(s.row, assign(buf, s.pos + 2, slen)), pos |-> s.pos + 2 + slen]

(* Mutant: a text of length 0 at the end of a row is taken for its end.    *)
deserialize_row_early(cols, buf) ==
  LET after[c \in 0 .. Len(cols)] ==
        IF c = 0 THEN [row |-> <<>>, pos |-> 1]
        ELSE LET s == after[c - 1]
             IN  IF s.pos + 1 >= Len(buf) THEN s ELSE read_value(cols[c].type, buf, s)
  IN  after[Len(cols)].row

deserialize_row(cols, buf) ==
  LET after[c \in 0 .. Len(cols)] ==
        IF c = 0 THEN [row |-> <<>>, pos |-> 1]
        ELSE LET s == after[c - 1]
             IN  IF s.pos > Len(buf) THEN s ELSE read_value(cols[c].type, buf, s)
  IN  after[Len(cols)].row

-----------------------------------------------------------------------------
(* The values of a column of that type, and the rows of a schema.          *)
Values(type) == IF type = "INT" THEN Int32 ELSE Seq(DOMAIN Code)
Rows(cols) == {row \in [1 .. Len(cols) -> Int32 \cup Seq(DOMAIN Code)] :
                 \A c \in 1 .. Len(cols) : row[c] \in Values(cols[c].type)}

(* What fits in the fields of a schema: BYTE - 1 columns, with names of as *)
(* many bytes.  The code does not test it.                                 *)
SchemaFits(cols) ==
  Len(cols) < BYTE /\ \A c \in DOMAIN cols : Len(cols[c].name) < BYTE /\ cols[c].max_len < WORD
=============================================================================
