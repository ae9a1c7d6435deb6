---------------------------- MODULE SessionProofs ---------------------------
(***************************************************************************)
(* A session is a run of the SQL engine: what is written as text and as    *)
(* bytes is read back.                                                     *)
(*                                                                         *)
(* First the row format: rows and schemas of any size are decoded as they  *)
(* were encoded.  Then the session: the tables in its files, the lines     *)
(* that are typed, the invariant that both keep, and the theorems.         *)
(***************************************************************************)
EXTENDS StatementProofs

-----------------------------------------------------------------------------
(* The row format: numbers, rows and schemas.                              *)
Byte == 0 .. BYTE - 1

(* A number is a quotient and a remainder.                                 *)
LEMMA Division ==
  ASSUME NEW n \in Int, NEW d \in Nat \ {0}
  PROVE  /\ n \div d \in Int /\ n % d \in 0 .. d - 1
         /\ n = d * (n \div d) + (n % d)
OBVIOUS

(* And these are the only ones.                                            *)
LEMMA DivisionUnique ==
  ASSUME NEW d \in Nat \ {0}, NEW q \in Int, NEW r \in 0 .. d - 1,
         NEW p \in Int, NEW s \in 0 .. d - 1, d * q + r = d * p + s
  PROVE  q = p /\ r = s
<1>1. d * (q - p) = s - r
  OBVIOUS
<1>2. CASE q > p
  <2>1. d * (q - p) >= d
    BY <1>2
  <2> QED BY <1>1, <2>1
<1>3. CASE q < p
  <2>1. d * (q - p) <= 0 - d
    BY <1>3
  <2> QED BY <1>1, <2>1
<1>4. CASE q = p
  BY <1>1, <1>4
<1> QED BY <1>2, <1>3, <1>4

(* A byte, a word and a number of two words.                               *)
LEMMA Widths == /\ BYTE \in Nat \ {0, 1} /\ WORD \in Nat \ {0} /\ WORD = BYTE * BYTE
                /\ WORD >= 4 /\ WORD >= 2 * BYTE
BY CodeAssumption DEF WORD

(* Two bytes, whatever the number ...                                      *)
LEMMA Uint16Bytes ==
  ASSUME NEW n \in Int
  PROVE  uint16_bytes(n) \in Seq(Byte) /\ Len(uint16_bytes(n)) = 2
<1>1. n % BYTE \in Byte /\ n \div BYTE \in Int
  BY Widths, Division DEF Byte
<1>2. (n \div BYTE) % BYTE \in Byte
  BY <1>1, Widths, Division DEF Byte
<1> QED BY <1>1, <1>2 DEF uint16_bytes

(* ... that read as the number they were made of.                          *)
LEMMA Uint16Reads ==
  ASSUME NEW n \in 0 .. WORD - 1, NEW mem, NEW pos, At(mem, pos, uint16_bytes(n))
  PROVE  uint16(mem, pos) = n
<1> DEFINE q == n \div BYTE
           r == n % BYTE
<1>1. n \in Int /\ BYTE \in Nat \ {0} /\ BYTE \in Int
  BY Widths
<1>2. q \in Int /\ r \in 0 .. BYTE - 1 /\ n = BYTE * q + r
  BY <1>1, Division
<1>3. q \in 0 .. BYTE - 1
  <2> HIDE DEF q, r
  <2>1. CASE q < 0
    <3>1. BYTE * q <= 0 - BYTE
      BY <1>1, <1>2, <2>1
    <3> QED BY <1>1, <1>2, <3>1
  <2>2. CASE q >= BYTE
    <3>1. BYTE * q >= BYTE * BYTE
      BY <1>1, <1>2, <2>2
    <3> QED BY <1>1, <1>2, <3>1, Widths
  <2> QED BY <1>1, <1>2, <2>1, <2>2
<1>4. q % BYTE = q
  <2>1. q \div BYTE \in Int /\ q % BYTE \in 0 .. BYTE - 1
        /\ q = BYTE * (q \div BYTE) + (q % BYTE)
    BY <1>1, <1>2, Division
  <2>2. BYTE * (q \div BYTE) + (q % BYTE) = BYTE * 0 + q
    BY <2>1, <1>1, <1>3
  <2> HIDE DEF q
  <2> QED BY <2>1, <2>2, <1>1, <1>3, DivisionUnique
<1>5. mem[pos] = r /\ mem[pos + 1] = q
  <2>1. uint16_bytes(n) = <<r, q>>
    BY <1>4 DEF uint16_bytes
  <2>2. pos \in Nat /\ 1 \in 1 .. Len(<<r, q>>) /\ 2 \in 1 .. Len(<<r, q>>)
        /\ pos + 1 - 1 = pos /\ pos + 2 - 1 = pos + 1
    BY DEF At
  <2> HIDE DEF q, r
  <2> QED BY <2>1, <2>2 DEF At
<1> HIDE DEF q, r
<1> QED BY <1>2, <1>5, <1>1 DEF uint16

(* A number of two words, as bytes ...                                     *)
LEMMA Int32Bytes ==
  ASSUME NEW n \in Int
  PROVE  int32_bytes(n) \in Seq(Byte) /\ Len(int32_bytes(n)) = 4
<1> DEFINE lo == n % WORD
           hi == (n \div WORD) % WORD
<1>1. lo \in Int /\ hi \in Int
  <2>1. n % WORD \in Int /\ n \div WORD \in Int
    BY Widths, Division
  <2>2. \A m \in Int : m % WORD \in Int
    BY Widths, Division
  <2> QED BY <2>1, <2>2
<1>2. int32_bytes(n) = uint16_bytes(lo) \o uint16_bytes(hi)
  BY DEF int32_bytes
<1> HIDE DEF lo, hi
<1>3. uint16_bytes(lo) \in Seq(Byte) /\ Len(uint16_bytes(lo)) = 2
      /\ uint16_bytes(hi) \in Seq(Byte) /\ Len(uint16_bytes(hi)) = 2
  BY <1>1, Uint16Bytes
<1> DEFINE s == uint16_bytes(lo)
           t == uint16_bytes(hi)
<1>4. s \o t \in Seq(Byte) /\ Len(s \o t) = Len(s) + Len(t)
  BY <1>3, ConcatProperties
<1> QED BY <1>2, <1>3, <1>4

(* ... that reads as itself if it is of 32 bits.                           *)
LEMMA Int32Reads ==
  ASSUME NEW n \in Int32, NEW mem, NEW pos, Len(mem) \in Nat, At(mem, pos, int32_bytes(n))
  PROVE  int32(mem, pos) = n
<1> DEFINE q  == n \div WORD
           lo == n % WORD
           hi == q % WORD
           WW == WORD * WORD
           H  == WW \div 2
<1>1. /\ WORD \in Nat \ {0} /\ WW \in Nat /\ H \in Nat /\ 2 * H <= WW /\ WW <= 2 * H + 1
      /\ n \in Int /\ 0 - H <= n /\ n < H
  <2>1. WORD \in Nat \ {0} /\ WW \in Nat
    BY Widths
  <2> HIDE DEF WW
  <2>2. H \in Int /\ 2 * H <= WW /\ WW <= 2 * H + 1
    BY <2>1
  <2>3. n \in -H .. H - 1
    BY DEF Int32, WW
  <2> HIDE DEF H
  <2> QED BY <2>1, <2>2, <2>3
<1>2. q \in Int /\ lo \in 0 .. WORD - 1 /\ n = WORD * q + lo
  BY <1>1, Division
<1>3. hi \in 0 .. WORD - 1 /\ q \div WORD \in Int /\ q = WORD * (q \div WORD) + hi
  <2> HIDE DEF q
  <2> QED BY <1>1, <1>2, Division
<1>4. uint16(mem, pos) = lo /\ uint16(mem, pos + 2) = hi
  <2>1. int32_bytes(n) = uint16_bytes(lo) \o uint16_bytes(hi)
    BY DEF int32_bytes
  <2> HIDE DEF lo, hi
  <2>2. uint16_bytes(lo) \in Seq(Byte) /\ Len(uint16_bytes(lo)) = 2
      /\ uint16_bytes(hi) \in Seq(Byte)
    BY <1>2, <1>3, Uint16Bytes
  <2>3. At(mem, pos, uint16_bytes(lo)) /\ At(mem, pos + 2, uint16_bytes(hi))
    <3> DEFINE s == uint16_bytes(lo)
               t == uint16_bytes(hi)
    <3>1. s \in Seq(Byte) /\ t \in Seq(Byte) /\ Len(s) = 2 /\ At(mem, pos, s \o t)
      BY <2>1, <2>2
    <3> HIDE DEF s, t
    <3>2. At(mem, pos, s) /\ At(mem, pos + 2, t)
      BY <3>1, AtConcat
    <3> QED BY <3>2 DEF s, t
  <2> QED BY <2>3, <1>2, <1>3, Uint16Reads
<1> DEFINE u == uint16(mem, pos) + WORD * uint16(mem, pos + 2)
<1>5. u = lo + WORD * hi /\ int32(mem, pos) = IF u < H THEN u ELSE u - WW
  <2>1. int32(mem, pos) = IF u < H THEN u ELSE u - WW
    BY DEF int32
  <2>2. u = lo + WORD * hi
    <3> HIDE DEF lo, hi
    <3> QED BY <1>4
  <2> QED BY <2>1, <2>2
<1> HIDE DEF u
<1>6. CASE n >= 0
  <2> HIDE DEF WW, H, lo, hi, q
  <2>1. q >= 0
    <3>1. SUFFICES ASSUME q <= -1 PROVE FALSE
      BY <1>2
    <3>2. WORD * q <= 0 - WORD
      BY <3>1, <1>1, <1>2
    <3> QED BY <3>2, <1>1, <1>2, <1>6
  <2>2. q < WORD
    <3>1. SUFFICES ASSUME q >= WORD PROVE FALSE
      BY <1>1, <1>2
    <3>2. WORD * q >= WW
      BY <3>1, <1>1, <1>2 DEF WW
    <3> QED BY <3>2, <1>1, <1>2
  <2>3. hi = q
    <3>1. WORD * (q \div WORD) + hi = WORD * 0 + q
      BY <1>1, <1>2, <1>3
    <3>2. q \in 0 .. WORD - 1
      BY <1>1, <1>2, <2>1, <2>2
    <3> QED BY <1>1, <1>3, <3>1, <3>2, DivisionUnique
  <2>4. u = n
    BY <1>1, <1>2, <1>5, <2>3
  <2> QED BY <1>1, <1>5, <1>6, <2>4
<1>7. CASE n < 0
  <2> HIDE DEF H, lo, hi, q
  <2>1. q <= -1
    <3>1. SUFFICES ASSUME q >= 0 PROVE FALSE
      BY <1>2
    <3>2. WORD * q >= 0
      BY <3>1, <1>1, <1>2
    <3> QED BY <3>2, <1>1, <1>2, <1>7
  <2>2. q >= -WORD
    <3>1. SUFFICES ASSUME q <= -WORD - 1 PROVE FALSE
      BY <1>1, <1>2
    <3>2. WORD * q <= WORD * (-WORD - 1)
      BY <3>1, <1>1, <1>2
    <3>3. WORD * (-WORD - 1) = -WW - WORD
      BY <1>1
    <3> HIDE DEF WW
    <3> QED BY <3>2, <3>3, <1>1, <1>2
  <2>3. hi = q + WORD
    <3>1. WORD * (q \div WORD) + hi = WORD * (-1) + (q + WORD)
      BY <1>1, <1>2, <1>3
    <3>2. q + WORD \in 0 .. WORD - 1
      BY <1>1, <1>2, <2>1, <2>2
    <3> DEFINE x == q + WORD
               y == q \div WORD
               z == -1
    <3>3. x \in 0 .. WORD - 1 /\ y \in Int /\ z \in Int /\ WORD * y + hi = WORD * z + x
      BY <3>1, <3>2, <1>3
    <3> HIDE DEF x, y, z
    <3>4. hi = x
      BY <1>1, <1>3, <3>3, DivisionUnique
    <3> QED BY <3>4 DEF x
  <2>4. WORD * hi = WORD * q + WW
    BY <2>3, <1>1, <1>2
  <2> HIDE DEF WW
  <2>5. lo + WORD * hi = n + WW
    <3> DEFINE a == WORD * hi
               b == WORD * q
    <3>1. a \in Int /\ b \in Int
      BY <1>1, <1>2, <1>3
    <3>2. a = b + WW /\ n = b + lo
      BY <2>4, <1>2
    <3> HIDE DEF a, b
    <3>3. lo + a = n + WW
      BY <3>1, <3>2, <1>1, <1>2
    <3> QED BY <3>3 DEF a
  <2>6. u = n + WW
    BY <1>5, <2>5
  <2> QED BY <1>1, <1>5, <1>7, <2>6
<1> HIDE DEF lo, hi, q, WW, H
<1>8. n >= 0 \/ n < 0
  BY <1>1
<1> QED BY <1>6, <1>7, <1>8

(* The bytes of a text, and the text read back.                            *)
LEMMA CharsBytes ==
  ASSUME NEW text \in Seq(DOMAIN Code)
  PROVE  chars(text) \in Seq(Byte) /\ Len(chars(text)) = Len(text)
<1>1. DOMAIN text = 1 .. Len(text) /\ Len(text) \in Nat
  BY LenProperties
<1>2. \A i \in 1 .. Len(text) : Code[text[i]] \in Byte
  BY <1>1, CodeAssumption, ElementOfSeq DEF Byte
<1>3. chars(text) \in [1 .. Len(text) -> Byte]
  BY <1>1, <1>2 DEF chars
<1> QED BY <1>1, <1>3

(* The characters written to a buffer are the ones assign reads there.     *)
LEMMA CharsRead ==
  ASSUME NEW text \in Seq(DOMAIN Code), NEW mem, NEW pos, At(mem, pos, chars(text))
  PROVE  assign(mem, pos, Len(text)) = text
<1>1. Len(text) \in Nat /\ DOMAIN text = 1 .. Len(text) /\ Len(chars(text)) = Len(text)
      /\ text = [i \in 1 .. Len(text) |-> text[i]]
  BY LenProperties, CharsBytes
<1>2. ASSUME NEW i \in 1 .. Len(text) PROVE Char[mem[pos + i - 1]] = text[i]
  <2>1. mem[pos + i - 1] = Code[text[i]]
    BY <1>1 DEF At, chars
  <2>2. text[i] \in DOMAIN Code
    BY ElementOfSeq
  <2>3. \A ch \in DOMAIN Code : Code[ch] = Code[text[i]] => ch = text[i]
    BY <2>2, CodeAssumption
  <2>4. Char[Code[text[i]]] = CHOOSE ch \in DOMAIN Code : Code[ch] = Code[text[i]]
    BY <2>2 DEF Char
  <2> QED BY <2>1, <2>2, <2>3, <2>4
<1> QED BY <1>1, <1>2 DEF assign

-----------------------------------------------------------------------------
(* Rows as bytes.                                                          *)
ValueLen(type, v) == IF type = "INT" THEN 4 ELSE Len(v) + 2

(* A value is written as bytes ...                                         *)
LEMMA ValueBytes ==
  ASSUME NEW type, NEW v \in Values(type)
  PROVE  /\ serialize_value(type, v) \in Seq(Byte)
         /\ Len(serialize_value(type, v)) = ValueLen(type, v) /\ ValueLen(type, v) \in Nat
         /\ ValueLen(type, v) >= 2
<1>1. CASE type = "INT"
  <2>1. v \in Int
    BY <1>1 DEF Values, Int32
  <2> QED BY <1>1, <2>1, Int32Bytes DEF serialize_value, ValueLen
<1>2. CASE type # "INT"
  <2>1. v \in Seq(DOMAIN Code) /\ Len(v) \in Nat
    BY <1>2, LenProperties DEF Values
  <2> DEFINE s == uint16_bytes(Len(v))
             t == chars(v)
  <2>2. s \in Seq(Byte) /\ Len(s) = 2 /\ t \in Seq(Byte) /\ Len(t) = Len(v)
    BY <2>1, Uint16Bytes, CharsBytes
  <2>3. serialize_value(type, v) = s \o t
    BY <1>2 DEF serialize_value
  <2> HIDE DEF s, t
  <2>4. s \o t \in Seq(Byte) /\ Len(s \o t) = Len(s) + Len(t)
    BY <2>2, ConcatProperties
  <2> QED BY <1>2, <2>1, <2>2, <2>3, <2>4 DEF ValueLen
<1> QED BY <1>1, <1>2

(* ... and is read back from where it stands if its length fits.           *)
LEMMA ValueReads ==
  ASSUME NEW type, NEW v \in Values(type), NEW mem, Len(mem) \in 0 .. WORD - 1,
         NEW s, At(mem, s.pos, serialize_value(type, v))
  PROVE  read_value(type, mem, s)
           = [row |-> Append(s.row, v), pos |-> s.pos + ValueLen(type, v)]
<1>0. Len(mem) \in Nat
  BY Widths
<1>1. CASE type = "INT"
  <2>1. v \in Int32 /\ At(mem, s.pos, int32_bytes(v))
    BY <1>1 DEF Values, serialize_value
  <2>2. int32(mem, s.pos) = v
    BY <1>0, <2>1, Int32Reads
  <2> QED BY <1>1, <2>2 DEF read_value, ValueLen
<1>2. CASE type # "INT"
  <2>1. v \in Seq(DOMAIN Code) /\ Len(v) \in Nat
    BY <1>2, LenProperties DEF Values
  <2> DEFINE a == uint16_bytes(Len(v))
             b == chars(v)
  <2>2. a \in Seq(Byte) /\ Len(a) = 2 /\ b \in Seq(Byte) /\ Len(b) = Len(v)
    BY <2>1, Uint16Bytes, CharsBytes
  <2>3. At(mem, s.pos, a \o b)
    BY <1>2 DEF serialize_value
  <2>4. At(mem, s.pos, a) /\ At(mem, s.pos + 2, b)
    <3> HIDE DEF a, b
    <3> QED BY <1>0, <2>2, <2>3, AtConcat
  <2>5. Len(v) \in 0 .. WORD - 1
    <3>1. s.pos \in Nat \ {0} /\ s.pos + 2 \in Nat /\ s.pos + 2 + Len(v) <= Len(mem) + 1
      BY <2>2, <2>4 DEF At
    <3> QED BY <3>1, <2>1, Widths
  <2>6. uint16(mem, s.pos) = Len(v)
    BY <2>4, <2>5, Uint16Reads
  <2>7. assign(mem, s.pos + 2, Len(v)) = v
    BY <2>1, <2>4, CharsRead
  <2>8. s.pos + 2 + Len(v) = s.pos + (Len(v) + 2)
    <3>1. s.pos \in Nat
      BY <2>4 DEF At
    <3> DEFINE p == s.pos
               n == Len(v)
    <3>2. p \in Nat /\ n \in Nat
      BY <3>1, <2>1
    <3> HIDE DEF p, n
    <3>3. p + 2 + n = p + (n + 2)
      BY <3>2
    <3> QED BY <3>3 DEF p, n
  <2> QED BY <1>2, <2>6, <2>7, <2>8 DEF read_value, ValueLen
<1> QED BY <1>1, <1>2

(* The row's bytes are those of its values, one after the other.           *)
LEMMA RowBytes ==
  ASSUME NEW cols, Len(cols) \in Nat, NEW row \in Rows(cols)
  PROVE  \E out : /\ Prefixes(Byte, Len(cols),
                              [c \in 1 .. Len(cols) |-> serialize_value(cols[c].type, row[c])], out)
                  /\ out[0] = <<>> /\ serialize_row(cols, row) = out[Len(cols)]
<1> DEFINE L == Len(cols)
           part == [c \in 1 .. L |-> serialize_value(cols[c].type, row[c])]
           P(f) == [c \in 0 .. L |-> IF c = 0 THEN <<>> ELSE f[c - 1] \o part[c]]
           Q(f) == [c \in 0 .. L |->
                      IF c = 0 THEN <<>> ELSE f[c - 1] \o serialize_value(cols[c].type, row[c])]
           g == CHOOSE f : f = Q(f)
<1>1. \A c \in 1 .. L : row[c] \in Values(cols[c].type)
  BY DEF Rows
<1>2. part \in [1 .. L -> Seq(Byte)] /\ <<>> \in Seq(Byte)
  BY <1>1, ValueBytes
<1>3. \A f : P(f) = Q(f)
  OBVIOUS
<1>4. \E f : f = P(f)
  <2>1. \E f : /\ f = [i \in 0 .. L |-> IF i = 0 THEN <<>> ELSE f[i - 1] \o part[i]]
               /\ Prefixes(Byte, L, part, f)
    <3> HIDE DEF part
    <3> QED BY <1>2, Concatenation
  <2> QED BY <2>1
<1>5. g = P(g)
  <2> HIDE DEF P, Q
  <2> QED BY <1>3, <1>4
<1>7. serialize_row(cols, row) = g[L]
  BY DEF serialize_row
<1> HIDE DEF g
<1>6. g \in [0 .. L -> Seq(Byte)] /\ \A c \in 1 .. L : g[c] = g[c - 1] \o part[c]
  <2>1. PICK f : /\ f = [i \in 0 .. L |-> IF i = 0 THEN <<>> ELSE f[i - 1] \o part[i]]
                 /\ Prefixes(Byte, L, part, f)
    <3> HIDE DEF part
    <3> QED BY <1>2, Concatenation
  <2> DEFINE Bad == {c \in 0 .. L : f[c] # g[c]}
  <2>2. Bad = {}
    <3>1. SUFFICES ASSUME Bad # {} PROVE FALSE
      OBVIOUS
    <3>2. PICK c \in Bad : \A b \in Bad : c <= b
      <4>1. Bad \in SUBSET Nat
        OBVIOUS
      <4> HIDE DEF Bad
      <4> QED BY <3>1, <4>1, LeastNumber
    <3>3. c # 0
      <4>1. f[0] = <<>> /\ g[0] = <<>>
        BY <2>1, <1>5
      <4> QED BY <3>2, <4>1
    <3>4. c - 1 \in 0 .. L /\ ~(c <= c - 1) /\ c \in 0 .. L
      BY <3>2, <3>3
    <3>5. f[c - 1] = g[c - 1]
      BY <3>2, <3>4
    <3>6. f[c] = f[c - 1] \o part[c] /\ g[c] = g[c - 1] \o part[c]
      <4> HIDE DEF part
      <4> QED BY <2>1, <1>5, <3>3, <3>4
    <3> QED BY <3>2, <3>5, <3>6
  <2>3. f = g
    <3>1. DOMAIN f = 0 .. L /\ DOMAIN g = 0 .. L
      BY <2>1, <1>5
    <3>2. f = [c \in 0 .. L |-> f[c]] /\ g = [c \in 0 .. L |-> g[c]]
      BY <2>1, <1>5
    <3>3. \A c \in 0 .. L : f[c] = g[c]
      BY <2>2
    <3> HIDE DEF g
    <3> QED BY <3>2, <3>3
  <2> HIDE DEF part, g
  <2> QED BY <2>1, <2>3 DEF Prefixes
<1>8. g[0] = <<>>
  BY <1>5
<1>9. Prefixes(Byte, L, part, g)
  <2> HIDE DEF part, g
  <2> QED BY <1>2, <1>6 DEF Prefixes
<1> QED BY <1>7, <1>8, <1>9

(* deserialize_row gives back the row that serialize_row was given, if its *)
(* bytes are no more than a 16-bit length can say.                         *)
LEMMA RowReadsBack ==
  ASSUME NEW cols, Len(cols) \in Nat, NEW row \in Rows(cols),
         Len(serialize_row(cols, row)) < WORD
  PROVE  /\ stored(serialize_row(cols, row)) = serialize_row(cols, row)
         /\ deserialize_row(cols, serialize_row(cols, row)) = row
<1> DEFINE L == Len(cols)
           part == [c \in 1 .. L |-> serialize_value(cols[c].type, row[c])]
           mem == serialize_row(cols, row)
           Step(s, c) == IF s.pos > Len(mem) THEN s ELSE read_value(cols[c].type, mem, s)
           Bottom == [row |-> <<>>, pos |-> 1]
           To(f) == [c \in 0 .. L |-> IF c = 0 THEN Bottom ELSE Step(f[c - 1], c)]
           g == CHOOSE f : f = To(f)
<1>1. PICK out : Prefixes(Byte, L, part, out) /\ out[0] = <<>> /\ mem = out[L]
  BY RowBytes
<1>2. mem \in Seq(Byte) /\ Len(mem) \in 0 .. WORD - 1 /\ Len(mem) \in Nat
  <2>1. mem \in Seq(Byte)
    BY <1>1 DEF Prefixes
  <2> QED BY <2>1, LenProperties, Widths
<1>3. stored(mem) = mem
  <2> HIDE DEF mem
  <2>1. Len(mem) % WORD = Len(mem)
    <3> DEFINE n == Len(mem)
    <3>1. n \in 0 .. WORD - 1 /\ n \in Int /\ WORD \in Nat \ {0}
      BY <1>2, Widths
    <3> HIDE DEF n
    <3>2. n \div WORD \in Int /\ n % WORD \in 0 .. WORD - 1 /\ n = WORD * (n \div WORD) + (n % WORD)
      BY <3>1, Division
    <3>3. WORD * (n \div WORD) + (n % WORD) = WORD * 0 + n
      BY <3>1, <3>2
    <3>4. n % WORD = n
      BY <3>1, <3>2, <3>3, DivisionUnique
    <3> QED BY <3>4 DEF n
  <2> QED BY <2>1, <1>2, SubSeqFull DEF stored
<1>4. ASSUME NEW c \in 1 .. L
      PROVE  /\ At(mem, End(out, c - 1) + 1, serialize_value(cols[c].type, row[c]))
             /\ End(out, c - 1) \in Nat
             /\ End(out, c) = End(out, c - 1) + ValueLen(cols[c].type, row[c])
             /\ ValueLen(cols[c].type, row[c]) \in Nat \ {0}
             /\ End(out, c - 1) + 1 <= Len(mem)
             /\ row[c] \in Values(cols[c].type)
  <2>1. row[c] \in Values(cols[c].type)
    BY DEF Rows
  <2>2. /\ part[c] = serialize_value(cols[c].type, row[c])
        /\ End(part, c) = ValueLen(cols[c].type, row[c])
        /\ ValueLen(cols[c].type, row[c]) \in Nat /\ ValueLen(cols[c].type, row[c]) >= 2
    BY <2>1, ValueBytes DEF End
  <2>3. /\ At(mem, End(out, c - 1) + 1, part[c])
        /\ End(out, c - 1) \in Nat /\ End(part, c) \in Nat
        /\ End(out, c) = End(out, c - 1) + End(part, c)
    <3> HIDE DEF part, L, mem
    <3>1. Prefixes(Byte, L, part, out) /\ c \in 1 .. L /\ out[L] = mem
      BY <1>1
    <3> QED BY <3>1, PartIsAt
  <2>4. End(out, c - 1) + 1 <= Len(mem)
    <3> HIDE DEF part, mem
    <3>1. End(out, c - 1) + 1 + End(part, c) <= Len(mem) + 1
      BY <2>3 DEF At, End
    <3> QED BY <3>1, <2>2, <2>3, <1>2
  <2> HIDE DEF part, mem
  <2> QED BY <2>1, <2>2, <2>3, <2>4
<1> DEFINE h == [c \in 0 .. L |-> [row |-> [b \in 1 .. c |-> row[b]], pos |-> End(out, c) + 1]]
<1>5. h[0] = Bottom
  <2>1. [b \in 1 .. 0 |-> row[b]] = <<>>
    OBVIOUS
  <2>2. End(out, 0) = 0
    BY <1>1 DEF End
  <2> QED BY <2>1, <2>2
<1>6. ASSUME NEW c \in 1 .. L PROVE h[c] = Step(h[c - 1], c)
  <2> DEFINE s == h[c - 1]
             v == row[c]
             t == cols[c].type
  <2>1. c - 1 \in 0 .. L /\ c \in 0 .. L /\ c - 1 \in Nat
    BY <1>6
  <2>2. s.row = [b \in 1 .. c - 1 |-> row[b]] /\ s.pos = End(out, c - 1) + 1
    BY <2>1
  <2>3. Append(s.row, v) = [b \in 1 .. c |-> row[b]]
    BY <2>1, <2>2
  <2>4. h[c] = [row |-> Append(s.row, v), pos |-> s.pos + ValueLen(t, v)]
    <3>1. h[c] = [row |-> [b \in 1 .. c |-> row[b]], pos |-> End(out, c) + 1]
      BY <2>1
    <3>2. End(out, c) + 1 = s.pos + ValueLen(t, v)
      <4> DEFINE m == End(out, c - 1)
                 n == ValueLen(t, v)
      <4>1. m \in Nat /\ n \in Nat /\ End(out, c) = m + n /\ s.pos = m + 1
        BY <1>4, <2>2
      <4> HIDE DEF m, n, s
      <4>2. End(out, c) + 1 = s.pos + n
        BY <4>1
      <4> QED BY <4>2 DEF n
    <3> HIDE DEF h, s
    <3> QED BY <2>3, <3>1, <3>2
  <2>5. read_value(t, mem, s) = [row |-> Append(s.row, v), pos |-> s.pos + ValueLen(t, v)]
    <3>1. v \in Values(t) /\ At(mem, s.pos, serialize_value(t, v))
      BY <1>4, <2>2
    <3> HIDE DEF s, v, t, mem
    <3> QED BY <3>1, <1>2, ValueReads
  <2>6. ~(s.pos > Len(mem))
    <3>1. End(out, c - 1) + 1 <= Len(mem) /\ End(out, c - 1) \in Nat
      BY <1>4
    <3> HIDE DEF s, mem
    <3> QED BY <3>1, <2>2, <1>2
  <2> HIDE DEF s, h, mem
  <2>7. Step(s, c) = h[c]
    BY <2>4, <2>5, <2>6
  <2> QED BY <2>7 DEF s
<1>7. h = To(h)
  <2>1. h = [c \in 0 .. L |-> h[c]]
    OBVIOUS
  <2>2. \A c \in 0 .. L : c # 0 => c \in 1 .. L
    OBVIOUS
  <2> HIDE DEF h, Step, Bottom
  <2> QED BY <2>1, <2>2, <1>5, <1>6
<1>8. g = To(g)
  <2> HIDE DEF h, To
  <2> QED BY <1>7
<1>9. g[L] = h[L]
  <2> DEFINE Bad == {c \in 0 .. L : g[c] # h[c]}
  <2> HIDE DEF g, h, Step, Bottom
  <2>1. SUFFICES ASSUME Bad # {} PROVE FALSE
    OBVIOUS
  <2>2. PICK c \in Bad : \A b \in Bad : c <= b
    <3>1. Bad \in SUBSET Nat
      OBVIOUS
    <3> HIDE DEF Bad
    <3> QED BY <2>1, <3>1, LeastNumber
  <2>3. c # 0
    BY <1>5, <1>8, <2>2
  <2>4. c - 1 \in 0 .. L /\ ~(c <= c - 1) /\ c \in 0 .. L /\ c \in 1 .. L
    BY <2>2, <2>3
  <2>5. g[c - 1] = h[c - 1]
    BY <2>2, <2>4
  <2>6. g[c] = Step(g[c - 1], c)
    BY <1>8, <2>3, <2>4
  <2> QED BY <2>2, <2>4, <2>5, <2>6, <1>6
<1>10. deserialize_row(cols, mem) = g[L].row
  BY DEF deserialize_row
<1>11. h[L].row = row
  <2>1. row = [b \in 1 .. L |-> row[b]]
    BY DEF Rows
  <2>2. h[L].row = [b \in 1 .. L |-> row[b]]
    OBVIOUS
  <2> QED BY <2>1, <2>2
<1> HIDE DEF g, h, mem
<1>12. deserialize_row(cols, mem) = row
  BY <1>9, <1>10, <1>11
<1> QED BY <1>3, <1>12 DEF mem

-----------------------------------------------------------------------------
(* Schemas as bytes.                                                       *)
Columns == [name : Seq(DOMAIN Code), type : {"INT", "TEXT"}, max_len : 0 .. WORD - 1]

(* A column is written as bytes ...                                        *)
LEMMA ColumnBytes ==
  ASSUME NEW c \in Columns
  PROVE  /\ column_bytes(c) \in Seq(Byte) /\ Len(c.name) \in Nat
         /\ Len(column_bytes(c)) = Len(c.name) + 4
<1>1. c.name \in Seq(DOMAIN Code) /\ c.type \in {"INT", "TEXT"} /\ c.max_len \in Int
  BY Widths DEF Columns
<1>2. Len(c.name) \in Nat
  BY <1>1, LenProperties
<1> DEFINE a == <<ColType[c.type]>>
           b == uint16_bytes(c.max_len)
           d == <<Len(c.name) % BYTE>>
           e == chars(c.name)
<1>3. ColType[c.type] \in Byte /\ Len(c.name) % BYTE \in Byte
  <2>1. ColType[c.type] \in Byte
    BY <1>1, Widths DEF Byte, ColType
  <2>2. Len(c.name) % BYTE \in 0 .. BYTE - 1
    <3> DEFINE n == Len(c.name)
    <3>1. n \in Int /\ BYTE \in Nat \ {0}
      BY <1>2, Widths
    <3> HIDE DEF n
    <3>2. n % BYTE \in 0 .. BYTE - 1
      BY <3>1, Division
    <3> QED BY <3>2 DEF n
  <2> QED BY <2>1, <2>2 DEF Byte
<1>4. a \in Seq(Byte) /\ Len(a) = 1 /\ b \in Seq(Byte) /\ Len(b) = 2 /\ d \in Seq(Byte)
      /\ Len(d) = 1 /\ e \in Seq(Byte) /\ Len(e) = Len(c.name)
  BY <1>1, <1>3, Uint16Bytes, CharsBytes
<1>5. column_bytes(c) = ((a \o b) \o d) \o e
  BY DEF column_bytes
<1> HIDE DEF a, b, d, e
<1>6. a \o b \in Seq(Byte) /\ Len(a \o b) = 1 + 2
  <2>1. a \o b \in Seq(Byte) /\ Len(a \o b) = Len(a) + Len(b)
    BY <1>4, ConcatProperties
  <2> QED BY <2>1, <1>4
<1> DEFINE ab == a \o b
<1>7. ab \in Seq(Byte) /\ Len(ab) = 3
  BY <1>6
<1> HIDE DEF ab
<1>8. ab \o d \in Seq(Byte) /\ Len(ab \o d) = 3 + 1
  <2>1. ab \o d \in Seq(Byte) /\ Len(ab \o d) = Len(ab) + Len(d)
    BY <1>4, <1>7, ConcatProperties
  <2> QED BY <2>1, <1>4, <1>7
<1> DEFINE abd == ab \o d
<1>9. abd \in Seq(Byte) /\ Len(abd) = 4
  BY <1>8
<1> HIDE DEF abd
<1>10. abd \o e \in Seq(Byte) /\ Len(abd \o e) = 4 + Len(c.name)
  <2>1. abd \o e \in Seq(Byte) /\ Len(abd \o e) = Len(abd) + Len(e)
    BY <1>2, <1>4, <1>9, ConcatProperties
  <2> QED BY <2>1, <1>2, <1>4, <1>9
<1>11. 4 + Len(c.name) = Len(c.name) + 4
  BY <1>2
<1> QED BY <1>2, <1>5, <1>10, <1>11 DEF abd, ab

(* ... and is read back from where it stands.                              *)
LEMMA ColumnReads ==
  ASSUME NEW c \in Columns, Len(c.name) < BYTE, NEW mem, NEW pos, Len(mem) \in Nat,
         At(mem, pos, column_bytes(c))
  PROVE  read_column(mem, pos) = c /\ mem[pos + 3] = Len(c.name)
<1>1. c.name \in Seq(DOMAIN Code) /\ c.type \in {"INT", "TEXT"} /\ c.max_len \in 0 .. WORD - 1
      /\ c.max_len \in Int
  BY Widths DEF Columns
<1>2. Len(c.name) \in Nat /\ Len(c.name) \in 0 .. BYTE - 1
  <2>1. Len(c.name) \in Nat
    BY <1>1, LenProperties
  <2> QED BY <2>1, Widths
<1> DEFINE a == <<ColType[c.type]>>
           b == uint16_bytes(c.max_len)
           d == <<Len(c.name) % BYTE>>
           e == chars(c.name)
<1>3. Len(c.name) % BYTE = Len(c.name)
  <2> DEFINE n == Len(c.name)
  <2>1. n \in 0 .. BYTE - 1 /\ n \in Int /\ BYTE \in Nat \ {0}
    BY <1>2, Widths
  <2> HIDE DEF n
  <2>2. n \div BYTE \in Int /\ n % BYTE \in 0 .. BYTE - 1 /\ n = BYTE * (n \div BYTE) + (n % BYTE)
    BY <2>1, Division
  <2>3. BYTE * (n \div BYTE) + (n % BYTE) = BYTE * 0 + n
    BY <2>1, <2>2
  <2>4. n % BYTE = n
    BY <2>1, <2>2, <2>3, DivisionUnique
  <2> QED BY <2>4 DEF n
<1>4. ColType[c.type] \in Byte /\ Len(c.name) \in Byte
  BY <1>1, <1>2, Widths DEF Byte, ColType
<1>5. a \in Seq(Byte) /\ Len(a) = 1 /\ b \in Seq(Byte) /\ Len(b) = 2 /\ d \in Seq(Byte)
      /\ Len(d) = 1 /\ e \in Seq(Byte)
  BY <1>1, <1>3, <1>4, Uint16Bytes, CharsBytes
<1>6. At(mem, pos, ((a \o b) \o d) \o e)
  BY DEF column_bytes
<1>7. /\ At(mem, pos, a) /\ At(mem, pos + 1, b) /\ At(mem, pos + 3, d) /\ At(mem, pos + 4, e)
  <2> HIDE DEF a, b, d, e
  <2>1. a \o b \in Seq(Byte) /\ Len(a \o b) = 1 + 2
    <3>1. a \o b \in Seq(Byte) /\ Len(a \o b) = Len(a) + Len(b)
      BY <1>5, ConcatProperties
    <3> QED BY <3>1, <1>5
  <2> DEFINE ab == a \o b
  <2>2. ab \in Seq(Byte) /\ Len(ab) = 3
    BY <2>1
  <2> HIDE DEF ab
  <2>3. ab \o d \in Seq(Byte) /\ Len(ab \o d) = 3 + 1
    <3>1. ab \o d \in Seq(Byte) /\ Len(ab \o d) = Len(ab) + Len(d)
      BY <1>5, <2>2, ConcatProperties
    <3> QED BY <3>1, <1>5, <2>2
  <2> DEFINE abd == ab \o d
  <2>4. abd \in Seq(Byte) /\ Len(abd) = 4
    BY <2>3
  <2> HIDE DEF abd
  <2>5. At(mem, pos, abd \o e)
    BY <1>6 DEF ab, abd
  <2>6. At(mem, pos, abd) /\ At(mem, pos + 4, e)
    BY <1>5, <2>4, <2>5, AtConcat
  <2>7. At(mem, pos, ab) /\ At(mem, pos + 3, d)
    <3>1. At(mem, pos, ab \o d)
      BY <2>6 DEF abd
    <3> QED BY <1>5, <2>2, <3>1, AtConcat
  <2>8. At(mem, pos, a) /\ At(mem, pos + 1, b)
    <3>1. At(mem, pos, a \o b)
      BY <2>7 DEF ab
    <3> QED BY <1>5, <3>1, AtConcat
  <2> QED BY <2>6, <2>7, <2>8
<1>8. pos \in Nat
  BY <1>7 DEF At
<1>9. mem[pos] = ColType[c.type]
  <2>1. 1 \in 1 .. Len(a) /\ pos + 1 - 1 = pos /\ a[1] = ColType[c.type]
    BY <1>5, <1>8
  <2> HIDE DEF a
  <2> QED BY <2>1, <1>7 DEF At
<1>10. mem[pos + 3] = Len(c.name)
  <2>1. 1 \in 1 .. Len(d) /\ (pos + 3) + 1 - 1 = pos + 3 /\ d[1] = Len(c.name)
    BY <1>3, <1>5, <1>8
  <2> HIDE DEF d
  <2>2. mem[(pos + 3) + 1 - 1] = d[1]
    BY <2>1, <1>7 DEF At
  <2> QED BY <2>1, <2>2
<1>11. uint16(mem, pos + 1) = c.max_len
  BY <1>1, <1>7, Uint16Reads
<1>12. assign(mem, pos + 4, Len(c.name)) = c.name
  BY <1>1, <1>7, CharsRead
<1>13. col_type(ColType[c.type]) = c.type
  BY <1>1 DEF col_type, ColType
<1>14. c = [name |-> c.name, type |-> c.type, max_len |-> c.max_len]
  BY DEF Columns
<1> QED BY <1>9, <1>10, <1>11, <1>12, <1>13, <1>14 DEF read_column

(* The schema's bytes are their number and those of the columns.           *)
LEMMA SchemaBytes ==
  ASSUME NEW cols \in Seq(Columns)
  PROVE  \E out :
      /\ Prefixes(Byte, Len(cols), [c \in 1 .. Len(cols) |-> column_bytes(cols[c])], out)
                  /\ out[0] = <<Len(cols) % BYTE>> /\ serialize(cols) = out[Len(cols)]
<1> DEFINE L == Len(cols)
           part == [c \in 1 .. L |-> column_bytes(cols[c])]
           base == <<Len(cols) % BYTE>>
           Q(f) == [i \in 0 .. L |-> IF i = 0 THEN base ELSE f[i - 1] \o column_bytes(cols[i])]
           g == CHOOSE f : f = Q(f)
<1>1. L \in Nat /\ \A c \in 1 .. L : cols[c] \in Columns
  BY LenProperties, ElementOfSeq
<1>2. part \in [1 .. L -> Seq(Byte)] /\ base \in Seq(Byte)
  <2>1. L % BYTE \in Byte
    <3> HIDE DEF L
    <3> QED BY <1>1, Widths, Division DEF Byte
  <2>2. \A c \in 1 .. L : column_bytes(cols[c]) \in Seq(Byte)
    BY <1>1, ColumnBytes
  <2> QED BY <2>1, <2>2
<1>3. PICK f : /\ f = [i \in 0 .. L |-> IF i = 0 THEN base ELSE f[i - 1] \o part[i]]
               /\ Prefixes(Byte, L, part, f)
  <2> HIDE DEF part, base, L
  <2> QED BY <1>1, <1>2, Concatenation
<1>4. f = Q(f)
  <2>1. \A i \in 0 .. L : i # 0 => part[i] = column_bytes(cols[i])
    OBVIOUS
  <2> HIDE DEF part, base
  <2> QED BY <1>3, <2>1
<1>5. g = Q(g)
  <2> HIDE DEF Q
  <2> QED BY <1>4
<1>6. serialize(cols) = g[L]
  BY DEF serialize
<1>7. f[L] = g[L]
  <2> HIDE DEF g, base, L, part
  <2>1. f[0] = g[0]
    BY <1>1, <1>4, <1>5
  <2>2. ASSUME NEW i \in 1 .. L, f[i - 1] = g[i - 1] PROVE f[i] = g[i]
    <3>1. i \in 0 .. L /\ i # 0
      BY <1>1
    <3> QED BY <1>4, <1>5, <2>2, <3>1
  <2>3. \A i \in 0 .. L : f[i] = g[i]
    BY <1>1, <2>1, <2>2, SameLoop
  <2> QED BY <1>1, <2>3
<1>8. f[0] = base
  BY <1>1, <1>4
<1> HIDE DEF g
<1> QED BY <1>3, <1>6, <1>7, <1>8

(* deserialize gives back the schema that serialize was given, if its      *)
(* number of columns and its names fit in their fields.                    *)
LEMMA SchemaReadsBack ==
  ASSUME NEW cols \in Seq(Columns), SchemaFits(cols)
  PROVE  serialize(cols) \in Seq(Byte) /\ deserialize(serialize(cols)) = cols
<1> DEFINE L == Len(cols)
           part == [c \in 1 .. L |-> column_bytes(cols[c])]
           mem == serialize(cols)
           Step(s, i) == IF s.pos > Len(mem) THEN s
                         ELSE [cols |-> Append(s.cols, read_column(mem, s.pos)),
                               pos  |-> s.pos + 4 + mem[s.pos + 3]]
           Bottom == [cols |-> <<>>, pos |-> 2]
           To(f) == [i \in 0 .. mem[1] |-> IF i = 0 THEN Bottom ELSE Step(f[i - 1], i)]
           g == CHOOSE f : f = To(f)
<1>0. L \in Nat /\ L < BYTE /\ DOMAIN cols = 1 .. L /\ \A c \in 1 .. L : cols[c] \in Columns
    /\ Len(cols[c].name) < BYTE
  BY LenProperties, ElementOfSeq DEF SchemaFits
<1>1. PICK out : Prefixes(Byte, L, part, out) /\ out[0] = <<L % BYTE>> /\ mem = out[L]
  BY SchemaBytes
<1>2. mem \in Seq(Byte) /\ Len(mem) \in Nat
  <2>1. mem \in Seq(Byte)
    BY <1>1, <1>0 DEF Prefixes
  <2> QED BY <2>1, LenProperties
<1>3. L % BYTE = L
  <2> HIDE DEF L
  <2>1. L \div BYTE \in Int /\ L % BYTE \in 0 .. BYTE - 1 /\ L = BYTE * (L \div BYTE) + (L % BYTE)
    BY <1>0, Widths, Division
  <2>2. BYTE * (L \div BYTE) + (L % BYTE) = BYTE * 0 + L
    BY <2>1, <1>0, Widths
  <2>3. L \in 0 .. BYTE - 1 /\ L \in Int /\ BYTE \in Nat \ {0} /\ 0 \in Int
    BY <1>0, Widths
  <2> QED BY <2>1, <2>2, <2>3, DivisionUnique
<1>4. ASSUME NEW c \in 1 .. L
      PROVE  /\ At(mem, End(out, c - 1) + 1, column_bytes(cols[c]))
             /\ End(out, c - 1) \in Nat
             /\ Len(cols[c].name) \in Nat
             /\ End(out, c) = End(out, c - 1) + (Len(cols[c].name) + 4)
             /\ End(out, c - 1) + 1 <= Len(mem)
  <2>1. cols[c] \in Columns
    BY <1>0
  <2>2. /\ part[c] = column_bytes(cols[c])
        /\ End(part, c) = Len(cols[c].name) + 4 /\ Len(cols[c].name) \in Nat
    BY <2>1, ColumnBytes DEF End
  <2>3. /\ At(mem, End(out, c - 1) + 1, part[c])
        /\ End(out, c - 1) \in Nat /\ End(part, c) \in Nat
        /\ End(out, c) = End(out, c - 1) + End(part, c)
    <3> HIDE DEF part, L, mem
    <3>1. Prefixes(Byte, L, part, out) /\ c \in 1 .. L /\ out[L] = mem
      BY <1>1
    <3> QED BY <3>1, PartIsAt
  <2>4. End(out, c - 1) + 1 <= Len(mem)
    <3> HIDE DEF part, mem
    <3>1. End(out, c - 1) + 1 + End(part, c) <= Len(mem) + 1
      BY <2>3 DEF At, End
    <3> QED BY <3>1, <2>2, <2>3, <1>2
  <2> HIDE DEF part, mem
  <2> QED BY <2>1, <2>2, <2>3, <2>4
<1>5. mem[1] = L
  <2>1. CASE L = 0
    <3>1. mem = <<L % BYTE>>
      BY <1>1, <2>1
    <3> HIDE DEF mem
    <3> QED BY <3>1, <1>3
  <2>2. CASE L # 0
    <3> DEFINE Bad == {i \in 0 .. L : ~(Len(out[i]) \in Nat \ {0} /\ out[i][1] = L)}
    <3>0. out \in [0 .. L -> Seq(Byte)] /\ part \in [1 .. L -> Seq(Byte)]
          /\ \A i \in 1 .. L : out[i] = out[i - 1] \o part[i]
      BY <1>1 DEF Prefixes
    <3> HIDE DEF L, part, mem
    <3>1. Bad = {}
      <4>1. SUFFICES ASSUME Bad # {} PROVE FALSE
        OBVIOUS
      <4>2. PICK i \in Bad : \A b \in Bad : i <= b
        <5>1. Bad \in SUBSET Nat
          OBVIOUS
        <5> HIDE DEF Bad
        <5> QED BY <4>1, <5>1, LeastNumber
      <4>3. i # 0
        <5>1. Len(out[0]) \in Nat \ {0} /\ out[0][1] = L
          BY <1>1, <1>3
        <5> QED BY <4>2, <5>1
      <4>4. i - 1 \in 0 .. L /\ ~(i <= i - 1) /\ i \in 0 .. L /\ i \in 1 .. L
        BY <4>2, <4>3, <1>0
      <4> DEFINE s == out[i - 1]
                 t == part[i]
      <4>5. s \in Seq(Byte) /\ t \in Seq(Byte) /\ out[i] = s \o t
        BY <3>0, <4>4
      <4>6. Len(s) \in Nat \ {0} /\ s[1] = L
        BY <4>2, <4>4
      <4> HIDE DEF s, t
      <4>7. Len(s \o t) \in Nat \ {0} /\ (s \o t)[1] = s[1]
        <5>1. Len(t) \in Nat
          BY <4>5, LenProperties
        <5>2. 1 \in 1 .. Len(s) + Len(t) /\ 1 <= Len(s)
          BY <5>1, <4>6
        <5> QED BY <5>1, <5>2, <4>5, <4>6, ConcatProperties
      <4> QED BY <4>2, <4>4, <4>5, <4>6, <4>7
    <3> QED BY <1>0, <1>1, <3>1
  <2> QED BY <2>1, <2>2
<1> DEFINE h == [i \in 0 .. L |-> [cols |-> [b \in 1 .. i |-> cols[b]], pos |-> End(out, i) + 1]]
<1>6. h[0] = Bottom
  <2>1. [b \in 1 .. 0 |-> cols[b]] = <<>>
    OBVIOUS
  <2>2. End(out, 0) = 1
    BY <1>1 DEF End
  <2> QED BY <2>1, <2>2, <1>0
<1>7. ASSUME NEW i \in 1 .. L PROVE h[i] = Step(h[i - 1], i)
  <2> DEFINE s == h[i - 1]
             c == cols[i]
  <2>1. i - 1 \in 0 .. L /\ i \in 0 .. L /\ i - 1 \in Nat
    BY <1>0, <1>7
  <2>2. s.cols = [b \in 1 .. i - 1 |-> cols[b]] /\ s.pos = End(out, i - 1) + 1
    BY <2>1
  <2>3. Append(s.cols, c) = [b \in 1 .. i |-> cols[b]]
    BY <2>1, <2>2
  <2>4. read_column(mem, s.pos) = c /\ mem[s.pos + 3] = Len(c.name)
    <3>1. c \in Columns /\ Len(c.name) < BYTE /\ At(mem, s.pos, column_bytes(c))
      BY <1>0, <1>4, <2>2
    <3> HIDE DEF s, c, mem
    <3> QED BY <3>1, <1>2, ColumnReads
  <2>5. h[i] = [cols |-> Append(s.cols, c), pos |-> s.pos + 4 + Len(c.name)]
    <3>1. h[i] = [cols |-> [b \in 1 .. i |-> cols[b]], pos |-> End(out, i) + 1]
      BY <2>1
    <3>2. End(out, i) + 1 = s.pos + 4 + Len(c.name)
      <4> DEFINE m == End(out, i - 1)
                 n == Len(c.name)
      <4>1. m \in Nat /\ n \in Nat /\ End(out, i) = m + (n + 4) /\ s.pos = m + 1
        BY <1>4, <2>2
      <4> HIDE DEF m, n, s
      <4>2. End(out, i) + 1 = s.pos + 4 + n
        BY <4>1
      <4> QED BY <4>2 DEF n
    <3> HIDE DEF h, s
    <3> QED BY <2>3, <3>1, <3>2
  <2>6. ~(s.pos > Len(mem))
    <3>1. End(out, i - 1) + 1 <= Len(mem) /\ End(out, i - 1) \in Nat
      BY <1>4
    <3> HIDE DEF s, mem
    <3> QED BY <3>1, <2>2, <1>2
  <2> HIDE DEF s, h, mem, c
  <2>7. Step(s, i) = h[i]
    BY <2>4, <2>5, <2>6
  <2> QED BY <2>7 DEF s
<1>8. h = To(h)
  <2>1. h = [i \in 0 .. L |-> h[i]]
    OBVIOUS
  <2>2. \A i \in 0 .. L : i # 0 => i \in 1 .. L
    BY <1>0
  <2> HIDE DEF h, Step, Bottom, mem
  <2>3. h = [i \in 0 .. L |-> IF i = 0 THEN Bottom ELSE Step(h[i - 1], i)]
    BY <2>1, <2>2, <1>6, <1>7
  <2> QED BY <2>3, <1>5
<1>9. g = To(g)
  <2> HIDE DEF h, To
  <2> QED BY <1>8
<1>10. g[L] = h[L]
  <2> HIDE DEF g, h, Step, Bottom, mem
  <2>1. g[0] = h[0]
    BY <1>0, <1>5, <1>6, <1>9
  <2>2. ASSUME NEW i \in 1 .. L, g[i - 1] = h[i - 1] PROVE g[i] = h[i]
    <3>1. i \in 0 .. mem[1] /\ i # 0
      BY <1>0, <1>5
    <3>2. g[i] = Step(g[i - 1], i)
      BY <1>9, <3>1
    <3> QED BY <3>2, <2>2, <1>7
  <2>3. L \in Nat
    BY <1>0
  <2> HIDE DEF L
  <2>4. \A i \in 1 .. L : g[i - 1] = h[i - 1] => g[i] = h[i]
    BY ONLY <2>2
  <2>5. \A i \in 0 .. L : g[i] = h[i]
    BY ONLY <2>1, <2>3, <2>4, SameLoop
  <2> QED BY <2>3, <2>5
<1>11. deserialize(mem) = g[mem[1]].cols
  BY DEF deserialize
<1>12. h[L].cols = cols
  <2>1. cols = [b \in 1 .. L |-> cols[b]]
    BY <1>0
  <2>2. h[L].cols = [b \in 1 .. L |-> cols[b]]
    BY <1>0
  <2> QED BY <2>1, <2>2
<1> HIDE DEF g, h, mem
<1>13. deserialize(mem) = cols
  BY <1>5, <1>10, <1>11, <1>12
<1> QED BY <1>2, <1>13 DEF mem

-----------------------------------------------------------------------------
(* Tables as files.                                                        *)

(* The bytes of rows that fit, and the files of tables with these columns. *)
StoredRow(cols) ==
  {serialize_row(cols, row) : row \in {r \in Rows(cols) : Len(serialize_row(cols, r)) < WORD}}
TableFile(cols) == [schema : {serialize(cols)}, rows : Seq(StoredRow(cols) \cup {Gone})]

(* Every file is that of a table, with the schema in memory if it is open. *)
Files ==
  /\ files = [n \in Name |-> files[n]] /\ tables_ = [n \in DOMAIN tables_ |-> tables_[n]]
  /\ \A n \in DOMAIN tables_ : n \in Name /\ files[n] # NoTable
  /\ \A n \in Name : files[n] # NoTable =>
       \E cols \in Schema[n] :
         files[n] \in TableFile(cols) /\ (n \in DOMAIN tables_ => tables_[n] = cols)

(* A schema that CREATE asks for is one that is read back.                 *)
LEMMA SchemaKept ==
  ASSUME NEW n \in Name, NEW cols \in Schema[n]
  PROVE  /\ cols \in Seq(Columns) /\ Len(cols) \in Nat /\ DOMAIN cols = 1 .. Len(cols)
         /\ Len(cols) < BYTE
         /\ \A c \in 1 .. Len(cols) : cols[c].type \in {"INT", "TEXT"}
         /\ serialize(cols) \in Seq(Byte) /\ deserialize(serialize(cols)) = cols
<1>1. Engine!IsSeq(cols) /\ SchemaFits(cols)
  BY TablesAssumption, LimitsAssumption
<1>2. Len(cols) \in Nat /\ DOMAIN cols = 1 .. Len(cols) /\ cols = [c \in 1 .. Len(cols) |-> cols[c]]
  BY <1>1, LenProperties DEF Engine!IsSeq
<1>3. ASSUME NEW c \in DOMAIN cols PROVE cols[c] \in Columns
  <2>1. /\ cols[c] = [name |-> cols[c].name, type |-> cols[c].type, max_len |-> cols[c].max_len]
        /\ cols[c].name \in Seq(DOMAIN Code) /\ cols[c].type \in {"INT", "TEXT"}
        /\ cols[c].max_len \in Nat
    BY TablesAssumption
  <2>2. cols[c].max_len < WORD
    BY <1>1 DEF SchemaFits
  <2>3. cols[c].max_len \in 0 .. WORD - 1
    BY <2>1, <2>2, Widths
  <2> QED BY <2>1, <2>3 DEF Columns
<1>4. cols \in Seq(Columns)
  <2>1. cols \in [1 .. Len(cols) -> Columns]
    BY <1>2, <1>3
  <2> QED BY <1>2, <2>1, IsASeq
<1>5. \A c \in 1 .. Len(cols) : cols[c].type \in {"INT", "TEXT"}
  BY <1>2, <1>3 DEF Columns
<1>6. Len(cols) < BYTE
  BY <1>1 DEF SchemaFits
<1> QED BY <1>1, <1>2, <1>4, <1>5, <1>6, SchemaReadsBack

(* A row that is stored is a sequence of bytes and is read back.           *)
LEMMA RowKept ==
  ASSUME NEW n \in Name, NEW cols \in Schema[n], NEW row \in Rows(cols),
         Len(serialize_row(cols, row)) < WORD
  PROVE  /\ serialize_row(cols, row) \in Seq(Byte) /\ serialize_row(cols, row) # Gone
         /\ serialize_row(cols, row) \in StoredRow(cols)
         /\ stored(serialize_row(cols, row)) = serialize_row(cols, row)
         /\ deserialize_row(cols, serialize_row(cols, row)) = row /\ row # Gone
<1>1. Len(cols) \in Nat
  BY SchemaKept
<1>2. serialize_row(cols, row) \in Seq(Byte)
  <2>1. PICK out : /\ Prefixes(Byte, Len(cols),
                              [c \in 1 .. Len(cols) |-> serialize_value(cols[c].type, row[c])], out)
                  /\ out[0] = <<>> /\ serialize_row(cols, row) = out[Len(cols)]
    BY <1>1, RowBytes
  <2> QED BY <2>1, <1>1 DEF Prefixes
<1>3. serialize_row(cols, row) # Gone /\ row # Gone
  <2>1. Seq(Byte) \subseteq Engine!Row
    <3>1. Byte \subseteq Int \cup Seq(DOMAIN Code)
      BY Widths DEF Byte
    <3> QED BY <3>1, SeqMonotonic DEF Engine!Row
  <2>2. row \in Engine!Row
    <3>1. row \in [1 .. Len(cols) -> Int \cup Seq(DOMAIN Code)]
      BY DEF Rows, Int32
    <3> QED BY <1>1, <3>1, IsASeq DEF Engine!Row
  <2> QED BY <1>2, <2>1, <2>2, MarkersAssumption
<1>4. serialize_row(cols, row) \in StoredRow(cols)
  BY DEF StoredRow
<1> QED BY <1>1, <1>2, <1>3, <1>4, RowReadsBack

(* What the engine sees of a table's file.                                 *)
LEMMA FileIs ==
  ASSUME Files, NEW n \in Name, files[n] # NoTable
  PROVE  /\ schema_of(n) \in Schema[n] /\ files[n] \in TableFile(schema_of(n))
         /\ n \in DOMAIN tables_ => tables_[n] = schema_of(n)
         /\ files[n].schema = serialize(schema_of(n))
         /\ files[n].rows \in Seq(StoredRow(schema_of(n)) \cup {Gone})
         /\ Len(files[n].rows) \in Nat /\ DOMAIN files[n].rows = 1 .. Len(files[n].rows)
<1>1. PICK cols \in Schema[n] :
         files[n] \in TableFile(cols) /\ (n \in DOMAIN tables_ => tables_[n] = cols)
  BY DEF Files
<1>2. /\ files[n].schema = serialize(cols) /\ files[n].rows \in Seq(StoredRow(cols) \cup {Gone})
  BY <1>1 DEF TableFile
<1>3. schema_of(n) = cols
  BY <1>1, <1>2, SchemaKept DEF schema_of
<1>4. Len(files[n].rows) \in Nat /\ DOMAIN files[n].rows = 1 .. Len(files[n].rows)
  BY <1>2, LenProperties
<1> QED BY <1>1, <1>2, <1>3, <1>4

(* The rows of a file as the engine sees them.                             *)
RowsRead(cols, rows) ==
  [i \in DOMAIN rows |-> IF rows[i] = Gone THEN Gone ELSE deserialize_row(cols, rows[i])]

(* The table the engine sees in a file: the decoded schema and rows.       *)
LEMMA TableSeen ==
  ASSUME NEW n \in Name
  PROVE  /\ tables[n] = IF files[n] = NoTable THEN NoTable
                        ELSE [schema |-> schema_of(n),
                              rows |-> RowsRead(schema_of(n), files[n].rows)]
         /\ DOMAIN tables = Name
BY DEF tables, RowsRead

(* A row that is stored is read as one of its schema.                      *)
LEMMA RowRead ==
  ASSUME NEW n \in Name, NEW cols \in Schema[n], NEW b \in StoredRow(cols)
  PROVE  /\ b \in Seq(Byte) /\ b # Gone
         /\ deserialize_row(cols, b) \in Rows(cols) /\ deserialize_row(cols, b) # Gone
<1>1. PICK row \in Rows(cols) : Len(serialize_row(cols, row)) < WORD /\ b = serialize_row(cols, row)
  BY DEF StoredRow
<1> QED BY <1>1, RowKept

(* The same, for a file that holds a table.                                *)
LEMMA TableSeenIs ==
  ASSUME Files, NEW n \in Name, files[n] # NoTable
  PROVE  /\ tables[n] # NoTable
         /\ tables[n] = [schema |-> schema_of(n), rows |-> RowsRead(schema_of(n), files[n].rows)]
         /\ tables[n].schema = schema_of(n)
         /\ tables[n].rows = RowsRead(schema_of(n), files[n].rows)
         /\ DOMAIN tables[n].rows = 1 .. Len(files[n].rows)
         /\ Len(tables[n].rows) = Len(files[n].rows)
<1> DEFINE s == schema_of(n)
           rows == files[n].rows
           R == RowsRead(s, rows)
<1>1. s \in Schema[n] /\ rows \in Seq(StoredRow(s) \cup {Gone}) /\ Len(rows) \in Nat
      /\ DOMAIN rows = 1 .. Len(rows)
  BY FileIs
<1>2. tables[n] = [schema |-> s, rows |-> R]
  BY TableSeen
<1> HIDE DEF s, rows
<1>3. ASSUME NEW i \in 1 .. Len(rows) PROVE R[i] \in Engine!Row \cup {Gone}
  <2>1. rows[i] = Gone \/ rows[i] \in StoredRow(s)
    BY <1>1, ElementOfSeq
  <2>2. ASSUME rows[i] # Gone PROVE deserialize_row(s, rows[i]) \in Engine!Row
    <3>1. deserialize_row(s, rows[i]) \in Rows(s)
      BY <1>1, <2>1, <2>2, RowRead
    <3>2. deserialize_row(s, rows[i]) \in [1 .. Len(s) -> Int \cup Seq(DOMAIN Code)]
      BY <3>1 DEF Rows, Int32
    <3> QED BY <1>1, <3>2, SchemaKept, IsASeq DEF Engine!Row
  <2> QED BY <1>1, <2>2 DEF RowsRead
<1>4. R \in Seq(Engine!Row \cup {Gone}) /\ Len(R) = Len(rows) /\ DOMAIN R = 1 .. Len(rows)
  <2>1. R \in [1 .. Len(rows) -> Engine!Row \cup {Gone}]
    BY <1>1, <1>3 DEF RowsRead
  <2> QED BY <1>1, <2>1, IsASeq, LenProperties
<1> HIDE DEF R
<1>5. tables[n] \in [schema : UNION {Schema[m] : m \in Name}, rows : Seq(Engine!Row \cup {Gone})]
  BY <1>1, <1>2, <1>4
<1>6. tables[n] # NoTable
  BY <1>5, MarkersAssumption
<1> QED BY <1>2, <1>4, <1>6 DEF s, rows, R

(* A file of a table holds bytes.                                          *)
LEMMA TableFileIs ==
  ASSUME NEW n \in Name, NEW cols \in Schema[n], NEW f \in TableFile(cols)
  PROVE  f # NoTable /\ f.schema \in Seq(Byte) /\ f.rows \in Seq(Seq(Byte) \cup {Gone})
<1>1. serialize(cols) \in Seq(Byte)
  BY SchemaKept
<1>2. StoredRow(cols) \cup {Gone} \subseteq Seq(Byte) \cup {Gone}
  BY RowRead
<1>3. Seq(StoredRow(cols) \cup {Gone}) \subseteq Seq(Seq(Byte) \cup {Gone})
  BY <1>2, SeqMonotonic
<1>4. f \in [schema : Seq(Byte), rows : Seq(Seq(Byte) \cup {Gone})]
  BY <1>1, <1>3 DEF TableFile
<1>5. f # NoTable
  BY <1>4, MarkersAssumption DEF Byte
<1> QED BY <1>4, <1>5

(* Opening tables that exist changes nothing that the engine sees.         *)
LEMMA SameTables ==
  ASSUME Files, files' = files, tables_' = [n \in DOMAIN tables_' |-> tables_'[n]],
         \A n \in DOMAIN tables_' : n \in Name /\ files[n] # NoTable /\ tables_'[n] = schema_of(n)
  PROVE  Files' /\ tables' = tables
<1>1. ASSUME NEW n \in Name, files[n] # NoTable PROVE schema_of(n)' = schema_of(n)
  <2>1. schema_of(n) \in Schema[n] /\ files[n].schema = serialize(schema_of(n))
    BY <1>1, FileIs
  <2>2. deserialize(files'[n].schema) = schema_of(n)
    BY <2>1, SchemaKept
  <2> QED BY <1>1, <2>2 DEF schema_of
<1>2. tables' = tables
  BY <1>1 DEF tables
<1>3. ASSUME NEW n \in Name, files'[n] # NoTable
      PROVE  \E cols \in Schema[n] :
               files'[n] \in TableFile(cols) /\ (n \in DOMAIN tables_' => tables_'[n] = cols)
  <2>1. schema_of(n) \in Schema[n] /\ files[n] \in TableFile(schema_of(n))
    BY <1>3, FileIs
  <2> QED BY <2>1
<1>4. Files'
  BY <1>3 DEF Files
<1> QED BY <1>2, <1>4

(* The tables that open_table finds, one name after the other.             *)
Found(names) == {names[i] : i \in {j \in DOMAIN names : \A k \in 1 .. j : Existing(names[k])}}

(* Opening tables reads each one's schema back from its file, up to the    *)
(* first name there is no file for.                                        *)
LEMMA OpenTables ==
  ASSUME Files, NEW names \in Seq(Name)
  PROVE  /\ open_tables(names) = [n \in DOMAIN tables_ \cup Found(names) |-> schema_of(n)]
         /\ DOMAIN open_tables(names) = DOMAIN tables_ \cup Found(names)
         /\ \A n \in DOMAIN open_tables(names) :
              n \in Name /\ files[n] # NoTable /\ open_tables(names)[n] = schema_of(n)
<1>1. open_tables(names) = [n \in DOMAIN tables_ \cup Found(names) |-> schema_of(n)]
  BY DEF open_tables, Found
<1>2. \A n \in Found(names) : n \in Name /\ files[n] # NoTable
  <2>1. ASSUME NEW i \in DOMAIN names, \A k \in 1 .. i : Existing(names[k])
        PROVE  Existing(names[i])
    <3>1. i \in 1 .. i
      BY LenProperties
    <3> QED BY <2>1, <3>1
  <2> QED BY <2>1 DEF Found, Existing
<1>3. \A n \in DOMAIN tables_ : n \in Name /\ files[n] # NoTable
  BY DEF Files
<1> QED BY <1>1, <1>2, <1>3

(* Opening tables changes nothing of what the engine sees.                 *)
LEMMA Opened ==
  ASSUME Files, NEW names \in Seq(Name), tables_' = open_tables(names), files' = files
  PROVE  Files' /\ tables' = tables /\ (DOMAIN tables_)' = DOMAIN tables_ \cup Found(names)
<1>1. /\ tables_' = [n \in DOMAIN tables_ \cup Found(names) |-> schema_of(n)]
      /\ DOMAIN tables_' = DOMAIN tables_ \cup Found(names)
      /\ \A n \in DOMAIN tables_' : n \in Name /\ files[n] # NoTable /\ tables_'[n] = schema_of(n)
  BY OpenTables
<1> QED BY <1>1, SameTables

(* Rows of a table that exists are changed.                                *)
LEMMA RowsChanged ==
  ASSUME Files, NEW n \in Name, files[n] # NoTable,
         NEW rows \in Seq(StoredRow(schema_of(n)) \cup {Gone}),
         files' = [files EXCEPT ![n].rows = rows], tables_' = open_tables(<<n>>)
  PROVE  /\ Files' /\ (DOMAIN tables_)' = DOMAIN tables_ \cup {n}
         /\ tables' = [tables EXCEPT ![n].rows = RowsRead(schema_of(n), rows)]
<1> DEFINE s == schema_of(n)
<1>1. <<n>> \in Seq(Name) /\ Found(<<n>>) = {n}
  BY DEF Found, Existing
<1>2. /\ tables_' = [m \in DOMAIN tables_ \cup {n} |-> schema_of(m)]
      /\ DOMAIN tables_' = DOMAIN tables_ \cup {n}
      /\ \A m \in DOMAIN tables_' : m \in Name /\ files[m] # NoTable /\ tables_'[m] = schema_of(m)
  BY <1>1, OpenTables
<1>3. /\ s \in Schema[n] /\ files[n].schema = serialize(s) /\ files[n] \in TableFile(s)
      /\ DOMAIN files = Name
  BY FileIs DEF Files
<1>4. files'[n] = [schema |-> serialize(s), rows |-> rows]
      /\ \A m \in Name \ {n} : files'[m] = files[m]
  <2>1. files'[n] = [files[n] EXCEPT !.rows = rows] /\ \A m \in Name \ {n} : files'[m] = files[m]
    BY <1>3
  <2>2. files[n] = [schema |-> files[n].schema, rows |-> files[n].rows]
    BY <1>3 DEF TableFile
  <2> QED BY <1>3, <2>1, <2>2
<1>5. files'[n] \in TableFile(s) /\ files'[n] # NoTable
  <2>1. files'[n] \in TableFile(s)
    BY <1>4 DEF TableFile
  <2> QED BY <1>3, <2>1, TableFileIs
<1>6. ASSUME NEW m \in Name, files[m] # NoTable PROVE schema_of(m)' = schema_of(m)
  <2>1. schema_of(m) \in Schema[m] /\ files[m].schema = serialize(schema_of(m))
    BY <1>6, FileIs
  <2>2. files'[m].schema = files[m].schema
    BY <1>3, <1>4
  <2>3. deserialize(files'[m].schema) = schema_of(m)
    BY <2>1, <2>2, SchemaKept
  <2> QED BY <1>2, <2>3 DEF schema_of
<1>7. Files'
  <2>1. files' = [m \in Name |-> files'[m]] /\ tables_' = [m \in DOMAIN tables_' |-> tables_'[m]]
    BY <1>2 DEF Files
  <2>2. \A m \in DOMAIN tables_' : m \in Name /\ files'[m] # NoTable
    BY <1>2, <1>4, <1>5
  <2>3. ASSUME NEW m \in Name, files'[m] # NoTable
        PROVE  \E cols \in Schema[m] :
                 files'[m] \in TableFile(cols) /\ (m \in DOMAIN tables_' => tables_'[m] = cols)
    <3>1. CASE m = n
      BY <3>1, <1>2, <1>3, <1>5
    <3>2. CASE m # n
      <4>1. files[m] # NoTable /\ files'[m] = files[m]
        BY <1>4, <2>3, <3>2
      <4>2. schema_of(m) \in Schema[m] /\ files[m] \in TableFile(schema_of(m))
        BY <4>1, FileIs
      <4> QED BY <1>2, <4>1, <4>2
    <3> QED BY <3>1, <3>2
  <2> QED BY <2>1, <2>2, <2>3 DEF Files
<1>8. tables' = [tables EXCEPT ![n].rows = RowsRead(s, rows)]
  <2>1. /\ tables[n] = [schema |-> s, rows |-> RowsRead(s, files[n].rows)] /\ DOMAIN tables = Name
        /\ tables = [m \in Name |-> tables[m]]
    BY TableSeenIs DEF tables
  <2>2. tables' = [m \in Name |-> tables'[m]]
    BY DEF tables
  <2>3. tables'[n] = [schema |-> s, rows |-> RowsRead(s, rows)]
    <3>1. schema_of(n)' = s
      BY <1>6
    <3> QED BY <1>4, <1>5, <3>1 DEF tables, RowsRead
  <2>4. ASSUME NEW m \in Name \ {n} PROVE tables'[m] = tables[m]
    <3>1. files'[m] = files[m]
      BY <1>4
    <3>2. files[m] # NoTable => schema_of(m)' = schema_of(m)
      BY <1>6
    <3> QED BY <3>1, <3>2 DEF tables
  <2>5. [tables EXCEPT ![n].rows = RowsRead(s, rows)]
          = [tables EXCEPT ![n] = [schema |-> s, rows |-> RowsRead(s, rows)]]
    <3> DEFINE X == RowsRead(s, rows)
               Y == RowsRead(s, files[n].rows)
               t == tables[n]
    <3>1. t = [schema |-> s, rows |-> Y]
      BY <2>1
    <3> HIDE DEF X, Y, t, s
    <3>2. [t EXCEPT !.rows = X] = [schema |-> s, rows |-> X]
      BY <3>1
    <3>3. [tables EXCEPT ![n].rows = X] = [tables EXCEPT ![n] = [t EXCEPT !.rows = X]]
      BY DEF t
    <3> QED BY <3>2, <3>3 DEF X
  <2> HIDE DEF s
  <2> QED BY <2>1, <2>2, <2>3, <2>4, <2>5
<1> QED BY <1>2, <1>7, <1>8
(* Min of a nonempty set of natural numbers, and Max of a bounded one, as  *)
(* the engine takes them, are members of it.                               *)
LEMMA EngineMin ==
  ASSUME NEW T \in SUBSET Nat, T # {}
  PROVE  Engine!Sets!Min(T) \in T /\ \A y \in T : Engine!Sets!Min(T) <= y
<1>1. \E x \in T : \A y \in T : x =< y
  BY LeastNumber
<1> QED BY <1>1 DEF Engine!Sets!Min

(* The greatest of some positions is one of them.                          *)
LEMMA EngineMax ==
  ASSUME NEW n \in Nat, NEW T \in SUBSET (1 .. n), T # {}
  PROVE  Engine!Sets!Max(T) \in T
<1> DEFINE D == {n - x : x \in T}
<1>1. D \in SUBSET Nat /\ D # {}
  <2>1. ASSUME NEW x \in T PROVE n - x \in Nat
    OBVIOUS
  <2> QED BY <2>1
<1>2. PICK d \in D : \A e \in D : d <= e
  <2> HIDE DEF D
  <2> QED BY <1>1, LeastNumber
<1>3. PICK x \in T : d = n - x
  BY <1>2
<1>4. ASSUME NEW y \in T PROVE x >= y
  <2>1. n - y \in D
    OBVIOUS
  <2> HIDE DEF D
  <2>2. n - x <= n - y
    BY <1>2, <1>3, <2>1
  <2>3. x \in Int /\ y \in Int
    OBVIOUS
  <2> QED BY ONLY n \in Nat, <2>2, <2>3
<1>5. \E z \in T : \A y \in T : z >= y
  BY <1>4
<1> QED BY <1>5 DEF Engine!Sets!Max

(* The number that a text reads as is one of those that can be written.    *)
LEMMA StoiIs ==
  ASSUME NEW v, stoi(v) # NaN
  PROVE  stoi(v) \in {Number[c] : c \in DOMAIN Number} /\ stoi(v) \in Int32
BY LimitsAssumption DEF stoi

(* 0, the value of an INT column left out, fits the column.                *)
LEMMA ZeroIs32 == 0 \in Int32
<1> DEFINE W == WORD * WORD
<1>1. W \in Nat /\ W >= 2
  BY Widths
<1> HIDE DEF W
<1>2. W \div 2 \in Nat /\ W \div 2 >= 1
  BY <1>1
<1> QED BY <1>2 DEF Int32, W

(* The values that an INSERT gives, and the column that each is for.       *)
LEMMA GivenIs ==
  ASSUME NEW q \in Inserts, Len(tables[q.table].schema) \in Nat
  PROVE  /\ Len(q.vals) \in Nat /\ DOMAIN q.vals = 1 .. Len(q.vals)
         /\ \E m \in Nat : Engine!Given(q) = 1 .. m /\ m <= Len(q.vals)
         /\ \A j \in Engine!Given(q) : q.vals[j] \in Seq(DOMAIN Code)
<1> DEFINE L == IF q.cols = <<>> THEN Len(tables[q.table].schema) ELSE Len(q.cols)
           m == Engine!Sets!Min({Len(q.vals), L})
<1>1. q.vals \in Seq(Seq(DOMAIN Code)) /\ Engine!IsSeq(q.cols)
  BY InsertsAssumption DEF IsColumns
<1>2. Len(q.vals) \in Nat /\ L \in Nat /\ DOMAIN q.vals = 1 .. Len(q.vals)
  BY <1>1, LenProperties DEF Engine!IsSeq
<1> HIDE DEF L
<1>3. m \in Nat /\ m <= Len(q.vals)
  BY <1>2, EngineMin
<1>4. Engine!Given(q) = 1 .. m
  BY DEF Engine!Given, L
<1> HIDE DEF m
<1>5. Engine!Given(q) \subseteq 1 .. Len(q.vals)
  BY <1>2, <1>3, <1>4
<1> QED BY <1>1, <1>2, <1>3, <1>4, <1>5, ElementOfSeq

(* The row that an INSERT makes has a value of its type in each column,    *)
(* and a text in it is one of the values of that column, or empty.         *)
LEMMA RowMade ==
  ASSUME NEW q \in Inserts, NEW s, s = tables[q.table].schema, Len(s) \in Nat,
         ~Engine!insert_throws(q)
  PROVE  /\ Engine!row_of(q) \in Rows(s)
         /\ \A c \in 1 .. Len(s) : s[c].type # "INT" =>
              \/ Engine!row_of(q)[c] = <<>>
              \/ \E j \in DOMAIN q.vals :
                   Engine!Target(q, j) = c /\ Engine!row_of(q)[c] = q.vals[j]
<1> DEFINE js(c) == {j \in Engine!Given(q) : Engine!Target(q, j) = c}
           value(c) == IF js(c) = {} THEN IF s[c].type # "INT" THEN <<>> ELSE 0
                       ELSE IF s[c].type # "INT" THEN q.vals[Engine!Sets!Max(js(c))]
                       ELSE stoi(q.vals[Engine!Sets!Max(js(c))])
           row == Engine!row_of(q)
<1>1. row = [c \in 1 .. Len(s) |-> value(c)]
  BY DEF Engine!row_of
<1>2. ASSUME NEW c \in 1 .. Len(s)
      PROVE  /\ value(c) \in Values(s[c].type) /\ value(c) \in Int32 \cup Seq(DOMAIN Code)
             /\ s[c].type # "INT" =>
                  value(c) = <<>> \/ \E j \in DOMAIN q.vals : Engine!Target(q, j) = c
                      /\ value(c) = q.vals[j]
  <2>1. CASE js(c) = {}
    BY <2>1, ZeroIs32, EmptySeq DEF Values
  <2>2. CASE js(c) # {}
    <3> DEFINE j == Engine!Sets!Max(js(c))
    <3>1. PICK m \in Nat : Engine!Given(q) = 1 .. m /\ m <= Len(q.vals)
      BY GivenIs
    <3>2. j \in js(c)
      <4>1. js(c) \subseteq 1 .. m
        BY <3>1
      <4> HIDE DEF js
      <4> QED BY <2>2, <4>1, EngineMax
    <3>3. j \in Engine!Given(q) /\ Engine!Target(q, j) = c /\ q.vals[j] \in Seq(DOMAIN Code)
          /\ j \in DOMAIN q.vals
      BY <3>1, <3>2, GivenIs
    <3> HIDE DEF j
    <3>4. s[c].type = "INT" => stoi(q.vals[j]) # NaN
      BY <3>3 DEF Engine!insert_throws
    <3>5. value(c) = IF s[c].type # "INT" THEN q.vals[j] ELSE stoi(q.vals[j])
      BY <2>2 DEF j
    <3> HIDE DEF value, js
    <3> QED BY <3>3, <3>4, <3>5, StoiIs DEF Values
  <2> QED BY <2>1, <2>2
<1> HIDE DEF value, row
<1>3. row \in Rows(s)
  BY <1>1, <1>2 DEF Rows
<1>4. \A c \in 1 .. Len(s) : row[c] = value(c)
  BY <1>1
<1> QED BY <1>2, <1>3, <1>4 DEF row

(* Each value is of one column.                                            *)
LEMMA CharsFinite ==
  ASSUME NEW texts, NEW n \in Nat, DOMAIN texts = 1 .. n,
         \A j \in 1 .. n : texts[j] \in Seq(DOMAIN Code)
  PROVE  IsFiniteSet(CharsOf(texts))
<1> DEFINE D == DOMAIN texts
           f == [j \in D |-> {j} \X DOMAIN texts[j]]
           T == {{j} \X DOMAIN texts[j] : j \in D}
<1>1. IsFiniteSet(D)
  BY FS_Interval
<1>2. f \in Surjection(D, T)
  BY DEF Surjection
<1>3. IsFiniteSet(T)
  <2> HIDE DEF f, T, D
  <2> QED BY <1>1, <1>2, FS_Surjection
<1>4. ASSUME NEW j \in D PROVE IsFiniteSet({j} \X DOMAIN texts[j])
  <2>1. DOMAIN texts[j] = 1 .. Len(texts[j]) /\ Len(texts[j]) \in Nat
    BY LenProperties
  <2>2. IsFiniteSet(DOMAIN texts[j])
    BY <2>1, FS_Interval
  <2> QED BY <2>2, FS_Singleton, FS_Product
<1>5. \A S \in T : IsFiniteSet(S)
  BY <1>4
<1>6. CharsOf(texts) = UNION T
  BY DEF CharsOf
<1> HIDE DEF T
<1> QED BY <1>3, <1>5, <1>6, FS_UNION
(* The characters of the values that go to the first c columns.            *)
Used(q, c) == {x \in CharsOf(q.vals) : Engine!Target(q, x[1]) \in 1 .. c}

(* The values of an INSERT that its columns take are no more than it has,  *)
(* so that the limit on its characters is a limit on the row.              *)
LEMMA UsedFinite ==
  ASSUME NEW q \in Inserts, NEW c
  PROVE  /\ IsFiniteSet(Used(q, c)) /\ Cardinality(Used(q, c)) \in Nat
         /\ IsFiniteSet(CharsOf(q.vals)) /\ Cardinality(CharsOf(q.vals)) \in Nat
         /\ Cardinality(Used(q, c)) <= Cardinality(CharsOf(q.vals))
<1>1. q.vals \in Seq(Seq(DOMAIN Code))
  BY InsertsAssumption
<1>2. Len(q.vals) \in Nat /\ DOMAIN q.vals = 1 .. Len(q.vals)
      /\ \A j \in 1 .. Len(q.vals) : q.vals[j] \in Seq(DOMAIN Code)
  BY <1>1, LenProperties, ElementOfSeq
<1>3. IsFiniteSet(CharsOf(q.vals))
  BY <1>2, CharsFinite
<1>4. Used(q, c) \in SUBSET CharsOf(q.vals)
  BY DEF Used
<1> QED BY <1>3, <1>4, FS_Subset, FS_CardinalityType

(* Each column takes new ones.                                             *)
LEMMA UsedGrows ==
  ASSUME NEW q \in Inserts, NEW c \in Nat \ {0}
  PROVE  /\ Cardinality(Used(q, c - 1)) <= Cardinality(Used(q, c))
         /\ \A j \in DOMAIN q.vals : Engine!Target(q, j) = c =>
              Cardinality(Used(q, c - 1)) + Len(q.vals[j]) <= Cardinality(Used(q, c))
<1> DEFINE A == Used(q, c - 1)
           B == Used(q, c)
<1>1. /\ IsFiniteSet(A) /\ Cardinality(A) \in Nat /\ IsFiniteSet(B) /\ Cardinality(B) \in Nat
  BY UsedFinite
<1>2. A \subseteq B
  BY DEF Used
<1>3. ASSUME NEW j \in DOMAIN q.vals, Engine!Target(q, j) = c
      PROVE  Cardinality(A) + Len(q.vals[j]) <= Cardinality(B)
  <2> DEFINE v == q.vals[j]
             N == {j} \X DOMAIN v
  <2>1. v \in Seq(DOMAIN Code)
    BY InsertsAssumption, ElementOfSeq, LenProperties
  <2>2. Len(v) \in Nat /\ DOMAIN v = 1 .. Len(v)
    BY <2>1, LenProperties
  <2>3. IsFiniteSet(DOMAIN v) /\ Cardinality(DOMAIN v) = Len(v)
    <3> DEFINE l == Len(v)
    <3>1. l \in Nat /\ DOMAIN v = 1 .. l
      BY <2>2
    <3> HIDE DEF l, v
    <3>2. IsFiniteSet(1 .. l) /\ Cardinality(1 .. l) = l
      BY <3>1, FS_Interval
    <3> QED BY <3>1, <3>2 DEF l
  <2>4. IsFiniteSet(N) /\ Cardinality(N) = 1 * Len(v)
    <3> HIDE DEF v
    <3>1. IsFiniteSet({j}) /\ Cardinality({j}) = 1
      BY FS_Singleton
    <3>2. IsFiniteSet({j} \X DOMAIN v)
        /\ Cardinality({j} \X DOMAIN v) = Cardinality({j}) * Cardinality(DOMAIN v)
      BY <3>1, <2>3, FS_Product
    <3> QED BY <3>1, <3>2, <2>3
  <2>5. N \subseteq CharsOf(q.vals)
    BY DEF CharsOf
  <2>6. \A x \in N : x[1] = j
    OBVIOUS
  <2>7. N \subseteq B
    BY <1>3, <2>5, <2>6 DEF Used
  <2>8. A \cap N = {}
    BY <1>3, <2>6 DEF Used
  <2> HIDE DEF A, B, N, v
  <2>9. IsFiniteSet(A \cup N)
        /\ Cardinality(A \cup N) = Cardinality(A) + Cardinality(N) - Cardinality({})
    BY <1>1, <2>4, <2>8, FS_Union
  <2>10. Cardinality(A \cup N) <= Cardinality(B)
    BY <1>1, <1>2, <2>7, FS_Subset
  <2>11. Cardinality({}) = 0
    BY FS_EmptySet
  <2>12. Cardinality(A) + Len(v) <= Cardinality(B)
    BY <1>1, <2>2, <2>4, <2>9, <2>10, <2>11
  <2> QED BY <2>12 DEF v
<1>4. Cardinality(A) <= Cardinality(B)
  BY <1>1, <1>2, FS_Subset
<1> QED BY <1>3, <1>4

(* So the bytes of the row that an INSERT makes fit in a 16-bit length.    *)
LEMMA RowIsShort ==
  ASSUME NEW q \in Inserts, NEW s, s = tables[q.table].schema, Len(s) \in Nat, Len(s) < BYTE,
         ~Engine!insert_throws(q)
  PROVE  Len(serialize_row(s, Engine!row_of(q))) < WORD
<1> DEFINE L == Len(s)
           row == Engine!row_of(q)
           part == [c \in 1 .. L |-> serialize_value(s[c].type, row[c])]
           U(c) == Cardinality(Used(q, c))
<1>0. row \in Rows(s)
  BY RowMade
<1>1. PICK out : Prefixes(Byte, L, part, out) /\ out[0] = <<>> /\ serialize_row(s, row) = out[L]
  <2> HIDE DEF row
  <2> QED BY <1>0, RowBytes
<1>2. \A c \in 0 .. L : U(c) \in Nat
  BY UsedFinite
<1>3. ASSUME NEW c \in 1 .. L
      PROVE  /\ End(out, c - 1) \in Nat /\ End(out, c) \in Nat
             /\ ValueLen(s[c].type, row[c]) \in Nat
             /\ End(out, c) = End(out, c - 1) + ValueLen(s[c].type, row[c])
  <2>1. row[c] \in Values(s[c].type)
    <3> HIDE DEF row
    <3> QED BY <1>0 DEF Rows
  <2>2. End(part, c) = ValueLen(s[c].type, row[c]) /\ ValueLen(s[c].type, row[c]) \in Nat
    <3> HIDE DEF row
    <3>1. part[c] = serialize_value(s[c].type, row[c])
      OBVIOUS
    <3> HIDE DEF part
    <3> QED BY <2>1, <3>1, ValueBytes DEF End
  <2> HIDE DEF part, L
  <2>3. Prefixes(Byte, L, part, out) /\ c \in 1 .. L
    BY <1>1
  <2>4. End(out, c - 1) \in Nat /\ End(out, c) \in Nat
      /\ End(out, c) = End(out, c - 1) + End(part, c)
    BY <2>3, PartIsAt
  <2> QED BY <2>2, <2>4
<1>4. ASSUME NEW c \in 1 .. L PROVE ValueLen(s[c].type, row[c]) <= 4 + U(c) - U(c - 1)
  <2>0. c \in Nat \ {0} /\ c - 1 \in 0 .. L /\ c \in 0 .. L
    BY <1>4
  <2>1. U(c - 1) <= U(c) /\ U(c) \in Nat /\ U(c - 1) \in Nat
    BY <1>2, <2>0, UsedGrows
  <2>2. CASE s[c].type = "INT"
    <3>1. ValueLen(s[c].type, row[c]) = 4
      BY <2>2 DEF ValueLen
    <3> HIDE DEF U, row
    <3> QED BY <2>1, <3>1
  <2>3. CASE s[c].type # "INT" /\ row[c] = <<>>
    <3>1. ValueLen(s[c].type, row[c]) = 2
      <4> HIDE DEF row
      <4> QED BY <2>3 DEF ValueLen
    <3> HIDE DEF U, row
    <3> QED BY <2>1, <3>1
  <2>4. CASE s[c].type # "INT" /\ \E j \in DOMAIN q.vals : Engine!Target(q, j) = c
      /\ row[c] = q.vals[j]
    <3>1. PICK j \in DOMAIN q.vals : Engine!Target(q, j) = c /\ row[c] = q.vals[j]
      BY <2>4
    <3>2. U(c - 1) + Len(row[c]) <= U(c)
      <4>1. U(c - 1) + Len(q.vals[j]) <= U(c)
        BY <2>0, <3>1, UsedGrows
      <4> HIDE DEF U, row
      <4> QED BY <3>1, <4>1
    <3>3. ValueLen(s[c].type, row[c]) = Len(row[c]) + 2 /\ ValueLen(s[c].type, row[c]) \in Nat
      BY <2>4, <1>3 DEF ValueLen
    <3>4. Len(row[c]) \in Nat
      <4>1. q.vals[j] \in Seq(DOMAIN Code)
        BY InsertsAssumption, ElementOfSeq, LenProperties
      <4> HIDE DEF row
      <4> QED BY <3>1, <4>1, LenProperties
    <3> DEFINE n == Len(row[c])
               w == ValueLen(s[c].type, row[c])
    <3>5. U(c - 1) + n <= U(c) /\ w = n + 2 /\ n \in Nat
      BY <3>2, <3>3, <3>4
    <3> HIDE DEF U, n, w
    <3>6. w <= 4 + U(c) - U(c - 1)
      BY <2>1, <3>5
    <3> QED BY <3>6 DEF w
  <2>5. s[c].type # "INT" => \/ row[c] = <<>>
                             \/ \E j \in DOMAIN q.vals : Engine!Target(q, j) = c
                                 /\ row[c] = q.vals[j]
    BY RowMade
  <2> QED BY <2>2, <2>3, <2>4, <2>5
<1> DEFINE Bad == {c \in 0 .. L : ~(End(out, c) <= 4 * c + U(c))}
<1> HIDE DEF U, row, part
<1>5. Bad = {}
  <2>1. SUFFICES ASSUME Bad # {} PROVE FALSE
    OBVIOUS
  <2>2. PICK c \in Bad : \A b \in Bad : c <= b
    <3>1. Bad \in SUBSET Nat
      OBVIOUS
    <3> HIDE DEF Bad
    <3> QED BY <2>1, <3>1, LeastNumber
  <2>3. End(out, 0) = 0
    BY <1>1 DEF End
  <2>4. c # 0
    <3>1. 0 \in 0 .. L /\ U(0) \in Nat
      BY <1>2
    <3> QED BY <2>2, <2>3, <3>1
  <2>5. c \in 1 .. L /\ c - 1 \in 0 .. L /\ ~(c <= c - 1) /\ c \in 0 .. L
    BY <2>2, <2>4
  <2>6. End(out, c - 1) <= 4 * (c - 1) + U(c - 1) /\ ~(End(out, c) <= 4 * c + U(c))
    BY <2>2, <2>5
  <2> DEFINE v == ValueLen(s[c].type, row[c])
  <2>7. /\ End(out, c - 1) \in Nat /\ End(out, c) \in Nat /\ v \in Nat
        /\ End(out, c) = End(out, c - 1) + v /\ v <= 4 + U(c) - U(c - 1)
    BY <1>3, <1>4, <2>5
  <2>8. U(c) \in Nat /\ U(c - 1) \in Nat
    BY <1>2, <2>5
  <2> HIDE DEF v
  <2> QED BY <2>5, <2>6, <2>7, <2>8
<1>6. L \in 0 .. L /\ L < BYTE
  OBVIOUS
<1>7. End(out, L) <= 4 * L + U(L) /\ U(L) \in Nat
  BY <1>2, <1>5, <1>6
<1>8. /\ U(L) <= Cardinality(CharsOf(q.vals)) /\ Cardinality(CharsOf(q.vals)) \in Nat
      /\ Cardinality(CharsOf(q.vals)) + 4 * BYTE < WORD
  BY UsedFinite, LimitsAssumption DEF U
<1>9. End(out, L) \in Nat
  <2>1. out[L] \in Seq(Byte)
    BY <1>1 DEF Prefixes
  <2> QED BY <2>1, LenProperties DEF End
<1>10. End(out, L) < WORD
  <2> DEFINE K == Cardinality(CharsOf(q.vals))
  <2>1. U(L) <= K /\ K \in Nat /\ K + 4 * BYTE < WORD
    BY <1>8
  <2> HIDE DEF K, L
  <2> QED BY <1>6, <1>7, <1>9, <2>1, Widths
<1> QED BY <1>1, <1>10 DEF End, row
(* A table that exists for the program exists for the engine.              *)
LEMMA ExistsIs ==
  ASSUME Files, NEW n \in Name
  PROVE  Existing(n) <=> Engine!Exists(n)
BY TableSeen, TableSeenIs DEF Existing, Engine!Exists

(* A new file is a new table with no row.                                  *)
LEMMA TableCreated ==
  ASSUME Files, NEW n \in Name, NEW cols \in Schema[n], files[n] = NoTable,
         files' = [files EXCEPT ![n] = [schema |-> serialize(cols), rows |-> <<>>]],
         tables_' = [m \in DOMAIN tables_ \cup {n} |-> IF m = n THEN cols ELSE tables_[m]]
  PROVE  /\ Files' /\ (DOMAIN tables_)' = DOMAIN tables_ \cup {n}
         /\ tables' = [tables EXCEPT ![n] = [schema |-> cols, rows |-> <<>>]]
<1> DEFINE f == [schema |-> serialize(cols), rows |-> <<>>]
<1>1. f \in TableFile(cols) /\ f # NoTable
  <2>1. f \in TableFile(cols)
    BY EmptySeq DEF TableFile
  <2> QED BY <2>1, TableFileIs
<1>2. DOMAIN files = Name /\ files'[n] = f /\ \A m \in Name \ {n} : files'[m] = files[m]
  BY DEF Files
<1>3. n \notin DOMAIN tables_
  BY DEF Files
<1>4. /\ DOMAIN tables_' = DOMAIN tables_ \cup {n} /\ tables_'[n] = cols
      /\ \A m \in DOMAIN tables_ : tables_'[m] = tables_[m]
  BY <1>3
<1>5. ASSUME NEW m \in Name \ {n}, files[m] # NoTable PROVE schema_of(m)' = schema_of(m)
  BY <1>2, <1>4, <1>5 DEF schema_of
<1>6. schema_of(n)' = cols
  BY <1>4 DEF schema_of
<1> HIDE DEF f
<1>7. Files'
  <2>1. files' = [m \in Name |-> files'[m]] /\ tables_' = [m \in DOMAIN tables_' |-> tables_'[m]]
    BY <1>4 DEF Files
  <2>2. \A m \in DOMAIN tables_' : m \in Name /\ files'[m] # NoTable
    BY <1>1, <1>2, <1>4 DEF Files
  <2>3. ASSUME NEW m \in Name, files'[m] # NoTable
        PROVE  \E s \in Schema[m] :
                 files'[m] \in TableFile(s) /\ (m \in DOMAIN tables_' => tables_'[m] = s)
    <3>1. CASE m = n
      BY <3>1, <1>1, <1>2, <1>4
    <3>2. CASE m # n
      BY <3>2, <2>3, <1>2, <1>4 DEF Files
    <3> QED BY <3>1, <3>2
  <2> QED BY <2>1, <2>2, <2>3 DEF Files
<1>8. tables' = [tables EXCEPT ![n] = [schema |-> cols, rows |-> <<>>]]
  <2>1. DOMAIN tables = Name /\ tables = [m \in Name |-> tables[m]]
        /\ tables' = [m \in Name |-> tables'[m]]
    BY DEF tables
  <2>2. tables'[n] = [schema |-> cols, rows |-> <<>>]
    <3>1. f.rows = <<>> /\ RowsRead(cols, <<>>) = <<>>
      BY DEF f, RowsRead
    <3> QED BY <1>1, <1>2, <1>6, <3>1 DEF tables, RowsRead
  <2>3. ASSUME NEW m \in Name \ {n} PROVE tables'[m] = tables[m]
    <3>1. files'[m] = files[m] /\ (files[m] # NoTable => schema_of(m)' = schema_of(m))
      BY <1>2, <1>5
    <3> QED BY <3>1 DEF tables
  <2> QED BY <2>1, <2>2, <2>3
<1> QED BY <1>4, <1>7, <1>8

(* CREATE TABLE is that of the engine.                                     *)
LEMMA CreateIs ==
  ASSUME Files, NEW n \in Name, NEW cols \in Schema[n], Create([table |-> n, cols |-> cols])
  PROVE  Files' /\ Engine!Create(n)
<1> DEFINE q == [table |-> n, cols |-> cols]
<1>1. Engine!Answer("create", q, Len(cols))
  BY DEF Create
<1>2. CASE Existing(n)
  <2>1. files' = files /\ tables_' = open_tables(<<n>>)
    BY <1>2 DEF Create
  <2>2. <<n>> \in Seq(Name) /\ Found(<<n>>) = {n}
    BY <1>2 DEF Found
  <2>3. Files' /\ tables' = tables /\ (DOMAIN tables_)' = DOMAIN tables_ \cup {n}
    BY <2>1, <2>2, Opened
  <2> QED BY <1>1, <1>2, <2>3, ExistsIs DEF Engine!Create
<1>3. CASE ~Existing(n)
  <2>1. /\ files' = [files EXCEPT ![n] = [schema |-> serialize(cols), rows |-> <<>>]]
        /\ tables_' = [m \in DOMAIN tables_ \cup {n} |-> IF m = n THEN cols ELSE tables_[m]]
    BY <1>3 DEF Create
  <2>2. /\ Files' /\ (DOMAIN tables_)' = DOMAIN tables_ \cup {n}
        /\ tables' = [tables EXCEPT ![n] = [schema |-> cols, rows |-> <<>>]]
    BY <1>3, <2>1, TableCreated DEF Existing
  <2> QED BY <1>1, <1>3, <2>2, ExistsIs DEF Engine!Create
<1> QED BY <1>2, <1>3

(* An executor that does not find a table.                                 *)
LEMMA MissingIs ==
  ASSUME Files, NEW names \in Seq(Name), NEW kind, NEW q, NEW answer,
         On(names, kind, q, answer), files' = files, \E i \in DOMAIN names : ~Existing(names[i])
  PROVE  Files' /\ Engine!Missing(kind, q, names)
<1>1. Files' /\ tables' = tables /\ (DOMAIN tables_)' = DOMAIN tables_ \cup Found(names)
  BY Opened DEF On
<1>2. DOMAIN names = 1 .. Len(names) /\ Len(names) \in Nat
      /\ \A i \in 1 .. Len(names) : names[i] \in Name
          /\ (Existing(names[i]) <=> Engine!Exists(names[i]))
  BY LenProperties, ElementOfSeq, ExistsIs
<1>3. Found(names) = {names[i] : i \in {j \in 1 .. Len(names) :
                                         \A k \in 1 .. j : Engine!Exists(names[k])}}
  BY <1>2 DEF Found
<1>4. Engine!Answer(kind, q, Error)
  BY DEF On
<1>5. \E i \in 1 .. Len(names) : ~Engine!Exists(names[i])
  BY <1>2
<1> QED BY <1>1, <1>3, <1>4, <1>5 DEF Engine!Missing

(* An executor that finds its table.                                       *)
LEMMA OnOne ==
  ASSUME Files, NEW n \in Name, NEW kind, NEW q, NEW answer, On(<<n>>, kind, q, answer)
  PROVE  /\ <<n>> \in Seq(Name) /\ tables_' = open_tables(<<n>>)
         /\ Existing(n) => Engine!Answer(kind, q, answer) /\ Found(<<n>>) = {n}
         /\ ~Existing(n) => Engine!Answer(kind, q, Error)
             /\ \E i \in DOMAIN <<n>> : ~Existing(<<n>>[i])
BY DEF On, Found

(* SELECT.                                                                 *)
LEMMA SelectIs ==
  ASSUME Files, NEW q \in Selects, Select(q)
  PROVE  Files' /\ Engine!Select(q)
<1>1. q.table \in Name
  BY SelectsAssumption
<1>2. On(<<q.table>>, "select", q, Engine!exec_select(q)) /\ files' = files
  BY DEF Select
<1>3. CASE Existing(q.table)
  <2>1. Files' /\ tables' = tables /\ (DOMAIN tables_)' = DOMAIN tables_ \cup {q.table}
    BY <1>1, <1>2, <1>3, OnOne, Opened
  <2> QED BY <1>1, <1>2, <1>3, <2>1, ExistsIs, OnOne DEF Engine!Select
<1>4. CASE ~Existing(q.table)
  <2>1. Files' /\ Engine!Missing("select", q, <<q.table>>)
    BY <1>1, <1>2, <1>4, OnOne, MissingIs
  <2> QED BY <2>1 DEF Engine!Select
<1> QED BY <1>3, <1>4

(* JOIN.                                                                   *)
LEMMA JoinIs ==
  ASSUME Files, NEW q \in Joins, Join(q)
  PROVE  Files' /\ Engine!Join(q)
<1> DEFINE names == <<q.left, q.right>>
<1>1. q.left \in Name /\ q.right \in Name /\ names \in Seq(Name) /\ DOMAIN names = {1, 2}
  BY JoinsAssumption
<1>2. On(names, "join", q, Engine!exec_join(q)) /\ files' = files
  BY DEF Join
<1>3. CASE Existing(q.left) /\ Existing(q.right)
  <2>1. Found(names) = {q.left, q.right}
    <3>1. \A j \in {1, 2} : \A k \in 1 .. j : Existing(names[k])
      BY <1>3
    <3>2. Found(names) = {names[i] : i \in {1, 2}}
      BY <1>1, <3>1 DEF Found
    <3> QED BY <3>2
  <2>2. Files' /\ tables' = tables /\ (DOMAIN tables_)' = DOMAIN tables_ \cup {q.left, q.right}
    <3>1. tables_' = open_tables(names)
      BY <1>2 DEF On
    <3> HIDE DEF names
    <3> QED BY <1>1, <1>2, <2>1, <3>1, Opened
  <2>3. Engine!Answer("join", q, Engine!exec_join(q))
    BY <1>2, <1>3, <1>1 DEF On
  <2> QED BY <1>1, <1>3, <2>2, <2>3, ExistsIs DEF Engine!Join
<1>4. CASE ~(Existing(q.left) /\ Existing(q.right))
  <2>1. \E i \in DOMAIN names : ~Existing(names[i])
    BY <1>1, <1>4
  <2>2. Files' /\ Engine!Missing("join", q, names)
    <3> HIDE DEF names
    <3> QED BY <1>1, <1>2, <2>1, MissingIs
  <2> QED BY <2>2 DEF Engine!Join
<1> QED BY <1>3, <1>4
(* INSERT.                                                                 *)
LEMMA RowAppended ==
  ASSUME NEW s, NEW rows \in Seq(StoredRow(s) \cup {Gone}), NEW b \in StoredRow(s), b # Gone
  PROVE  /\ Append(rows, b) \in Seq(StoredRow(s) \cup {Gone})
         /\ RowsRead(s, Append(rows, b)) = Append(RowsRead(s, rows), deserialize_row(s, b))
<1> DEFINE new == Append(rows, b)
           n == Len(rows)
           R == RowsRead(s, rows)
           d == deserialize_row(s, b)
           v(x) == IF x = Gone THEN Gone ELSE deserialize_row(s, x)
           V == {v(rows[i]) : i \in 1 .. n} \cup {d}
<1>1. /\ new \in Seq(StoredRow(s) \cup {Gone}) /\ n \in Nat /\ DOMAIN rows = 1 .. n
      /\ Len(new) = n + 1 /\ DOMAIN new = 1 .. n + 1
      /\ new[n + 1] = b /\ \A i \in 1 .. n : new[i] = rows[i]
  BY AppendProperties, LenProperties
<1>2. R = [i \in 1 .. n |-> v(rows[i])]
  BY <1>1 DEF RowsRead
<1>3. R \in Seq(V) /\ Len(R) = n
  <2>1. R \in [1 .. n -> V]
    BY <1>2
  <2> HIDE DEF V, R, n
  <2> QED BY <1>1, <2>1, IsASeq, LenProperties
<1> HIDE DEF R, V, new
<1>4. d \in V
  BY DEF V
<1>5. /\ Append(R, d) \in Seq(V) /\ Len(Append(R, d)) = n + 1 /\ DOMAIN Append(R, d) = 1 .. n + 1
      /\ Append(R, d)[n + 1] = d /\ \A i \in 1 .. n : Append(R, d)[i] = R[i]
  <2> HIDE DEF n, d
  <2> QED BY <1>1, <1>3, <1>4, AppendProperties, LenProperties
<1>6. RowsRead(s, new) = [i \in 1 .. n + 1 |-> v(new[i])]
  BY <1>1 DEF RowsRead
<1>7. Append(R, d) = [i \in 1 .. n + 1 |-> Append(R, d)[i]]
  <2> DEFINE A == Append(R, d)
  <2>1. A \in Seq(V) /\ DOMAIN A = 1 .. n + 1
    BY <1>5
  <2> HIDE DEF A, n
  <2>2. A = [i \in DOMAIN A |-> A[i]]
    BY <2>1, LenProperties
  <2> QED BY <2>1, <2>2 DEF A
<1>8. ASSUME NEW i \in 1 .. n + 1 PROVE v(new[i]) = Append(R, d)[i]
  <2>1. CASE i = n + 1
    BY <2>1, <1>1, <1>5
  <2>2. CASE i # n + 1
    <3>1. i \in 1 .. n
      BY <1>1, <2>2
    <3> QED BY <3>1, <1>1, <1>2, <1>5
  <2> QED BY <2>1, <2>2
<1> DEFINE A == Append(R, d)
           w(i) == v(new[i])
<1>9. /\ RowsRead(s, new) = [i \in 1 .. n + 1 |-> w(i)] /\ A = [i \in 1 .. n + 1 |-> A[i]]
      /\ \A i \in 1 .. n + 1 : w(i) = A[i]
  BY <1>6, <1>7, <1>8
<1> HIDE DEF A, w, n, v
<1>10. RowsRead(s, new) = A
  BY <1>9
<1> QED BY <1>1, <1>10 DEF new, A, R

(* The code's INSERT, which encodes the row, is the engine's INSERT of the *)
(* values.                                                                 *)
LEMMA InsertIs ==
  ASSUME Files, NEW q \in Inserts, Insert(q),
         Existing(q.table) => Len(files[q.table].rows) < MaxRowid
  PROVE  Files' /\ Engine!Insert(q)
<1> DEFINE n == q.table
           s == schema_of(n)
           row == Engine!row_of(q)
           b == serialize_row(s, row)
           rows == Append(files[n].rows, stored(b))
<1>1. n \in Name
  BY InsertsAssumption
<1>2. On(<<n>>, "insert", q, Engine!exec_insert(q)) /\ Rewrite(n, rows)
  BY DEF Insert
<1>3. CASE ~Existing(n)
  <2>1. files' = files
    <3>1. res' = [kind |-> "insert", stmt |-> q, answer |-> Error]
      BY <1>1, <1>2, <1>3, OnOne DEF Engine!Answer
    <3> QED BY <1>2, <3>1 DEF Rewrite
  <2>2. Files' /\ Engine!Missing("insert", q, <<n>>)
    BY <1>1, <1>2, <1>3, <2>1, OnOne, MissingIs
  <2> QED BY <2>2 DEF Engine!Insert
<1>4. CASE Existing(n)
  <2>1. /\ Engine!Answer("insert", q, Engine!exec_insert(q)) /\ tables_' = open_tables(<<n>>)
        /\ Found(<<n>>) = {n} /\ <<n>> \in Seq(Name) /\ files[n] # NoTable
    BY <1>1, <1>2, <1>4, OnOne DEF Existing
  <2>2. res'.answer = Engine!exec_insert(q)
    BY <2>1 DEF Engine!Answer
  <2>3. /\ tables[n].schema = s /\ tables[n].rows = RowsRead(s, files[n].rows)
        /\ Len(tables[n].rows) = Len(files[n].rows) /\ Len(files[n].rows) \in Nat
    BY <1>1, <2>1, TableSeenIs, FileIs
  <2>4. Engine!Exists(n) /\ Len(tables[n].rows) < MaxRowid
    BY <1>1, <1>4, <2>3, ExistsIs
  <2>5. CASE Engine!insert_throws(q)
    <3>1. Engine!exec_insert(q) = Error
      BY <2>5 DEF Engine!exec_insert
    <3>2. files' = files
      BY <1>2, <2>2, <3>1 DEF Rewrite
    <3>3. Files' /\ tables' = tables /\ (DOMAIN tables_)' = DOMAIN tables_ \cup {n}
      BY <2>1, <3>2, Opened
    <3> QED BY <2>1, <2>4, <3>1, <3>3 DEF Engine!Insert
  <2>6. CASE ~Engine!insert_throws(q)
    <3>1. Engine!exec_insert(q) # Error
      BY <2>3, <2>6, MarkersAssumption DEF Engine!exec_insert
    <3>2. s \in Schema[n] /\ files[n].rows \in Seq(StoredRow(s) \cup {Gone})
          /\ Len(s) \in Nat /\ Len(s) < BYTE
      BY <1>1, <2>1, FileIs, SchemaKept
    <3>3. row \in Rows(s) /\ Len(b) < WORD
      BY <2>3, <2>6, <3>2, RowMade, RowIsShort
    <3>4. /\ b \in StoredRow(s) /\ stored(b) = b /\ b # Gone
          /\ deserialize_row(s, b) = row
      <4> HIDE DEF s, row, n
      <4> QED BY <1>1, <3>2, <3>3, RowKept
    <3>5. rows \in Seq(StoredRow(s) \cup {Gone})
          /\ RowsRead(s, rows) = Append(tables[n].rows, row)
      <4> HIDE DEF s, row, n, b
      <4> QED BY <2>3, <3>2, <3>4, RowAppended
    <3>6. files' = [files EXCEPT ![n].rows = rows]
      BY <1>2, <2>2, <3>1 DEF Rewrite
    <3>7. /\ Files' /\ (DOMAIN tables_)' = DOMAIN tables_ \cup {n}
          /\ tables' = [tables EXCEPT ![n].rows = RowsRead(s, rows)]
      <4> HIDE DEF n, rows
      <4> QED BY <1>1, <2>1, <3>5, <3>6, RowsChanged
    <3>8. tables' = [tables EXCEPT ![n].rows = Append(@, row)]
      <4> HIDE DEF n, rows, s, row
      <4>1. [tables EXCEPT ![n].rows = Append(@, row)]
          = [tables EXCEPT ![n].rows = Append(tables[n].rows, row)]
        OBVIOUS
      <4> QED BY <3>5, <3>7, <4>1
    <3> HIDE DEF rows
    <3> QED BY <2>1, <2>4, <3>1, <3>7, <3>8 DEF Engine!Insert
  <2> QED BY <2>5, <2>6
<1> QED BY <1>3, <1>4

(* DELETE.                                                                 *)
LEMMA DeleteIs ==
  ASSUME Files, NEW q \in Deletes, Delete(q)
  PROVE  Files' /\ Engine!Delete(q)
<1> DEFINE n == q.table
           s == schema_of(n)
           old == files[n].rows
           D == Engine!doomed(q)
           rows == [i \in DOMAIN old |-> IF i \in D THEN Gone ELSE old[i]]
<1>1. n \in Name
  BY DeletesAssumption
<1>2. On(<<n>>, "delete", q, Engine!exec_delete(q)) /\ Rewrite(n, rows)
  BY DEF Delete
<1>3. CASE ~Existing(n)
  <2>1. files' = files
    <3>1. res' = [kind |-> "delete", stmt |-> q, answer |-> Error]
      BY <1>1, <1>2, <1>3, OnOne DEF Engine!Answer
    <3> QED BY <1>2, <3>1 DEF Rewrite
  <2>2. Files' /\ Engine!Missing("delete", q, <<n>>)
    BY <1>1, <1>2, <1>3, <2>1, OnOne, MissingIs
  <2> QED BY <2>2 DEF Engine!Delete
<1>4. CASE Existing(n)
  <2>1. /\ Engine!Answer("delete", q, Engine!exec_delete(q)) /\ tables_' = open_tables(<<n>>)
        /\ Found(<<n>>) = {n} /\ <<n>> \in Seq(Name) /\ files[n] # NoTable
    BY <1>1, <1>2, <1>4, OnOne DEF Existing
  <2>2. res'.answer = Engine!exec_delete(q)
    BY <2>1 DEF Engine!Answer
  <2>3. /\ tables[n].rows = RowsRead(s, old) /\ DOMAIN tables[n].rows = 1 .. Len(old)
        /\ Len(tables[n].rows) = Len(old) /\ Len(old) \in Nat /\ DOMAIN old = 1 .. Len(old)
        /\ s \in Schema[n] /\ old \in Seq(StoredRow(s) \cup {Gone})
    BY <1>1, <2>1, TableSeenIs, FileIs
  <2>4. Engine!Exists(n)
    BY <1>1, <1>4, ExistsIs
  <2>5. CASE Engine!exec_delete(q) = Error
    <3>1. files' = files
      BY <1>2, <2>2, <2>5 DEF Rewrite
    <3>2. Files' /\ tables' = tables /\ (DOMAIN tables_)' = DOMAIN tables_ \cup {n}
      BY <2>1, <3>1, Opened
    <3> QED BY <2>1, <2>4, <2>5, <3>2 DEF Engine!Delete
  <2>6. CASE Engine!exec_delete(q) # Error
    <3>1. files' = [files EXCEPT ![n].rows = rows]
      BY <1>2, <2>2, <2>6 DEF Rewrite
    <3>2. rows \in Seq(StoredRow(s) \cup {Gone}) /\ DOMAIN rows = 1 .. Len(old)
      <4> HIDE DEF D, s, old
      <4>1. \A i \in 1 .. Len(old) : old[i] \in StoredRow(s) \cup {Gone}
        BY <2>3, ElementOfSeq
      <4>2. rows \in [1 .. Len(old) -> StoredRow(s) \cup {Gone}]
        BY <2>3, <4>1
      <4> QED BY <2>3, <4>2, IsASeq
    <3>3. RowsRead(s, rows)
            = [i \in 1 .. Len(tables[n].rows) |-> IF i \in D THEN Gone ELSE tables[n].rows[i]]
      <4> HIDE DEF D, s, old, n
      <4> QED BY <2>3 DEF RowsRead
    <3>4. /\ Files' /\ (DOMAIN tables_)' = DOMAIN tables_ \cup {n}
          /\ tables' = [tables EXCEPT ![n].rows = RowsRead(s, rows)]
      <4> HIDE DEF n, rows
      <4> QED BY <1>1, <2>1, <3>1, <3>2, RowsChanged
    <3>5. tables' = [tables EXCEPT ![n].rows =
                       [i \in 1 .. Len(@) |-> IF i \in D THEN Gone ELSE @[i]]]
      <4> HIDE DEF n, rows, s, D
      <4> QED BY <3>3, <3>4
    <3> QED BY <2>1, <2>4, <2>6, <3>4, <3>5 DEF Engine!Delete
  <2> QED BY <2>5, <2>6
<1> QED BY <1>3, <1>4

(* The end of the process.                                                 *)
LEMMA ExitIs ==
  ASSUME Files, Exit
  PROVE  Files' /\ Engine!Exit
<1>1. tables_' = <<>> /\ files' = files /\ res' = Engine!NoStmt
  BY DEF Exit
<1>2. DOMAIN tables_' = {} /\ tables_' = [n \in DOMAIN tables_' |-> tables_'[n]]
  BY <1>1
<1>3. Files' /\ tables' = tables
  BY <1>1, <1>2, SameTables
<1> QED BY <1>1, <1>2, <1>3 DEF Engine!Exit

(* Nothing changes.                                                        *)
LEMMA NothingIs ==
  ASSUME Files, UNCHANGED <<files, tables_>>
  PROVE  Files' /\ tables' = tables
BY DEF Files, tables, schema_of

-----------------------------------------------------------------------------
(* Statements typed in lines.                                              *)

(* An INSERT that is typed has place for its row.                          *)
Room(s) ==
  s.kind = "insert" /\ Existing(s.stmt.table) => Len(files[s.stmt.table].rows) < MaxRowid

Pending ==
  /\ Engine!IsSeq(lines)
  /\ \/ buf = <<>> /\ ran = asked /\ \A k \in DOMAIN lines : NoMore(lines[k])
     \/ lines # <<>> /\ asked \in Statement \cup {Failed} /\ Typed(buf, lines, asked) /\ Room(asked)

(* A line with nothing but a semicolon is no statement.                    *)
LEMMA NoMoreIsNone ==
  ASSUME NEW line, NoMore(line)
  PROVE  /\ exec(<<>> \o <<Space>> \o line) = None
         /\ line = <<>> \/ Semicolon(<<>> \o <<Space>> \o line)
<1>1. <<>> \o <<Space>> \o line = <<Space>> \o line
  OBVIOUS
<1>2. CASE line = <<>>
  <2>1. <<Space>> \o line = <<Space>>
    BY <1>2
  <2>2. trim(<<Space>>) = <<>>
    <3>1. <<Space>> \in Seq({Space}) /\ \A i \in 1 .. Len(<<Space>>) : <<Space>>[i] = Space
      BY OneChar
    <3> QED BY <3>1, BlankIs
  <2>3. exec(<<Space>>) = None
    BY <2>2, ExecNone DEF None
  <2> QED BY <1>1, <1>2, <2>1, <2>3
<1>3. CASE line = <<";">>
  <2>1. <<Space>> \o line = <<Space, ";">>
    BY <1>3, OneAndOne
  <2>2. ";" # Space
    BY DEF Space
  <2>3. exec(<<Space, ";">>) = None
    BY <2>2, TrimSecond, ExecNone DEF None
  <2>4. Semicolon(<<Space, ";">>)
    <3> DEFINE t == <<Space, ";">>
    <3>1. 2 \in DOMAIN t /\ t[2] = ";"
      BY TwoChars
    <3> HIDE DEF t
    <3>2. Semicolon(t)
      BY <3>1 DEF Semicolon
    <3> QED BY <3>2 DEF t
  <2> QED BY <1>1, <2>1, <2>3, <2>4
<1> QED BY <1>2, <1>3 DEF NoMore

(* What is executed is a step of the engine, or none.                      *)
EngineStep == Engine!Next \/ UNCHANGED Engine!vars

(* A statement executed on the files is a step of the engine, or none.     *)
LEMMA ExecuteIs ==
  ASSUME Files, NEW s \in Statement \cup {Failed, None}, Room(s), Execute(s)
  PROVE  Files' /\ EngineStep /\ (s # None => ran' = s) /\ (s = None => ran' = ran)
<1>0. (s # None => ran' = s) /\ (s = None => ran' = ran)
  BY DEF Execute
<1>1. CASE s \in {Failed, None}
  <2>1. UNCHANGED <<files, tables_, res>>
    BY <1>1 DEF Execute, Failed, None
  <2>2. Files' /\ tables' = tables
    BY <2>1, NothingIs
  <2> QED BY <1>0, <2>1, <2>2 DEF EngineStep, Engine!vars
<1>2. CASE \E n \in Name : \E cols \in Schema[n] :
    s = Parsed("create", [table |-> n, cols |-> cols])
  <2>1. PICK n \in Name : \E cols \in Schema[n] : s = Parsed("create", [table |-> n, cols |-> cols])
    BY <1>2
  <2>2. PICK cols \in Schema[n] : s = Parsed("create", [table |-> n, cols |-> cols])
    BY <2>1
  <2>3. Create([table |-> n, cols |-> cols])
    BY <2>2 DEF Execute, Parsed
  <2>4. Files' /\ Engine!Create(n)
    BY <2>3, CreateIs
  <2> QED BY <1>0, <2>4 DEF EngineStep, Engine!Next
<1>3. CASE \E q \in Inserts : s = Parsed("insert", q)
  <2>1. PICK q \in Inserts : s = Parsed("insert", q)
    BY <1>3
  <2>2. Insert(q) /\ (Existing(q.table) => Len(files[q.table].rows) < MaxRowid)
    BY <2>1 DEF Execute, Parsed, Room
  <2>3. Files' /\ Engine!Insert(q)
    BY <2>2, InsertIs
  <2> QED BY <1>0, <2>3 DEF EngineStep, Engine!Next
<1>4. CASE \E q \in Deletes : s = Parsed("delete", q)
  <2>1. PICK q \in Deletes : s = Parsed("delete", q)
    BY <1>4
  <2>2. Delete(q)
    BY <2>1 DEF Execute, Parsed
  <2>3. Files' /\ Engine!Delete(q)
    BY <2>2, DeleteIs
  <2> QED BY <1>0, <2>3 DEF EngineStep, Engine!Next
<1>5. CASE \E q \in Selects : s = Parsed("select", q)
  <2>1. PICK q \in Selects : s = Parsed("select", q)
    BY <1>5
  <2>2. Select(q)
    BY <2>1 DEF Execute, Parsed
  <2>3. Files' /\ Engine!Select(q)
    BY <2>2, SelectIs
  <2> QED BY <1>0, <2>3 DEF EngineStep, Engine!Next
<1>6. CASE \E q \in Joins : s = Parsed("join", q)
  <2>1. PICK q \in Joins : s = Parsed("join", q)
    BY <1>6
  <2>2. Join(q)
    BY <2>1 DEF Execute, Parsed
  <2>3. Files' /\ Engine!Join(q)
    BY <2>2, JoinIs
  <2> QED BY <1>0, <2>3 DEF EngineStep, Engine!Next
<1> QED BY <1>1, <1>2, <1>3, <1>4, <1>5, <1>6, StatementIs

(* A line of a statement is taken.                                         *)
LEMMA LineTaken ==
  ASSUME Files, NEW s \in Statement \cup {Failed}, NEW ls, Typed(buf, ls, s), Room(s),
         Enter(Head(ls)), lines' = Tail(ls), asked' = s
  PROVE  Files' /\ EngineStep /\ Pending'
<1>0. PICK m \in 1 .. Len(ls) : \E B : TypedBy(buf, ls, s, m, B)
  BY DEF Typed
<1>1. PICK B : TypedBy(buf, ls, s, m, B)
  BY <1>0
<1> DEFINE n == Len(ls)
           rest == Tail(ls)
           S == {ls[i] : i \in DOMAIN ls}
<1>2. /\ ls \in Seq(S) /\ n \in Nat /\ n >= 1 /\ ls # <<>> /\ m \in 1 .. n /\ Head(ls) = ls[1]
      /\ rest \in Seq(S) /\ Len(rest) = n - 1 /\ DOMAIN rest = 1 .. n - 1
      /\ \A i \in 1 .. n - 1 : rest[i] = ls[i + 1]
  <2>1. ls \in Seq(S) /\ n \in Nat /\ n >= 1
    BY DEF Typed, Engine!IsSeq
  <2>2. ls # <<>>
    BY <2>1
  <2> HIDE DEF S
  <2>3. Head(ls) = ls[1] /\ rest \in Seq(S) /\ Len(rest) = n - 1
        /\ \A i \in 1 .. Len(rest) : rest[i] = ls[i + 1]
    BY <2>1, <2>2, HeadTailProperties
  <2> QED BY <2>1, <2>2, <2>3, LenProperties
<1>3. Engine!IsSeq(rest)
  <2>1. rest = [i \in 1 .. n - 1 |-> rest[i]] /\ n - 1 \in Nat
    BY <1>2, LenProperties
  <2> HIDE DEF rest, n
  <2>2. DOMAIN rest = 1 .. n - 1
    BY <2>1
  <2> DEFINE V == {rest[i] : i \in DOMAIN rest}
             l == n - 1
  <2>3. \A i \in 1 .. l : rest[i] \in V
    BY <2>2
  <2>4. rest = [i \in 1 .. l |-> rest[i]] /\ l \in Nat
    BY <2>1
  <2> HIDE DEF V, l
  <2>5. [i \in 1 .. l |-> rest[i]] \in Seq(V)
    BY ONLY <2>3, <2>4, IsASeq
  <2> QED BY <2>4, <2>5 DEF Engine!IsSeq, V
<1>4. B[1] = Appended(ls[1])
  <2>1. 1 \in 1 .. m /\ 1 - 1 = 0
    BY <1>2
  <2> QED BY <1>1, <2>1 DEF TypedBy, Appended
<1>5. CASE m = 1
  <2>1. Complete(ls[1]) /\ exec(Appended(ls[1])) = s
    BY <1>1, <1>4, <1>5 DEF TypedBy, Complete, Semicolon
  <2>2. buf' = <<>> /\ Execute(s)
    BY <1>2, <2>1 DEF Enter
  <2>3. s # None
    <3>1. s = Failed \/ \E kind, q : s = Parsed(kind, q)
      BY StatementIs
    <3>2. CASE s = Failed
      BY <3>2 DEF Failed, None
    <3>3. CASE \E kind, q : s = Parsed(kind, q)
      <4>1. PICK kind, q : s = Parsed(kind, q)
        BY <3>3
      <4>2. DOMAIN s = {"kind", "stmt"} /\ DOMAIN None = {"kind"}
        BY <4>1 DEF Parsed, None
      <4>3. "stmt" # "kind"
        OBVIOUS
      <4> QED BY <4>2, <4>3
    <3> QED BY <3>1, <3>2, <3>3
  <2>4. Files' /\ EngineStep /\ ran' = s
    BY <2>2, <2>3, ExecuteIs
  <2>5. \A k \in DOMAIN rest : NoMore(rest[k])
    <3>1. ASSUME NEW k \in 1 .. n - 1 PROVE NoMore(rest[k])
      <4>1. k + 1 \in m + 1 .. n
        BY <1>2, <1>5, <3>1
      <4>2. NoMore(ls[k + 1])
        BY <1>1, <4>1 DEF TypedBy
      <4> QED BY <1>2, <4>2
    <3> QED BY <1>2, <3>1
  <2> QED BY <1>3, <2>2, <2>4, <2>5 DEF Pending, Engine!IsSeq
<1>6. CASE m # 1
  <2>1. ~Complete(ls[1])
    <3>1. 1 \in 1 .. m - 1
      BY <1>2, <1>6
    <3> QED BY <1>1, <1>4, <3>1 DEF TypedBy, Complete, Semicolon
  <2>2. buf' = B[1] /\ ran' = None /\ UNCHANGED <<files, tables_, res>>
    BY <1>2, <1>4, <2>1 DEF Enter
  <2>3. Files' /\ EngineStep
    <3>1. Files' /\ tables' = tables
      BY <2>2, NothingIs
    <3> QED BY <2>2, <3>1 DEF EngineStep, Engine!vars
  <2> DEFINE D == [k \in 0 .. m - 1 |-> B[k + 1]]
  <2>4. m - 1 \in 1 .. Len(rest) /\ Len(rest) \in Nat
    BY <1>2, <1>6
  <2>5. TypedBy(B[1], rest, s, m - 1, D)
    <3>1. D[0] = B[1]
      BY <1>2
    <3>2. ASSUME NEW k \in 1 .. m - 1 PROVE D[k] = D[k - 1] \o <<Space>> \o rest[k]
      <4>1. k + 1 \in 1 .. m /\ k \in 0 .. m - 1 /\ k - 1 \in 0 .. m - 1 /\ (k + 1) - 1 = k
            /\ (k - 1) + 1 = k /\ k \in 1 .. n - 1
        BY <1>2
      <4>2. B[k + 1] = B[k] \o <<Space>> \o ls[k + 1]
        BY <1>1, <4>1 DEF TypedBy
      <4>3. D[k] = B[k + 1] /\ D[k - 1] = B[k] /\ rest[k] = ls[k + 1]
        BY <1>2, <4>1
      <4> QED BY <4>2, <4>3
    <3>3. ASSUME NEW k \in 1 .. (m - 1) - 1 PROVE rest[k] # <<>> /\ ~Semicolon(D[k])
      <4>1. k + 1 \in 1 .. m - 1 /\ k \in 1 .. n - 1 /\ k \in 0 .. m - 1
        BY <1>2
      <4>2. ls[k + 1] # <<>> /\ ~Semicolon(B[k + 1])
        BY <1>1, <4>1 DEF TypedBy
      <4>3. D[k] = B[k + 1] /\ rest[k] = ls[k + 1]
        BY <1>2, <4>1
      <4> QED BY <4>2, <4>3
    <3>4. D[m - 1] = B[m] /\ rest[m - 1] = ls[m]
      <4>1. m - 1 \in 0 .. m - 1 /\ m - 1 \in 1 .. n - 1 /\ (m - 1) + 1 = m
        BY <1>2, <1>6
      <4> QED BY <1>2, <4>1
    <3>5. ASSUME NEW k \in (m - 1) + 1 .. Len(rest) PROVE NoMore(rest[k])
      <4>1. k + 1 \in m + 1 .. n /\ k \in 1 .. n - 1
        BY <1>2
      <4> QED BY <1>1, <1>2, <4>1 DEF TypedBy
    <3> HIDE DEF D
    <3> QED BY <1>1, <3>1, <3>2, <3>3, <3>4, <3>5 DEF TypedBy
  <2>6. Typed(B[1], rest, s)
    <3> HIDE DEF D, rest
    <3> QED BY <1>3, <2>4, <2>5 DEF Typed
  <2>7. rest # <<>>
    BY <2>4
  <2>8. Room(s)'
    BY <2>2 DEF Room, Existing
  <2> HIDE DEF rest
  <2>9. lines' = rest
    BY DEF rest
  <2>10. Typed(buf, lines, asked)'
    BY <2>2, <2>6, <2>9
  <2>11. Room(asked)'
    BY <2>8
  <2>12. lines' # <<>> /\ asked' \in Statement \cup {Failed} /\ Engine!IsSeq(lines)'
    BY <1>3, <2>7, <2>9 DEF Engine!IsSeq
  <2> QED BY <2>3, <2>10, <2>11, <2>12 DEF Pending
<1> QED BY <1>5, <1>6

-----------------------------------------------------------------------------
(* The invariant of a session.                                             *)

(* Every statement is read back in every look.                             *)
ReadBack == \A s \in Statement : \A look \in Looks : Typed(<<>>, Lines(s, look), s)
Inv == Files /\ Pending

(* A statement typed in is executed as what it means, which is a step of   *)
(* the engine.                                                             *)
LEMMA TypeIs ==
  ASSUME ReadBack, Inv, NEW s \in Statement, Room(s), Type(s)
  PROVE  Inv' /\ EngineStep
<1>1. lines = <<>> /\ asked' = s
  BY DEF Type
<1>2. PICK look \in Looks : Enter(Head(Lines(s, look))) /\ lines' = Tail(Lines(s, look))
  BY DEF Type
<1>3. Typed(<<>>, Lines(s, look), s)
  BY DEF ReadBack
<1>4. Files /\ buf = <<>>
  BY <1>1 DEF Inv, Pending
<1> DEFINE ls == Lines(s, look)
<1> HIDE DEF ls
<1>5. Typed(buf, ls, s) /\ Enter(Head(ls)) /\ lines' = Tail(ls)
  BY <1>2, <1>3, <1>4 DEF ls
<1> QED BY <1>1, <1>4, <1>5, LineTaken DEF Inv

(* What is no statement is refused, on one line and an empty one.          *)
LEMMA JunkIs ==
  ASSUME NEW text \in Junk
  PROVE  Typed(<<>>, <<text, <<>>>>, Failed)
<1> DEFINE ls == <<text, <<>>>>
           blank == <<Space>>
           X == {text[i] : i \in DOMAIN text} \cup {Space}
           b1 == blank \o text
           b2 == b1 \o blank
           B == [k \in 0 .. 2 |-> IF k = 0 THEN <<>> ELSE IF k = 1 THEN b1 ELSE b2]
<1>1. /\ text # <<>> /\ text \in Seq({text[i] : i \in DOMAIN text})
      /\ exec(blank \o text \o <<>>) = Failed /\ exec(blank \o text \o blank) = Failed
  BY JunkAssumption
<1>2. text \in Seq(X) /\ blank \in Seq(X) /\ <<>> \in Seq(X)
  <2>1. text \in Seq(X)
    BY <1>1, SeqMonotonic
  <2>2. Space \in X
    OBVIOUS
  <2> HIDE DEF X
  <2> QED BY <2>1, <2>2, OneTwoThree, EmptySeq
<1> HIDE DEF X, blank
<1>3. b1 \in Seq(X) /\ b2 \in Seq(X)
  BY <1>2, ConcatProperties
<1>4. <<>> \o blank = blank /\ b1 \o <<>> = b1 /\ b2 \o <<>> = b2
  BY <1>2, <1>3, ConcatEmptySeq
<1>5. ls \in Seq(Seq(X)) /\ Len(ls) = 2 /\ ls[1] = text /\ ls[2] = <<>>
  <2> DEFINE e == <<>>
             U == Seq(X)
  <2>1. text \in U /\ e \in U
    BY <1>2
  <2> HIDE DEF e, U
  <2>2. <<text, e>> \in Seq(U) /\ Len(<<text, e>>) = 2 /\ <<text, e>>[1] = text /\ <<text, e>>[2] = e
    BY <2>1, OneTwoThree
  <2> QED BY <2>2 DEF e, U
<1> HIDE DEF ls
<1>6. Len(ls) \in Nat /\ Engine!IsSeq(ls)
  <2> DEFINE U == Seq(X)
  <2>1. ls \in Seq(U)
    BY <1>5
  <2> HIDE DEF U
  <2>2. ls \in Seq({ls[i] : i \in DOMAIN ls})
    BY <2>1, OfItsElements
  <2> QED BY <1>5, <2>2 DEF Engine!IsSeq
<1>7. B[0] = <<>> /\ B[1] = b1 /\ B[2] = b2
  OBVIOUS
<1>8. exec(b1) = Failed /\ exec(b2) = Failed
  BY <1>1, <1>4
<1> HIDE DEF B, b2
<1>9. CASE Semicolon(b1)
  <2>1. TypedBy(<<>>, ls, Failed, 1, B)
    <3>1. \A k \in 1 .. 1 : B[k] = B[k - 1] \o <<Space>> \o ls[k]
      BY <1>4, <1>5, <1>7 DEF b1, blank
    <3>2. \A k \in 1 + 1 .. Len(ls) : NoMore(ls[k])
      <4>1. \A k \in 1 + 1 .. Len(ls) : k = 2
        BY ONLY <1>5
      <4> QED BY <1>5, <4>1, Zenon DEF NoMore
    <3>3. \A k \in 1 .. 1 - 1 : ls[k] # <<>> /\ ~Semicolon(B[k])
      <4>1. 1 .. 1 - 1 = {}
        BY ONLY TRUE
      <4> QED BY <4>1, Zenon
    <3> QED BY <1>7, <1>8, <1>9, <3>1, <3>2, <3>3, Zenon DEF TypedBy
  <2>2. 1 \in 1 .. Len(ls)
    BY ONLY <1>5
  <2>3. \E m \in 1 .. Len(ls) : \E C : TypedBy(<<>>, ls, Failed, m, C)
    BY <2>1, <2>2
  <2>4. Typed(<<>>, ls, Failed)
    BY <1>6, <2>3 DEF Typed
  <2> QED BY <2>4 DEF ls
<1>10. CASE ~Semicolon(b1)
  <2>1. TypedBy(<<>>, ls, Failed, 2, B)
    <3>1. B[1] = B[0] \o <<Space>> \o ls[1]
      BY <1>4, <1>5, <1>7 DEF b1, blank
    <3>2. B[2] = B[1] \o <<Space>> \o ls[2]
      BY <1>4, <1>5, <1>7 DEF b2, blank
    <3>3. \A k \in 1 .. 2 : B[k] = B[k - 1] \o <<Space>> \o ls[k]
      <4>1. \A k \in 1 .. 2 : (k = 1 /\ k - 1 = 0) \/ (k = 2 /\ k - 1 = 1)
        BY ONLY TRUE
      <4> QED BY <3>1, <3>2, <4>1, Zenon
    <3>4. \A k \in 1 .. 2 - 1 : ls[k] # <<>> /\ ~Semicolon(B[k])
      <4>1. \A k \in 1 .. 2 - 1 : k = 1
        BY ONLY TRUE
      <4> QED BY <1>1, <1>5, <1>7, <1>10, <4>1, Zenon
    <3>5. \A k \in 2 + 1 .. Len(ls) : NoMore(ls[k])
      <4>1. 2 + 1 .. Len(ls) = {}
        BY ONLY <1>5
      <4> QED BY <4>1, Zenon
    <3> QED BY <1>5, <1>7, <1>8, <3>3, <3>4, <3>5, Zenon DEF TypedBy
  <2>2. 2 \in 1 .. Len(ls)
    BY ONLY <1>5
  <2>3. \E m \in 1 .. Len(ls) : \E C : TypedBy(<<>>, ls, Failed, m, C)
    BY <2>1, <2>2
  <2>4. Typed(<<>>, ls, Failed)
    BY <1>6, <2>3 DEF Typed
  <2> QED BY <2>4 DEF ls
<1> QED BY <1>9, <1>10 DEF ls

(* So it changes nothing.                                                  *)
LEMMA TypeJunkIs ==
  ASSUME Inv, NEW text \in Junk, TypeJunk(text)
  PROVE  Inv' /\ EngineStep
<1>1. /\ lines = <<>> /\ asked' = Failed /\ Enter(text) /\ lines' = <<<<>>>>
      /\ Files /\ buf = <<>>
  BY DEF TypeJunk, Inv, Pending
<1> DEFINE ls == <<text, <<>>>>
<1>2. Head(ls) = text /\ Tail(ls) = <<<<>>>>
  OBVIOUS
<1>3. Typed(<<>>, ls, Failed)
  BY JunkIs
<1>4. Room(Failed)
  BY DEF Room, Failed
<1> HIDE DEF ls
<1>5. Typed(buf, ls, Failed) /\ Enter(Head(ls)) /\ lines' = Tail(ls)
  BY <1>1, <1>2, <1>3
<1> QED BY <1>1, <1>4, <1>5, LineTaken DEF Inv

(* The next line of a statement typed over several lines keeps the         *)
(* invariant: what is left to type is read as it was meant, together with  *)
(* what the REPL has kept.                                                 *)
LEMMA TypeOnIs ==
  ASSUME Inv, TypeOn
  PROVE  Inv' /\ EngineStep
<1>1. lines # <<>> /\ Enter(Head(lines)) /\ lines' = Tail(lines) /\ asked' = asked
  BY DEF TypeOn
<1>2. Files /\ Pending /\ Engine!IsSeq(lines)
  BY DEF Inv, Pending
<1>3. CASE asked \in Statement \cup {Failed} /\ Typed(buf, lines, asked) /\ Room(asked)
  BY <1>1, <1>2, <1>3, LineTaken DEF Inv
<1>4. CASE buf = <<>> /\ ran = asked /\ \A k \in DOMAIN lines : NoMore(lines[k])
  <2> DEFINE n == Len(lines)
             line == lines[1]
             rest == Tail(lines)
             S == {lines[i] : i \in DOMAIN lines}
  <2>1. lines \in Seq(S) /\ n \in Nat /\ DOMAIN lines = 1 .. n
    BY <1>2, LenProperties DEF Engine!IsSeq
  <2> HIDE DEF S
  <2>2. /\ n >= 1 /\ Head(lines) = line /\ rest \in Seq(S) /\ Len(rest) = n - 1
        /\ \A i \in 1 .. Len(rest) : rest[i] = lines[i + 1]
    BY <1>1, <2>1, HeadTailProperties, EmptySeq
  <2>3. NoMore(line) /\ \A i \in 1 .. Len(rest) : NoMore(rest[i])
    BY <1>4, <2>1, <2>2
  <2>4. DOMAIN rest = 1 .. Len(rest) /\ rest \in Seq({rest[i] : i \in DOMAIN rest})
    <3> HIDE DEF rest
    <3> QED BY <2>2, LenProperties, OfItsElements
  <2> HIDE DEF line, rest
  <2>5. /\ exec(<<>> \o <<Space>> \o line) = None
        /\ line = <<>> \/ Semicolon(<<>> \o <<Space>> \o line)
    BY <2>3, NoMoreIsNone
  <2>6. Appended(line) = <<>> \o <<Space>> \o line
    BY <1>4 DEF Appended
  <2>7. Complete(line) /\ exec(Appended(line)) = None
    BY <2>5, <2>6 DEF Complete, Semicolon
  <2>8. buf' = <<>> /\ Execute(None)
    BY <1>1, <2>2, <2>7 DEF Enter
  <2>9. Room(None)
    BY DEF Room, None
  <2>10. Files' /\ EngineStep /\ ran' = ran
    BY <1>2, <2>8, <2>9, ExecuteIs
  <2>11. lines' = rest
    BY <1>1 DEF rest
  <2>12. Pending'
    BY <1>1, <1>4, <2>3, <2>4, <2>8, <2>10, <2>11 DEF Pending, Engine!IsSeq
  <2> QED BY <2>10, <2>12 DEF Inv
<1> QED BY <1>1, <1>2, <1>3, <1>4 DEF Pending

(* Leaving the program closes the tables, whose files stay.                *)
LEMMA ExitStep ==
  ASSUME Inv, Exit
  PROVE  Inv' /\ EngineStep
<1>1. Files' /\ Engine!Exit
  BY ExitIs DEF Inv
<1>2. Engine!IsSeq(<<>>) /\ DOMAIN <<>> = {}
  BY EmptySeq DEF Engine!IsSeq
<1>3. lines' = <<>> /\ buf' = <<>> /\ ran' = None /\ asked' = None
  BY DEF Exit
<1>4. Pending'
  BY <1>2, <1>3 DEF Pending, Engine!IsSeq
<1> QED BY <1>1, <1>4 DEF Inv, EngineStep, Engine!Next

(* A session starts with an empty buffer and no table file read.           *)
LEMMA InitIs ==
  ASSUME Init
  PROVE  Inv /\ Engine!Init
<1>1. Files
  BY DEF Init, Files
<1>2. Engine!IsSeq(<<>>) /\ DOMAIN <<>> = {}
  BY EmptySeq DEF Engine!IsSeq
<1>3. Pending
  BY <1>2 DEF Init, Pending
<1>4. tables = [n \in Name |-> NoTable]
  BY DEF Init, tables
<1> QED BY <1>1, <1>2, <1>3, <1>4 DEF Init, Inv, Engine!Init

(* Every step of a session is a step of the engine, or one it does not     *)
(* see.                                                                    *)
LEMMA NextIs ==
  ASSUME ReadBack, Inv, [Next]_vars
  PROVE  Inv' /\ EngineStep
<1>1. ASSUME NEW n \in Name, NEW cols \in Schema[n],
             Type(Parsed("create", [table |-> n, cols |-> cols]))
      PROVE  Inv' /\ EngineStep
  <2> DEFINE q == [table |-> n, cols |-> cols]
             s == Parsed("create", q)
  <2>1. q \in Created
    BY DEF Created
  <2>2. s \in Statement
    BY <2>1 DEF Statement, AllOf
  <2>3. Room(s)
    BY DEF Room, Parsed
  <2> QED BY <1>1, <2>2, <2>3, TypeIs
<1>2. ASSUME NEW q \in Inserts, TypeInsert(q)
      PROVE  Inv' /\ EngineStep
  <2> DEFINE s == Parsed("insert", q)
  <2>1. s \in Statement
    BY DEF Statement, AllOf
  <2>2. Room(s) /\ Type(s)
    BY <1>2 DEF Room, Parsed, TypeInsert
  <2> QED BY <2>1, <2>2, TypeIs
<1>3. ASSUME NEW q \in Deletes, Type(Parsed("delete", q))
      PROVE  Inv' /\ EngineStep
  <2> DEFINE s == Parsed("delete", q)
  <2>1. s \in Statement
    BY DEF Statement, AllOf
  <2>2. Room(s)
    BY DEF Room, Parsed
  <2> QED BY <1>3, <2>1, <2>2, TypeIs
<1>4. ASSUME NEW q \in Selects, Type(Parsed("select", q))
      PROVE  Inv' /\ EngineStep
  <2> DEFINE s == Parsed("select", q)
  <2>1. s \in Statement
    BY DEF Statement, AllOf
  <2>2. Room(s)
    BY DEF Room, Parsed
  <2> QED BY <1>4, <2>1, <2>2, TypeIs
<1>5. ASSUME NEW q \in Joins, Type(Parsed("join", q))
      PROVE  Inv' /\ EngineStep
  <2> DEFINE s == Parsed("join", q)
  <2>1. s \in Statement
    BY DEF Statement, AllOf
  <2>2. Room(s)
    BY DEF Room, Parsed
  <2> QED BY <1>5, <2>1, <2>2, TypeIs
<1>6. CASE UNCHANGED vars
  <2>1. Files' /\ tables' = tables
    BY <1>6, NothingIs DEF Inv, vars
  <2>2. Pending'
    BY <1>6 DEF Inv, vars, Pending, Engine!IsSeq, Room, Existing
  <2> QED BY <1>6, <2>1, <2>2 DEF Inv, EngineStep, Engine!vars, vars
<1> QED BY <1>1, <1>2, <1>3, <1>4, <1>5, <1>6, TypeJunkIs, TypeOnIs, ExitStep DEF Next

(* What the invariant says of bytes and of statements.                     *)
LEMMA InvMeans ==
  ASSUME Inv
  PROVE  TypeOK /\ StatementsReadBack
<1>1. StatementsReadBack
  BY DEF Inv, Pending, StatementsReadBack
<1>2. DOMAIN tables_ \subseteq {n \in Name : files[n] # NoTable}
  BY DEF Inv, Files
<1>3. ASSUME NEW n \in Name, files[n] # NoTable
      PROVE  /\ files[n].schema \in Seq(0 .. BYTE - 1)
             /\ \A i \in DOMAIN files[n].rows :
                  files[n].rows[i] # Gone => files[n].rows[i] \in Seq(0 .. BYTE - 1)
  <2>1. schema_of(n) \in Schema[n] /\ files[n] \in TableFile(schema_of(n))
    BY <1>3, FileIs DEF Inv
  <2>2. files[n].schema \in Seq(Byte) /\ files[n].rows \in Seq(Seq(Byte) \cup {Gone})
    BY <2>1, TableFileIs
  <2>3. \A i \in DOMAIN files[n].rows : files[n].rows[i] \in Seq(Byte) \cup {Gone}
    BY <2>2, LenProperties, ElementOfSeq
  <2> QED BY <2>2, <2>3 DEF Byte
<1> QED BY <1>1, <1>2, <1>3 DEF TypeOK

(* What holds in every session: the files are tables of rows that fit, and *)
(* what the user has still to type, added to what main has kept of it in   *)
(* buffer, is executed as the statement that was meant.                    *)
THEOREM Invariant ==
  ASSUME \A look \in Looks : Legible(look)
  PROVE  Spec => []Inv
<1>1. ReadBack
  BY EveryStatementReadsBack DEF ReadBack
<1>2. Init => Inv
  BY InitIs
<1>3. Inv /\ [Next]_vars => Inv'
  BY <1>1, NextIs
<1> QED BY <1>2, <1>3, PTL DEF Spec

(* The files hold bytes only: every schema and row that a statement writes *)
(* is encoded into bytes (Schema::serialize, serialize_row).               *)
THEOREM TypeCorrect ==
  ASSUME \A look \in Looks : Legible(look)
  PROVE  Spec => []TypeOK
<1>1. Inv => TypeOK
  BY InvMeans
<1> QED BY <1>1, Invariant, PTL

(* The statement that execute runs is the statement that the user meant,   *)
(* whatever the case of its keywords, its blanks, quotes, line breaks and  *)
(* semicolons, and whatever was typed before it (main's loop, tokenize and *)
(* the parsers together).                                                  *)
THEOREM ReadsBack ==
  ASSUME \A look \in Looks : Legible(look)
  PROVE  Spec => []StatementsReadBack
<1>1. Inv => StatementsReadBack
  BY InvMeans
<1> QED BY <1>1, Invariant, PTL

(* A session of lines typed and tables kept as bytes in files is a run of  *)
(* the SQL engine on values: what is encoded is decoded as it was, also    *)
(* when the program has been left and started again.                       *)
THEOREM Implements ==
  ASSUME \A look \in Looks : Legible(look)
  PROVE  Spec => ImplementsEngine
<1>1. ReadBack
  BY EveryStatementReadsBack DEF ReadBack
<1>2. Init => Engine!Init
  BY InitIs
<1>3. Inv /\ [Next]_vars => [Engine!Next]_(Engine!vars)
  BY <1>1, NextIs DEF EngineStep
<1> QED BY <1>2, <1>3, Invariant, PTL DEF Spec, ImplementsEngine, Engine!Spec
=============================================================================
