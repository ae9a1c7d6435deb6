--------------------------- MODULE StatementProofs --------------------------
(***************************************************************************)
(* Every statement that is typed is read back as it was meant, whatever    *)
(* statements, texts and numbers there are.                                *)
(*                                                                         *)
(* First the tokenizer: it finds the pieces a statement was written in,    *)
(* whatever blanks and line breaks are between them.  Then the parsers:    *)
(* lists, columns, references, literals and clauses, and with them the     *)
(* five kinds of statements, mean what they were written for.              *)
(***************************************************************************)
EXTENDS Session, SequenceTheorems, FiniteSetTheorems, WellFoundedInduction, TLAPS

-----------------------------------------------------------------------------
(* What is put together part by part, and where its parts are.             *)

(* Every nonempty set of natural numbers has a least element.              *)
LEMMA LeastNumber ==
  ASSUME NEW T \in SUBSET Nat, T # {}
  PROVE  \E x \in T : \A y \in T : x <= y
<1> DEFINE R == {ss \in Nat \X Nat : ss[1] < ss[2]}
<1>1. R = OpToRel(<, Nat)
  BY Zenon DEF OpToRel
<1>2. IsWellFoundedOn(R, Nat)
  BY <1>1, NatLessThanWellFounded, Zenon
<1>3. PICK x \in T : \A y \in T : ~(<<y, x>> \in R)
  <2> HIDE DEF R
  <2> QED BY <1>2, WFMin
<1> QED
  <2>1. ASSUME NEW y \in T PROVE x <= y
    <3>1. x \in Nat /\ y \in Nat /\ ~(y < x)
      BY <1>3
    <3> QED BY <3>1
  <2> QED BY <2>1

(* The bytes s are those of mem from pos on.                               *)
At(mem, pos, s) ==
  /\ pos \in Nat \ {0} /\ pos + Len(s) <= Len(mem) + 1
  /\ \A i \in 1 .. Len(s) : mem[pos + i - 1] = s[i]

(* What is at a place in two parts is there part by part.                  *)
LEMMA AtConcat ==
  ASSUME NEW S, NEW s \in Seq(S), NEW t \in Seq(S), NEW mem, NEW pos,
         Len(mem) \in Nat, At(mem, pos, s \o t)
  PROVE  At(mem, pos, s) /\ At(mem, pos + Len(s), t)
<1>1. /\ Len(s) \in Nat /\ Len(t) \in Nat /\ Len(s \o t) = Len(s) + Len(t)
      /\ \A i \in 1 .. Len(s) + Len(t) : (s \o t)[i] = IF i <= Len(s) THEN s[i] ELSE t[i - Len(s)]
  BY ConcatProperties, LenProperties
<1>2. pos \in Nat \ {0} /\ pos + Len(s) + Len(t) <= Len(mem) + 1
  BY <1>1 DEF At
<1>3. ASSUME NEW i \in 1 .. Len(s) PROVE mem[pos + i - 1] = s[i]
  <2>1. i \in 1 .. Len(s \o t) /\ i \in 1 .. Len(s) + Len(t) /\ i <= Len(s)
    BY <1>1
  <2> QED BY <2>1, <1>1 DEF At
<1>4. ASSUME NEW i \in 1 .. Len(t) PROVE mem[pos + Len(s) + i - 1] = t[i]
  <2> DEFINE k == Len(s) + i
  <2>1. k \in 1 .. Len(s \o t) /\ k \in 1 .. Len(s) + Len(t) /\ ~(k <= Len(s))
        /\ k - Len(s) = i /\ pos + Len(s) + i - 1 = pos + k - 1
    BY <1>1, <1>2
  <2> HIDE DEF k
  <2>2. mem[pos + k - 1] = (s \o t)[k]
    BY <2>1 DEF At
  <2>3. (s \o t)[k] = t[i]
    BY <2>1, <1>1
  <2> QED BY <2>1, <2>2, <2>3
<1> QED BY <1>1, <1>2, <1>3, <1>4 DEF At

(* Sequences that are put together part by part.                           *)
Prefixes(S, L, part, f) ==
  /\ L \in Nat /\ part \in [1 .. L -> Seq(S)] /\ f \in [0 .. L -> Seq(S)]
  /\ \A i \in 1 .. L : f[i] = f[i - 1] \o part[i]

(* Where the first i parts end.                                            *)
End(f, i) == Len(f[i])

(* A loop that adds a part in each step does come to an end.               *)
LEMMA Concatenation ==
  ASSUME NEW S, NEW L \in Nat, NEW base \in Seq(S), NEW part \in [1 .. L -> Seq(S)]
  PROVE  \E f : /\ f = [i \in 0 .. L |-> IF i = 0 THEN base ELSE f[i - 1] \o part[i]]
                /\ Prefixes(S, L, part, f)
<1> DEFINE To(k, f) == [i \in 0 .. k |-> IF i = 0 THEN base ELSE f[i - 1] \o part[i]]
           Good(k) == \E f : f = To(k, f) /\ f \in [0 .. k -> Seq(S)]
           Bad == {k \in 0 .. L : ~Good(k)}
<1>1. Bad = {}
  <2>1. SUFFICES ASSUME Bad # {} PROVE FALSE
    OBVIOUS
  <2>2. PICK k \in Bad : \A j \in Bad : k <= j
    <3>1. Bad \in SUBSET Nat
      <4> HIDE DEF Good
      <4> QED OBVIOUS
    <3> HIDE DEF Bad
    <3> QED BY <2>1, <3>1, LeastNumber
  <2>3. k # 0
    <3>1. SUFFICES ASSUME k = 0 PROVE FALSE
      OBVIOUS
    <3> DEFINE f == [i \in 0 .. 0 |-> base]
    <3>2. f = To(0, f) /\ f \in [0 .. 0 -> Seq(S)]
      OBVIOUS
    <3> HIDE DEF To, f
    <3> QED BY <2>2, <3>1, <3>2
  <2>4. k - 1 \in 0 .. L /\ ~(k <= k - 1) /\ k \in 1 .. L
    BY <2>2, <2>3
  <2>5. PICK f : f = To(k - 1, f) /\ f \in [0 .. k - 1 -> Seq(S)]
    BY <2>2, <2>4
  <2> DEFINE h == To(k, f)
  <2>6. ASSUME NEW i \in 0 .. k, i # 0
        PROVE  h[i - 1] = f[i - 1] /\ f[i - 1] \in Seq(S) /\ part[i] \in Seq(S)
    <3>1. i - 1 \in 0 .. k - 1 /\ i - 1 \in 0 .. k /\ i \in 1 .. L
      BY <2>2, <2>6
    <3> QED BY <2>5, <3>1
  <2>7. h = To(k, h)
    BY <2>6
  <2>8. h \in [0 .. k -> Seq(S)]
    <3>1. ASSUME NEW i \in 0 .. k, i # 0 PROVE f[i - 1] \o part[i] \in Seq(S)
      BY <3>1, <2>6, ConcatProperties
    <3> QED BY <3>1
  <2> HIDE DEF h, To
  <2> QED BY <2>2, <2>7, <2>8
<1>2. Good(L)
  <2> HIDE DEF Good
  <2> QED BY <1>1
<1>3. PICK f : f = To(L, f) /\ f \in [0 .. L -> Seq(S)]
  BY <1>2
<1>4. ASSUME NEW i \in 1 .. L PROVE f[i] = f[i - 1] \o part[i]
  <2>1. i \in 0 .. L /\ i # 0
    OBVIOUS
  <2>2. To(L, f)[i] = f[i - 1] \o part[i]
    BY <2>1
  <2> HIDE DEF To
  <2> QED BY <1>3, <2>2
<1> QED BY <1>3, <1>4 DEF Prefixes

(* Each part is in the whole, where the parts before it end.               *)
LEMMA PartIsAt ==
  ASSUME NEW S, NEW L, NEW part, NEW f, Prefixes(S, L, part, f), NEW i \in 1 .. L
  PROVE  /\ At(f[L], End(f, i - 1) + 1, part[i])
         /\ End(f, i - 1) \in Nat /\ End(part, i) \in Nat /\ End(f, i) \in Nat
         /\ End(f, i) = End(f, i - 1) + End(part, i)
<1>1. /\ L \in Nat /\ i - 1 \in 0 .. L /\ L \in 0 .. L /\ i \in 0 .. L
      /\ \A k \in 0 .. L : f[k] \in Seq(S) /\ Len(f[k]) \in Nat
      /\ \A k \in 1 .. L : part[k] \in Seq(S) /\ Len(part[k]) \in Nat
  BY LenProperties DEF Prefixes
<1> DEFINE Bad == {k \in i .. L : ~At(f[k], Len(f[i - 1]) + 1, part[i])}
<1>2. Bad = {}
  <2>1. SUFFICES ASSUME Bad # {} PROVE FALSE
    OBVIOUS
  <2>2. PICK k \in Bad : \A j \in Bad : k <= j
    <3>1. Bad \in SUBSET Nat
      BY <1>1
    <3> HIDE DEF Bad
    <3> QED BY <2>1, <3>1, LeastNumber
  <2>3. k \in 1 .. L /\ k - 1 \in 0 .. L /\ k \in i .. L
    BY <1>1, <2>2
  <2> DEFINE s == f[k - 1]
             t == part[k]
             p == Len(f[i - 1]) + 1
  <2>4. /\ f[k] = s \o t /\ s \in Seq(S) /\ t \in Seq(S) /\ Len(s) \in Nat /\ Len(t) \in Nat
        /\ p \in Nat \ {0}
    <3>1. f[k] = f[k - 1] \o part[k]
      BY <2>3 DEF Prefixes
    <3>2. Len(f[i - 1]) \in Nat
      BY <1>1
    <3>3. s \in Seq(S) /\ t \in Seq(S) /\ Len(s) \in Nat /\ Len(t) \in Nat
      BY <1>1, <2>3
    <3> QED BY <3>1, <3>2, <3>3
  <2>5. Len(s \o t) = Len(s) + Len(t)
        /\ \A j \in 1 .. Len(s) + Len(t) : (s \o t)[j] = IF j <= Len(s) THEN s[j] ELSE t[j - Len(s)]
    BY <2>4, ConcatProperties
  <2>6. CASE k = i
    <3>1. p = Len(s) + 1 /\ t = part[i]
      BY <2>6
    <3> HIDE DEF s, t, p
    <3>2. ASSUME NEW j \in 1 .. Len(t) PROVE (s \o t)[p + j - 1] = t[j]
      <4> DEFINE m == p + j - 1
      <4>1. m \in 1 .. Len(s) + Len(t) /\ ~(m <= Len(s)) /\ m - Len(s) = j
        BY <2>4, <3>1
      <4> HIDE DEF m
      <4>2. (s \o t)[m] = t[j]
        BY <4>1, <2>5
      <4> QED BY <4>2 DEF m
    <3>3. At(f[k], p, t)
      <4>1. p + Len(t) <= Len(s \o t) + 1
        <5> DEFINE m == Len(s)
                   n == Len(t)
        <5>1. p = m + 1 /\ m \in Nat /\ n \in Nat /\ Len(s \o t) = m + n
          BY <2>4, <2>5, <3>1
        <5> HIDE DEF m, n
        <5>2. p + n <= Len(s \o t) + 1
          BY <5>1
        <5> QED BY <5>2 DEF n
      <4>2. At(s \o t, p, t)
        BY <2>4, <3>2, <4>1 DEF At
      <4> QED BY <2>4, <4>2
    <3> QED BY <3>1, <3>3, <2>2 DEF p
  <2>7. CASE k # i
    <3>1. k - 1 \in i .. L /\ ~(k <= k - 1)
      BY <2>3, <2>7, <1>1
    <3>2. At(s, p, part[i])
      BY <3>1, <2>2
    <3> HIDE DEF s, t, p
    <3>3. ASSUME NEW j \in 1 .. Len(part[i]) PROVE (s \o t)[p + j - 1] = part[i][j]
      <4> DEFINE m == p + j - 1
      <4>1. m \in 1 .. Len(s) + Len(t) /\ m <= Len(s)
        BY <2>4, <3>2, <1>1 DEF At
      <4> HIDE DEF m
      <4>2. (s \o t)[m] = s[m]
        BY <4>1, <2>5
      <4> QED BY <4>2, <3>2 DEF m, At
    <3>4. p + Len(part[i]) <= Len(s \o t) + 1
      BY <3>2, <2>4, <2>5, <1>1 DEF At
    <3>5. At(f[k], p, part[i])
      BY <2>4, <3>3, <3>4 DEF At
    <3> QED BY <3>5, <2>2 DEF p
  <2> QED BY <2>6, <2>7
<1>3. L \in i .. L
  BY <1>1
<1>4. End(f, i) = End(f, i - 1) + End(part, i)
  BY <1>1, ConcatProperties DEF Prefixes, End
<1>5. At(f[L], End(f, i - 1) + 1, part[i])
  BY <1>2, <1>3 DEF End
<1> QED BY <1>1, <1>4, <1>5 DEF End

(* Two loops that begin alike and step alike end alike.                    *)
LEMMA SameLoop ==
  ASSUME NEW L \in Nat, NEW f, NEW g, f[0] = g[0],
         \A i \in 1 .. L : f[i - 1] = g[i - 1] => f[i] = g[i]
  PROVE  \A i \in 0 .. L : f[i] = g[i]
<1> DEFINE Bad == {i \in 0 .. L : f[i] # g[i]}
<1>1. SUFFICES ASSUME Bad # {} PROVE FALSE
  OBVIOUS
<1>2. PICK c \in Bad : \A b \in Bad : c <= b
  <2>1. Bad \in SUBSET Nat
    OBVIOUS
  <2> HIDE DEF Bad
  <2> QED BY <1>1, <2>1, LeastNumber
<1>3. c # 0
  BY <1>2
<1>4. c - 1 \in 0 .. L /\ ~(c <= c - 1) /\ c \in 1 .. L
  BY <1>2, <1>3
<1>5. f[c - 1] = g[c - 1]
  BY <1>2, <1>4
<1> QED BY <1>2, <1>4, <1>5

-----------------------------------------------------------------------------
(* Statements typed in lines.                                              *)

(* From what is in the buffer, these lines make main execute s with the    *)
(* m-th of them, and nothing with the others.                              *)
Semicolon(text) == \E i \in DOMAIN text : text[i] = ";"
NoMore(line) == line = <<>> \/ line = <<";">>
TypedBy(b, ls, s, m, B) ==
  /\ B[0] = b /\ \A k \in 1 .. m : B[k] = B[k - 1] \o <<Space>> \o ls[k]
  /\ \A k \in 1 .. m - 1 : ls[k] # <<>> /\ ~Semicolon(B[k])
  /\ ls[m] = <<>> \/ Semicolon(B[m])
  /\ exec(B[m]) = s
  /\ \A k \in m + 1 .. Len(ls) : NoMore(ls[k])
Typed(b, ls, s) == Len(ls) \in Nat /\ Engine!IsSeq(ls)
    /\ \E m \in 1 .. Len(ls) : \E B : TypedBy(b, ls, s, m, B)

(* The five kinds of statements.                                           *)
LEMMA StatementIs ==
  ASSUME NEW s \in Statement
  PROVE  \/ \E n \in Name : \E cols \in Schema[n] :
             s = Parsed("create", [table |-> n, cols |-> cols])
         \/ \E q \in Inserts : s = Parsed("insert", q)
         \/ \E q \in Deletes : s = Parsed("delete", q)
         \/ \E q \in Selects : s = Parsed("select", q)
         \/ \E q \in Joins : s = Parsed("join", q)
<1>1. \/ s \in AllOf("create", Created) \/ s \in AllOf("insert", Inserts)
      \/ s \in AllOf("delete", Deletes) \/ s \in AllOf("select", Selects)
      \/ s \in AllOf("join", Joins)
  BY DEF Statement
<1>2. ASSUME s \in AllOf("create", Created)
      PROVE  \E n \in Name : \E cols \in Schema[n] :
               s = Parsed("create", [table |-> n, cols |-> cols])
  <2>1. PICK q \in Created : s = Parsed("create", q)
    BY <1>2 DEF AllOf
  <2> DEFINE C(n) == {[table |-> n, cols |-> cols] : cols \in Schema[n]}
  <2>2. q \in UNION {C(n) : n \in Name}
    BY DEF Created
  <2>3. PICK n \in Name : q \in C(n)
    <3> HIDE DEF C
    <3> QED BY <2>2
  <2> QED BY <2>1, <2>3
<1> QED BY <1>1, <1>2 DEF AllOf

-----------------------------------------------------------------------------
(* Sequences.                                                              *)

(* Two sequences with the same elements are the same.                      *)
LEMMA SameSeq ==
  ASSUME NEW S, NEW s \in Seq(S), NEW T, NEW t \in Seq(T), Len(s) = Len(t),
         \A i \in 1 .. Len(s) : s[i] = t[i]
  PROVE  s = t
<1>1. s = [i \in 1 .. Len(s) |-> s[i]] /\ t = [i \in 1 .. Len(t) |-> t[i]]
  BY LenProperties
<1> QED BY <1>1

(* What is somewhere in a sequence is a part of it.                        *)
LEMMA PartIs ==
  ASSUME NEW S, NEW s \in Seq(S), NEW T, NEW mem \in Seq(T), NEW pos, At(mem, pos, s)
  PROVE  /\ SubSeq(mem, pos, pos + Len(s) - 1) = s
         /\ Len(s) \in Nat /\ Len(mem) \in Nat /\ pos \in 1 .. Len(mem) + 1
         /\ pos + Len(s) - 1 \in 0 .. Len(mem)
<1> DEFINE n == Len(s)
           m == Len(mem)
           z == pos + n - 1
           u == SubSeq(mem, pos, z)
<1>1. n \in Nat /\ m \in Nat /\ \A i \in 1 .. m : mem[i] \in T
  BY LenProperties, ElementOfSeq
<1>2. pos \in Nat \ {0} /\ pos + n <= m + 1 /\ \A i \in 1 .. n : mem[pos + i - 1] = s[i]
  BY DEF At
<1> HIDE DEF n, m
<1>3. pos \in Int /\ z \in Int /\ z - pos + 1 = n /\ pos \in 1 .. m + 1 /\ z \in 0 .. m
  BY <1>1, <1>2
<1>4. \A i \in pos .. z : mem[i] \in T
  BY <1>1, <1>2
<1> HIDE DEF z
<1>5. u \in Seq(T) /\ Len(u) = (IF pos <= z THEN z - pos + 1 ELSE 0)
      /\ \A i \in 1 .. z - pos + 1 : u[i] = mem[pos + i - 1]
  BY <1>3, <1>4, SubSeqProperties
<1>6. Len(u) = n
  BY <1>1, <1>3, <1>5
<1>7. \A i \in 1 .. n : u[i] = s[i]
  BY <1>2, <1>3, <1>5
<1> HIDE DEF u
<1>8. u = s
  BY <1>5, <1>6, <1>7, SameSeq DEF n
<1> QED BY <1>1, <1>3, <1>8 DEF u, z, n, m

(* A sequence of two parts.                                                *)
LEMMA OneAndOne ==
  ASSUME NEW x, NEW y
  PROVE  <<x>> \o <<y>> = <<x, y>>
<1> DEFINE S == {x, y}
<1>1. /\ <<x>> \in Seq(S) /\ <<y>> \in Seq(S) /\ <<x, y>> \in Seq(S)
      /\ Len(<<x>>) = 1 /\ Len(<<y>>) = 1 /\ Len(<<x, y>>) = 2
  OBVIOUS
<1>2. /\ <<x>> \o <<y>> \in Seq(S) /\ Len(<<x>> \o <<y>>) = 2
      /\ \A i \in 1 .. 2 : (<<x>> \o <<y>>)[i] = IF i <= 1 THEN <<x>>[i] ELSE <<y>>[i - 1]
  BY <1>1, ConcatProperties
<1>3. \A i \in 1 .. 2 : (<<x>> \o <<y>>)[i] = <<x, y>>[i]
  BY <1>2
<1> HIDE DEF S
<1> QED BY <1>1, <1>2, <1>3, SameSeq

(* Min and Max of what has one.                                            *)
LEMMA LeastIs ==
  ASSUME NEW T \in SUBSET Int, NEW x \in T, \A y \in T : x <= y
  PROVE  Sets!Min(T) = x
<1> DEFINE m == Sets!Min(T)
<1>1. m \in T /\ \A y \in T : m =< y
  BY DEF Sets!Min
<1> HIDE DEF m
<1>2. m = x
  BY <1>1
<1> QED BY <1>2 DEF m

(* Max is the member that no other member exceeds.                         *)
LEMMA GreatestIs ==
  ASSUME NEW T \in SUBSET Int, NEW x \in T, \A y \in T : y <= x
  PROVE  Sets!Max(T) = x
<1> DEFINE m == Sets!Max(T)
<1>1. m \in T /\ \A y \in T : m >= y
  BY DEF Sets!Max
<1> HIDE DEF m
<1>2. m = x
  BY <1>1
<1> QED BY <1>2 DEF m

(* What is trimmed are the blanks around it.                               *)
LEMMA TrimIs ==
  ASSUME NEW T, NEW text \in Seq(T), NEW a \in 1 .. Len(text), NEW z \in 1 .. Len(text),
         text[a] # Space, text[z] # Space,
         \A i \in 1 .. Len(text) : i < a \/ z < i => text[i] = Space
  PROVE  trim(text) = SubSeq(text, a, z)
<1> DEFINE ink == {i \in 1 .. Len(text) : text[i] # Space}
<1>1. Len(text) \in Nat
  BY LenProperties
<1>2. ink \in SUBSET Int /\ a \in ink /\ z \in ink /\ ink # {}
      /\ \A i \in ink : a <= i /\ i <= z
  BY <1>1
<1>3. trim(text) = SubSeq(text, Sets!Min(ink), Sets!Max(ink))
  BY <1>2 DEF trim
<1> HIDE DEF ink
<1> QED BY <1>2, <1>3, LeastIs, GreatestIs

(* trim leaves nothing of blanks.                                          *)
LEMMA BlankIs ==
  ASSUME NEW T, NEW text \in Seq(T), \A i \in 1 .. Len(text) : text[i] = Space
  PROVE  trim(text) = <<>>
BY DEF trim

(* Short sequences.                                                        *)
LEMMA OneChar ==
  ASSUME NEW x
  PROVE  /\ Len(<<x>>) = 1 /\ <<x>>[1] = x /\ <<x>> \in Seq({x}) /\ DOMAIN <<x>> = {1}
         /\ Seqs!Last(<<x>>) = x /\ Seqs!Front(<<x>>) = <<>> /\ <<x>> # <<>>
<1>1. Len(<<x>>) = 1 /\ <<x>>[1] = x /\ <<x>> \in Seq({x}) /\ DOMAIN <<x>> = {1} /\ <<x>> # <<>>
  OBVIOUS
<1>2. Seqs!Last(<<x>>) = x
  BY <1>1 DEF Seqs!Last
<1>3. SubSeq(<<x>>, 1, 0) = <<>>
  BY SubSeqEmpty
<1>4. Seqs!Front(<<x>>) = <<>>
  BY <1>1, <1>3 DEF Seqs!Front
<1> QED BY <1>1, <1>2, <1>4

(* The two characters of a pair.                                           *)
LEMMA TwoChars ==
  ASSUME NEW x, NEW y
  PROVE  /\ Len(<<x, y>>) = 2 /\ <<x, y>>[1] = x /\ <<x, y>>[2] = y
         /\ <<x, y>> \in Seq({x, y}) /\ DOMAIN <<x, y>> = {1, 2}
  OBVIOUS

(* trim removes the blank before a character.                              *)
LEMMA TrimSecond ==
  ASSUME NEW x, x # Space
  PROVE  trim(<<Space, x>>) = <<x>>
<1> DEFINE t == <<Space, x>>
           S == {Space, x}
<1>1. Len(t) = 2 /\ t[1] = Space /\ t[2] = x /\ t \in Seq(S) /\ DOMAIN t = {1, 2}
  BY TwoChars
<1> HIDE DEF t, S
<1>4. \A i \in 1 .. Len(t) : i < 2 \/ 2 < i => t[i] = Space
  BY <1>1
<1>5. trim(t) = SubSeq(t, 2, 2)
  <2>1. 2 \in 1 .. Len(t) /\ t[2] # Space
    BY <1>1
  <2> QED BY <1>1, <1>4, <2>1, TrimIs
<1> DEFINE u == <<x>>
<1>6. Len(u) = 1 /\ u[1] = x /\ u \in Seq({x})
  BY OneChar
<1> HIDE DEF u
<1>7. At(t, 2, u) /\ 2 + Len(u) - 1 = 2
  BY <1>1, <1>6 DEF At
<1>8. SubSeq(t, 2, 2) = u
  BY <1>1, <1>6, <1>7, PartIs
<1> QED BY <1>5, <1>8 DEF t, u

(* A text with nothing but a semicolon, or nothing, is no statement.       *)
LEMMA ExecNone ==
  ASSUME NEW raw, trim(raw) = <<>> \/ trim(raw) = <<";">>
  PROVE  exec(raw) = [kind |-> "none"]
<1> DEFINE t == trim(raw)
           sql == IF t # <<>> /\ Seqs!Last(t) = ";" THEN Seqs!Front(t) ELSE t
<1>1. sql = <<>>
  BY OneChar
<1> HIDE DEF sql
<1>2. sql = <<>> => exec(raw) = [kind |-> "none"]
  BY Zenon DEF exec, sql, t
<1> QED BY <1>1, <1>2

-----------------------------------------------------------------------------
(* Loops that go on at a later position, and add to a sequence.            *)

(* There is such a loop, if it stops behind the n-th position.             *)
GoesOn(n, Done, nx) ==
  /\ n \in Nat /\ \A i \in Nat : i > n => i \in Done
  /\ \A i \in Nat : i \notin Done => nx[i] \in Nat /\ nx[i] > i

IsLoop(f, Done, pre, nx) == f = [i \in Nat |-> IF i \in Done THEN <<>> ELSE pre[i] \o f[nx[i]]]

(* There is such a loop: it is found for the positions behind the n-th,    *)
(* which all stop, and then, one by one, for those before it.              *)
LEMMA Chain ==
  ASSUME NEW n, NEW Done, NEW pre, NEW nx, GoesOn(n, Done, nx)
  PROVE  \E f : IsLoop(f, Done, pre, nx)
<1> USE DEF GoesOn
<1> DEFINE From(k) == {i \in Nat : i >= k}
           To(k, f) == [i \in From(k) |-> IF i \in Done THEN <<>> ELSE pre[i] \o f[nx[i]]]
           Good(k) == \E f : f = To(k, f)
           Bad == {d \in 0 .. n + 1 : ~Good(n + 1 - d)}
<1>1. Bad = {}
  <2>1. SUFFICES ASSUME Bad # {} PROVE FALSE
    OBVIOUS
  <2>2. PICK d \in Bad : \A e \in Bad : d <= e
    <3>1. Bad \in SUBSET Nat
      <4> HIDE DEF Good
      <4> QED OBVIOUS
    <3> HIDE DEF Bad
    <3> QED BY <2>1, <3>1, LeastNumber
  <2>3. d # 0
    <3>1. SUFFICES ASSUME d = 0 PROVE FALSE
      OBVIOUS
    <3> DEFINE f == [i \in From(n + 1) |-> <<>>]
    <3>2. \A i \in From(n + 1) : i \in Done
      OBVIOUS
    <3>3. f = To(n + 1, f)
      <4> HIDE DEF From
      <4> QED BY <3>2
    <3> HIDE DEF f, To
    <3>4. Good(n + 1)
      BY <3>3
    <3>5. n + 1 - d = n + 1
      BY <3>1
    <3> HIDE DEF Good
    <3> QED BY <2>2, <3>4, <3>5
  <2> DEFINE k == n + 1 - d
  <2>4. /\ d - 1 \in 0 .. n + 1 /\ ~(d <= d - 1) /\ n + 1 - (d - 1) = k + 1 /\ k \in Nat
    BY <2>2, <2>3
  <2>5. PICK f : f = To(k + 1, f)
    <3>1. Good(k + 1)
      <4> HIDE DEF Good, k
      <4> QED BY <2>2, <2>4
    <3> QED BY <3>1
  <2> DEFINE h == To(k, f)
  <2> HIDE DEF k
  <2>6. ASSUME NEW i \in From(k), i \notin Done PROVE nx[i] \in From(k + 1)
    BY <2>4, <2>6
  <2>7. ASSUME NEW j \in From(k + 1) PROVE h[j] = f[j]
    <3>1. j \in From(k)
      BY <2>4
    <3>2. h[j] = IF j \in Done THEN <<>> ELSE pre[j] \o f[nx[j]]
      BY <3>1
    <3>3. f[j] = IF j \in Done THEN <<>> ELSE pre[j] \o f[nx[j]]
      <4> HIDE DEF From, h
      <4> QED BY <2>5
    <3> QED BY <3>2, <3>3
  <2>8. h = To(k, h)
    <3>1. \A i \in From(k) : i \notin Done => f[nx[i]] = h[nx[i]]
      <4> HIDE DEF h, From
      <4> QED BY <2>6, <2>7
    <3> DEFINE g == h
    <3> HIDE DEF g
    <3>2. \A i \in From(k) : i \notin Done => f[nx[i]] = g[nx[i]]
      BY <3>1 DEF g
    <3>3. To(k, f) = To(k, g)
      <4> HIDE DEF From
      <4> QED BY <3>2
    <3> QED BY <3>3 DEF g
  <2>9. Good(k)
    <3> HIDE DEF h, To
    <3> QED BY <2>8
  <2> HIDE DEF Good
  <2> QED BY <2>2, <2>9 DEF k
<1>2. Good(0)
  <2>1. n + 1 \in 0 .. n + 1 /\ n + 1 - (n + 1) = 0
    OBVIOUS
  <2> HIDE DEF Good
  <2> QED BY <1>1, <2>1
<1>3. PICK f : f = To(0, f)
  BY <1>2
<1>4. From(0) = Nat
  OBVIOUS
<1>5. f = [i \in Nat |-> IF i \in Done THEN <<>> ELSE pre[i] \o f[nx[i]]]
  <2> HIDE DEF From
  <2> QED BY <1>3, <1>4
<1> QED BY <1>5 DEF IsLoop

(* What it has added from the positions p[1], p[2], ... on is x, if it     *)
(* adds x[k] where it goes from p[k] to p[k + 1].                          *)
Adds(V, m, x, f, p) ==
  /\ m \in Nat /\ x \in Seq(V) /\ Len(x) = m /\ f[p[m + 1]] = <<>>
  /\ \A k \in 1 .. m : f[p[k + 1]] \in Seq(V) => f[p[k]] = <<x[k]>> \o f[p[k + 1]]

(* Such a loop, run from p[1] through the positions of p, returns all of   *)
(* x.                                                                      *)
LEMMA Runs ==
  ASSUME NEW V, NEW m, NEW x, NEW f, NEW p, Adds(V, m, x, f, p)
  PROVE  f[p[1]] = x
<1> USE DEF Adds
<1> DEFINE Good(k) == f[p[k]] = SubSeq(x, k, m)
           Bad == {d \in 0 .. m : ~Good(m + 1 - d)}
<1>1. Bad = {}
  <2>1. SUFFICES ASSUME Bad # {} PROVE FALSE
    OBVIOUS
  <2>2. PICK d \in Bad : \A e \in Bad : d <= e
    <3>1. Bad \in SUBSET Nat
      <4> HIDE DEF Good
      <4> QED OBVIOUS
    <3> HIDE DEF Bad
    <3> QED BY <2>1, <3>1, LeastNumber
  <2>3. d # 0
    <3>1. SUFFICES ASSUME d = 0 PROVE FALSE
      OBVIOUS
    <3>2. SubSeq(x, m + 1, m) = <<>>
      BY SubSeqEmpty
    <3>3. Good(m + 1) /\ m + 1 - d = m + 1
      BY <3>1, <3>2
    <3> HIDE DEF Good
    <3> QED BY <2>2, <3>3
  <2> DEFINE k == m + 1 - d
  <2>4. d - 1 \in 0 .. m /\ ~(d <= d - 1) /\ m + 1 - (d - 1) = k + 1 /\ k \in 1 .. m
    BY <2>2, <2>3
  <2>5. Good(k + 1)
    <3> HIDE DEF Good, k
    <3> QED BY <2>2, <2>4
  <2> HIDE DEF k
  <2>6. SubSeq(x, k + 1, m) \in Seq(V)
    <3>1. \A i \in k + 1 .. m : x[i] \in V
      BY <2>4, ElementOfSeq
    <3>2. k + 1 \in Int /\ m \in Int
      BY <2>4
    <3> QED BY <3>1, <3>2, SubSeqProperties
  <2>7. f[p[k]] = <<x[k]>> \o SubSeq(x, k + 1, m)
    BY <2>4, <2>5, <2>6
  <2>8. SubSeq(x, k, m) = <<x[k]>> \o SubSeq(x, k + 1, m)
    <3>1. m \in k .. Len(x) /\ k \in 1 .. Len(x)
      BY <2>4
    <3> QED BY <3>1, SubSeqRecursiveFirst
  <2>9. Good(k)
    BY <2>7, <2>8
  <2> HIDE DEF Good
  <2> QED BY <2>2, <2>9 DEF k
<1>2. Good(1)
  <2>1. m \in 0 .. m /\ m + 1 - m = 1
    OBVIOUS
  <2> HIDE DEF Good
  <2> QED BY <1>1, <2>1
<1> QED BY <1>2, SubSeqFull

-----------------------------------------------------------------------------
(* The tokenizer.                                                          *)

Stop == ";"

(* The signs, as far as the tokenizer tells them apart.                    *)
LEMMA Signs ==
  /\ Space \in Sign /\ Space # "." /\ "!" \in Sign /\ "!" # "."
  /\ Quotes \subseteq Sign \ {"."} /\ Punctuation \subseteq Sign \ {"."}
  /\ WordEnd \subseteq Sign \ {"."} /\ Quotes \subseteq WordEnd /\ Space \in WordEnd
  /\ Space \notin Quotes /\ Space \notin Punctuation /\ Quotes \cap Punctuation = {}
  /\ "!" \notin Quotes /\ "!" # Space
  /\ {"<", ">"} \subseteq Punctuation /\ {"=", ">"} \subseteq Punctuation
  /\ Stop # Space /\ Stop \notin Quotes /\ Stop \in WordEnd
<1>1. "'" # " " /\ "\"" # " "
  OBVIOUS
<1> QED BY <1>1, Zenon DEF Sign, WordEnd, Quotes, Punctuation, Space, Stop

(* What the operators of two characters look like.                         *)
LEMMA TwoCharIs ==
  ASSUME NEW t \in TwoChar
  PROVE  /\ Len(t) = 2 /\ t[1] \in {"<", ">", "!"} /\ t[2] \in {"=", ">"} /\ DOMAIN t = {1, 2}
         /\ t \in Seq({t[1], t[2]})
<1>1. \E x, y : t = <<x, y>> /\ x \in {"<", ">", "!"} /\ y \in {"=", ">"}
  BY DEF TwoChar
<1>2. PICK x, y : t = <<x, y>> /\ x \in {"<", ">", "!"} /\ y \in {"=", ">"}
  BY <1>1
<1> QED BY <1>2, TwoChars

(* The pieces of a statement, and the token that each is.                  *)
WordPiece(p) == p # <<>> /\ \A j \in DOMAIN p : p[j] \notin Sign \ {"."}
QuotedPiece(p) ==
  /\ Len(p) >= 2 /\ p[1] \in Quotes /\ p[Len(p)] = p[1]
  /\ \A j \in 2 .. Len(p) - 1 : p[j] # p[1]
SignPiece(p) == \E c \in Punctuation : p = <<c>>
Piece(p) == WordPiece(p) \/ QuotedPiece(p) \/ SignPiece(p) \/ p \in TwoChar

Tok(p) ==
  IF p[1] \in Quotes THEN SubSeq(p, 2, Len(p) - 1)
  ELSE IF p = <<"<", ">">> THEN <<"!", "=">> ELSE p

(* The character behind a piece: a word ends there, and it makes no other  *)
(* sign of a sign.                                                         *)
EndsAt(sql, j, p) ==
  j <= Len(sql) =>
    /\ WordPiece(p) => sql[j] \in WordEnd
    /\ SignPiece(p) /\ p[1] \in {"<", ">"} => sql[j] \notin {"=", ">"}

(* until finds the first of the characters it looks for, or the end.       *)
LEMMA UntilIs ==
  ASSUME NEW sql, Len(sql) \in Nat, NEW i \in Nat, NEW j \in i + 1 .. Len(sql) + 1, NEW Ends,
         \A k \in i + 1 .. j - 1 : sql[k] \notin Ends, j <= Len(sql) => sql[j] \in Ends
  PROVE  until(sql, i, Ends) = j
<1> DEFINE T == {k \in i + 1 .. Len(sql) : sql[k] \in Ends} \cup {Len(sql) + 1}
<1>1. T \in SUBSET Int /\ j \in T
  OBVIOUS
<1>2. ASSUME NEW k \in T PROVE j <= k
  <2>1. k \in i + 1 .. Len(sql) + 1
    OBVIOUS
  <2>2. k = Len(sql) + 1 \/ sql[k] \in Ends
    OBVIOUS
  <2>3. ~(k \in i + 1 .. j - 1)  \/ k = Len(sql) + 1
    BY <2>2
  <2> HIDE DEF T
  <2> QED BY <2>1, <2>3
<1>3. until(sql, i, Ends) = Sets!Min(T)
  BY DEF until
<1> HIDE DEF T
<1> QED BY <1>1, <1>2, <1>3, LeastIs

(* The two characters at i, or the last one.                               *)
TwoAt(sql, i) == SubSeq(sql, i, Sets!Min({i + 1, Len(sql)}))

(* The character at a position and the one behind it, if there is one.     *)
LEMMA TwoAtIs ==
  ASSUME NEW T, NEW sql \in Seq(T), NEW i \in 1 .. Len(sql)
  PROVE  /\ TwoAt(sql, i) \in Seq(T) /\ TwoAt(sql, i)[1] = sql[i]
         /\ Len(TwoAt(sql, i)) = IF i < Len(sql) THEN 2 ELSE 1
         /\ i < Len(sql) => TwoAt(sql, i)[2] = sql[i + 1]
<1> DEFINE n == Len(sql)
           z == IF i < n THEN i + 1 ELSE i
<1>1. n \in Nat /\ i \in 1 .. n /\ \A k \in 1 .. n : sql[k] \in T
  BY LenProperties, ElementOfSeq
<1> HIDE DEF n
<1>2. Sets!Min({i + 1, n}) = z
  <2>1. {i + 1, n} \in SUBSET Int /\ z \in {i + 1, n} /\ \A y \in {i + 1, n} : z <= y
    BY <1>1
  <2> HIDE DEF z
  <2> QED BY <2>1, LeastIs
<1>3. TwoAt(sql, i) = SubSeq(sql, i, z)
  BY <1>2 DEF TwoAt, n
<1>4. i \in Int /\ z \in Int /\ i <= z /\ z - i + 1 = (IF i < n THEN 2 ELSE 1)
      /\ \A k \in i .. z : sql[k] \in T
  BY <1>1
<1>5. SubSeq(sql, i, z) \in Seq(T) /\ Len(SubSeq(sql, i, z)) = z - i + 1
      /\ \A k \in 1 .. z - i + 1 : SubSeq(sql, i, z)[k] = sql[i + k - 1]
  <2> HIDE DEF z
  <2> QED BY <1>4, SubSeqProperties
<1>6. SubSeq(sql, i, z)[1] = sql[i]
  <2>1. 1 \in 1 .. z - i + 1 /\ i + 1 - 1 = i
    BY <1>1, <1>4
  <2> HIDE DEF z
  <2> QED BY <1>5, <2>1
<1>7. i < n => SubSeq(sql, i, z)[2] = sql[i + 1]
  <2>1. i < n => 2 \in 1 .. z - i + 1 /\ i + 2 - 1 = i + 1
    BY <1>1, <1>4
  <2> HIDE DEF z
  <2> QED BY <1>5, <2>1
<1> HIDE DEF z
<1> QED BY <1>3, <1>4, <1>5, <1>6, <1>7 DEF n
(* The five ways that a turn of the loop can go.                           *)
LEMMA TurnSpace ==
  ASSUME NEW sql, NEW i, sql[i] = Space
  PROVE  turn(sql, i) = [toks |-> <<>>, next |-> i + 1]
BY ZenonT(30) DEF turn

(* A turn of the tokenizer at a quote.                                     *)
LEMMA TurnQuote ==
  ASSUME NEW sql, NEW i, sql[i] # Space, sql[i] \in Quotes
  PROVE  turn(sql, i) = [toks |-> <<SubSeq(sql, i + 1, until(sql, i, {sql[i]}) - 1)>>,
                         next |-> until(sql, i, {sql[i]}) + 1]
BY ZenonT(30) DEF turn

(* A turn at an operator of two characters.                                *)
LEMMA TurnPair ==
  ASSUME NEW sql, NEW i, sql[i] # Space, sql[i] \notin Quotes, TwoAt(sql, i) \in TwoChar
  PROVE  turn(sql, i) = [toks |-> <<IF TwoAt(sql, i) = <<"<", ">">> THEN <<"!", "=">>
                                    ELSE TwoAt(sql, i)>>, next |-> i + 2]
BY ZenonT(30) DEF turn, TwoAt

(* A turn at a character that is a token of its own.                       *)
LEMMA TurnOne ==
  ASSUME NEW sql, NEW i, sql[i] # Space, sql[i] \notin Quotes, TwoAt(sql, i) \notin TwoChar,
         sql[i] \in Punctuation
  PROVE  turn(sql, i) = [toks |-> <<<<sql[i]>>>>, next |-> i + 1]
BY ZenonT(30) DEF turn, TwoAt

(* A turn at any other character.                                          *)
LEMMA TurnRest ==
  ASSUME NEW sql, NEW i, sql[i] # Space, sql[i] \notin Quotes, TwoAt(sql, i) \notin TwoChar,
         sql[i] \notin Punctuation
  PROVE  turn(sql, i) = [toks |-> <<SubSeq(sql, i, until(sql, i, WordEnd) - 1)>>,
                         next |-> until(sql, i, WordEnd)]
BY ZenonT(30) DEF turn, TwoAt

(* The loop goes on.                                                       *)
LEMMA TurnGoesOn ==
  ASSUME NEW sql, Len(sql) \in Nat, NEW i \in 0 .. Len(sql)
  PROVE  turn(sql, i).next \in Nat /\ turn(sql, i).next > i
<1>1. ASSUME NEW Ends PROVE until(sql, i, Ends) \in Nat /\ until(sql, i, Ends) > i
  <2> DEFINE T == {j \in i + 1 .. Len(sql) : sql[j] \in Ends} \cup {Len(sql) + 1}
  <2>1. T \in SUBSET Nat /\ T # {} /\ \A j \in T : j > i
    OBVIOUS
  <2>2. until(sql, i, Ends) = Sets!Min(T)
    BY DEF until
  <2> HIDE DEF T
  <2>3. \E x \in T : \A y \in T : x =< y
    BY <2>1, LeastNumber
  <2>4. Sets!Min(T) \in T
    BY <2>3 DEF Sets!Min
  <2> QED BY <2>1, <2>2, <2>4
<1>2. turn(sql, i).next \in {i + 1, until(sql, i, {sql[i]}) + 1, i + 2, until(sql, i, WordEnd)}
  <2>1. sql[i] = Space => turn(sql, i).next = i + 1
    BY TurnSpace
  <2>2. sql[i] # Space /\ sql[i] \in Quotes => turn(sql, i).next = until(sql, i, {sql[i]}) + 1
    BY TurnQuote
  <2>3. sql[i] # Space /\ sql[i] \notin Quotes
      /\ TwoAt(sql, i) \in TwoChar => turn(sql, i).next = i + 2
    BY TurnPair
  <2>4. sql[i] # Space /\ sql[i] \notin Quotes /\ TwoAt(sql, i) \notin TwoChar
           /\ sql[i] \in Punctuation => turn(sql, i).next = i + 1
    BY TurnOne
  <2>5. sql[i] # Space /\ sql[i] \notin Quotes /\ TwoAt(sql, i) \notin TwoChar
           /\ sql[i] \notin Punctuation => turn(sql, i).next = until(sql, i, WordEnd)
    BY TurnRest
  <2> QED BY <2>1, <2>2, <2>3, <2>4, <2>5
<1>3. until(sql, i, {sql[i]}) \in Nat /\ until(sql, i, {sql[i]}) > i
      /\ until(sql, i, WordEnd) \in Nat /\ until(sql, i, WordEnd) > i
  BY <1>1
<1> DEFINE a == until(sql, i, {sql[i]})
           b == until(sql, i, WordEnd)
           x == turn(sql, i).next
<1>4. x \in {i + 1, a + 1, i + 2, b} /\ a \in Nat /\ a > i /\ b \in Nat /\ b > i
  BY <1>2, <1>3
<1> HIDE DEF a, b, x
<1>5. x \in Nat /\ x > i
  BY <1>4
<1> QED BY <1>5 DEF x

(* A piece is one token.                                                   *)
LEMMA TurnWord ==
  ASSUME NEW T, NEW sql \in Seq(T), NEW U, NEW p \in Seq(U), NEW i, At(sql, i, p), WordPiece(p),
         EndsAt(sql, i + Len(p), p)
  PROVE  turn(sql, i) = [toks |-> <<p>>, next |-> i + Len(p)]
<1> DEFINE n == Len(p)
           m == Len(sql)
<1>1. /\ n \in Nat \ {0} /\ m \in Nat /\ i \in Nat \ {0} /\ i + n <= m + 1 /\ DOMAIN p = 1 .. n
      /\ \A j \in 1 .. n : sql[i + j - 1] = p[j] /\ p[j] \notin Sign \ {"."}
  BY LenProperties, EmptySeq DEF At, WordPiece
<1>2. SubSeq(sql, i, i + n - 1) = p
  BY PartIs
<1>3. i + n <= m => sql[i + n] \in WordEnd
  BY DEF EndsAt
<1> HIDE DEF n, m
<1>4. ASSUME NEW k \in i .. i + n - 1 PROVE sql[k] \notin Sign \ {"."}
  <2>1. k - i + 1 \in 1 .. n /\ i + (k - i + 1) - 1 = k
    BY <1>1
  <2> QED BY <1>1, <2>1
<1>5. sql[i] \notin Sign \ {"."} /\ i \in 1 .. m
  BY <1>1, <1>4
<1>6. sql[i] # Space /\ sql[i] \notin Quotes /\ sql[i] \notin Punctuation
      /\ sql[i] \notin {"<", ">", "!"}
  BY <1>5, Signs
<1>7. TwoAt(sql, i) \notin TwoChar
  <2> DEFINE two == TwoAt(sql, i)
  <2>1. two[1] = sql[i]
    BY <1>5, TwoAtIs DEF m
  <2> HIDE DEF two
  <2>2. two \in TwoChar => two[1] \in {"<", ">", "!"}
    BY TwoCharIs
  <2>3. two \notin TwoChar
    BY <1>6, <2>1, <2>2
  <2> QED BY <2>3 DEF two
<1>8. until(sql, i, WordEnd) = i + n
  <2>1. i + n \in i + 1 .. m + 1 /\ i \in Nat
    BY <1>1
  <2>2. \A k \in i + 1 .. i + n - 1 : sql[k] \notin WordEnd
    <3>1. \A k \in i + 1 .. i + n - 1 : k \in i .. i + n - 1
      BY <1>1
    <3> QED BY <3>1, <1>4, Signs
  <2> QED BY <2>1, <2>2, <1>1, <1>3, UntilIs DEF m
<1>9. turn(sql, i) = [toks |-> <<SubSeq(sql, i, i + n - 1)>>, next |-> i + n]
  <2> DEFINE e == until(sql, i, WordEnd)
  <2>1. turn(sql, i) = [toks |-> <<SubSeq(sql, i, e - 1)>>, next |-> e]
    BY <1>6, <1>7, TurnRest
  <2>2. e = i + n
    BY <1>8
  <2>3. e - 1 = i + n - 1
    BY <2>2, <1>1
  <2> HIDE DEF e
  <2>4. SubSeq(sql, i, e - 1) = SubSeq(sql, i, i + n - 1)
    BY <2>3
  <2> QED BY <2>1, <2>2, <2>4
<1> QED BY <1>2, <1>9 DEF n

(* At a quoted piece a turn takes what is between its quotes.              *)
LEMMA TurnQuoted ==
  ASSUME NEW T, NEW sql \in Seq(T), NEW U, NEW p \in Seq(U), NEW i, At(sql, i, p), QuotedPiece(p)
  PROVE  turn(sql, i) = [toks |-> <<SubSeq(p, 2, Len(p) - 1)>>, next |-> i + Len(p)]
<1> DEFINE n == Len(p)
           m == Len(sql)
           z == i + n - 1
<1>1. /\ n \in Nat /\ n >= 2 /\ m \in Nat /\ i \in Nat \ {0} /\ i + n <= m + 1 /\ DOMAIN p = 1 .. n
      /\ \A j \in 1 .. n : sql[i + j - 1] = p[j]
      /\ \A k \in 1 .. m : sql[k] \in T
      /\ p[1] \in Quotes /\ p[n] = p[1] /\ \A j \in 2 .. n - 1 : p[j] # p[1]
      /\ \A j \in 1 .. n : p[j] \in U
  BY LenProperties, ElementOfSeq DEF At, QuotedPiece
<1> HIDE DEF n, m
<1>2. sql[i] = p[1] /\ sql[z] = p[1]
  <2>1. 1 \in 1 .. n /\ n \in 1 .. n /\ i + 1 - 1 = i
    BY <1>1
  <2> QED BY <1>1, <2>1
<1>3. sql[i] # Space /\ sql[i] \in Quotes
  BY <1>1, <1>2, Signs
<1>4. until(sql, i, {sql[i]}) = z
  <2>1. z \in i + 1 .. m + 1 /\ i \in Nat
    BY <1>1
  <2>2. ASSUME NEW k \in i + 1 .. z - 1 PROVE sql[k] \notin {sql[i]}
    <3>1. k - i + 1 \in 2 .. n - 1 /\ i + (k - i + 1) - 1 = k /\ k - i + 1 \in 1 .. n
      BY <1>1
    <3> QED BY <1>1, <1>2, <3>1
  <2> HIDE DEF z
  <2> QED BY <2>1, <2>2, <1>1, <1>2, UntilIs DEF m
<1>5. turn(sql, i) = [toks |-> <<SubSeq(sql, i + 1, z - 1)>>, next |-> z + 1]
  <2> HIDE DEF z
  <2> QED BY <1>3, <1>4, TurnQuote
<1>6. z + 1 = i + n
  BY <1>1
<1>7. SubSeq(sql, i + 1, z - 1) = SubSeq(p, 2, n - 1)
  <2> DEFINE u == SubSeq(sql, i + 1, z - 1)
             v == SubSeq(p, 2, n - 1)
  <2>1. \A k \in 2 .. n - 1 : p[k] \in U
    BY <1>1
  <2>2. v \in Seq(U) /\ Len(v) = (IF 2 <= n - 1 THEN (n - 1) - 2 + 1 ELSE 0)
        /\ \A k \in 1 .. (n - 1) - 2 + 1 : v[k] = p[2 + k - 1]
    BY <1>1, <2>1, SubSeqProperties
  <2>3. \A k \in i + 1 .. z - 1 : sql[k] \in T
    BY <1>1
  <2>4. i + 1 \in Int /\ z - 1 \in Int
    BY <1>1
  <2>5. u \in Seq(T) /\ Len(u) = (IF i + 1 <= z - 1 THEN (z - 1) - (i + 1) + 1 ELSE 0)
        /\ \A k \in 1 .. (z - 1) - (i + 1) + 1 : u[k] = sql[(i + 1) + k - 1]
    <3> HIDE DEF z
    <3> QED BY <2>3, <2>4, SubSeqProperties
  <2> HIDE DEF u, v
  <2>6. Len(u) = n - 2 /\ Len(v) = n - 2
    BY <1>1, <2>2, <2>5
  <2>7. ASSUME NEW k \in 1 .. n - 2 PROVE u[k] = v[k]
    <3>0. i \in Nat /\ n \in Nat /\ k \in Nat /\ k >= 1 /\ k <= n - 2
      BY <1>1
    <3>1. k \in 1 .. (z - 1) - (i + 1) + 1 /\ k \in 1 .. (n - 1) - 2 + 1
          /\ (i + 1) + k - 1 = i + (k + 1) - 1 /\ 2 + k - 1 = k + 1 /\ k + 1 \in 1 .. n
      <4>1. (z - 1) - (i + 1) + 1 = n - 2 /\ (n - 1) - 2 + 1 = n - 2
        BY <3>0
      <4>2. (i + 1) + k - 1 = i + (k + 1) - 1 /\ 2 + k - 1 = k + 1 /\ k + 1 \in 1 .. n
        BY <3>0
      <4> QED BY <4>1, <4>2
    <3>2. u[k] = sql[i + (k + 1) - 1] /\ v[k] = p[k + 1]
      <4> HIDE DEF z
      <4> QED BY <2>2, <2>5, <3>1
    <3> QED BY <1>1, <3>1, <3>2
  <2>8. u = v
    <3>1. u \in Seq(T) /\ v \in Seq(U) /\ Len(u) = Len(v) /\ \A k \in 1 .. Len(u) : u[k] = v[k]
      BY <2>2, <2>5, <2>6, <2>7
    <3> QED BY <3>1, SameSeq
  <2> QED BY <2>8 DEF u, v
<1> HIDE DEF z
<1> QED BY <1>5, <1>6, <1>7 DEF n

(* At an operator of two characters a turn takes it; <> is read as !=.     *)
LEMMA TurnTwo ==
  ASSUME NEW T, NEW sql \in Seq(T), NEW p \in TwoChar, NEW i, At(sql, i, p)
  PROVE  turn(sql, i) = [toks |-> <<IF p = <<"<", ">">> THEN <<"!", "=">> ELSE p>>,
                         next |-> i + Len(p)]
<1> DEFINE m == Len(sql)
           two == TwoAt(sql, i)
<1>1. m \in Nat
  BY LenProperties
<1>2. Len(p) = 2 /\ p[1] \in {"<", ">", "!"} /\ p \in Seq({p[1], p[2]})
  BY TwoCharIs
<1> HIDE DEF m
<1>3. i \in 1 .. m /\ i < m /\ sql[i] = p[1] /\ sql[i + 1] = p[2]
  <2>1. i \in Nat \ {0} /\ i + 2 <= m + 1 /\ \A j \in 1 .. 2 : sql[i + j - 1] = p[j]
    BY <1>2 DEF At, m
  <2>2. 1 \in 1 .. 2 /\ 2 \in 1 .. 2 /\ i + 1 - 1 = i /\ i + 2 - 1 = i + 1
    BY <2>1
  <2>3. sql[i] = p[1] /\ sql[i + 1] = p[2]
    BY <2>1, <2>2
  <2> QED BY <1>1, <2>1, <2>3
<1>4. two \in Seq(T) /\ two[1] = p[1] /\ Len(two) = 2 /\ two[2] = p[2]
  BY <1>3, TwoAtIs DEF m
<1>5. two = p
  <2> HIDE DEF two
  <2>1. \A k \in 1 .. 2 : two[k] = p[k]
    <3>1. \A k \in 1 .. 2 : k = 1 \/ k = 2
      OBVIOUS
    <3> QED BY <1>4, <3>1
  <2> QED BY <1>2, <1>4, <2>1, SameSeq
<1>6. sql[i] # Space /\ sql[i] \notin Quotes
  BY <1>2, <1>3, Signs
<1> QED BY <1>2, <1>5, <1>6, TurnPair

(* At a sign a turn takes the sign, if what follows makes no pair of it.   *)
LEMMA TurnSign ==
  ASSUME NEW T, NEW sql \in Seq(T), NEW p, SignPiece(p), NEW i, At(sql, i, p),
         EndsAt(sql, i + Len(p), p)
  PROVE  turn(sql, i) = [toks |-> <<p>>, next |-> i + Len(p)]
<1> DEFINE m == Len(sql)
           two == TwoAt(sql, i)
<1>1. PICK c \in Punctuation : p = <<c>>
  BY DEF SignPiece
<1>2. Len(p) = 1 /\ p[1] = c
  BY <1>1, OneChar
<1>3. m \in Nat
  BY LenProperties
<1> HIDE DEF m
<1>4. i \in 1 .. m /\ sql[i] = c
  <2>1. i \in Nat \ {0} /\ i + 1 <= m + 1 /\ \A j \in 1 .. 1 : sql[i + j - 1] = p[j]
    BY <1>2 DEF At, m
  <2>2. 1 \in 1 .. 1 /\ i + 1 - 1 = i
    BY <2>1
  <2>3. sql[i] = c
    BY <1>2, <2>1, <2>2
  <2> QED BY <1>3, <2>1, <2>3
<1>5. sql[i] # Space /\ sql[i] \notin Quotes /\ sql[i] \in Punctuation
  BY <1>4, Signs
<1>6. two \notin TwoChar
  <2>1. SUFFICES ASSUME two \in TwoChar PROVE FALSE
    OBVIOUS
  <2>2. two[1] = c /\ Len(two) = IF i < m THEN 2 ELSE 1
    BY <1>4, TwoAtIs DEF m
  <2>3. Len(two) = 2 /\ two[1] \in {"<", ">", "!"} /\ two[2] \in {"=", ">"}
    BY <2>1, TwoCharIs
  <2> HIDE DEF two
  <2>4. i < m
    BY <2>2, <2>3
  <2>5. two[2] = sql[i + 1]
    BY <1>4, <2>4, TwoAtIs DEF m, two
  <2>6. c \in {"<", ">"}
    BY <1>1, <2>2, <2>3, Signs DEF Punctuation
  <2>7. sql[i + 1] \notin {"=", ">"}
    <3>1. i + Len(p) <= Len(sql) /\ i + Len(p) = i + 1
      BY <1>2, <1>3, <1>4, <2>4 DEF m
    <3>2. SignPiece(p) /\ p[1] \in {"<", ">"}
      BY <1>2, <2>6
    <3> QED BY <3>1, <3>2 DEF EndsAt
  <2> QED BY <2>3, <2>5, <2>7
<1> QED BY <1>1, <1>2, <1>4, <1>5, <1>6, TurnOne

(* At any piece that ends where the next begins, a turn takes that piece's *)
(* token and goes on behind it.                                            *)
LEMMA TurnIs ==
  ASSUME NEW T, NEW sql \in Seq(T), NEW U, NEW p \in Seq(U), NEW i, At(sql, i, p), Piece(p),
         EndsAt(sql, i + Len(p), p)
  PROVE  turn(sql, i) = [toks |-> <<Tok(p)>>, next |-> i + Len(p)]
<1>1. CASE WordPiece(p)
  <2>1. p[1] \notin Quotes /\ p # <<"<", ">">>
    <3>1. 1 \in DOMAIN p
      BY <1>1, LenProperties, EmptySeq DEF WordPiece
    <3>2. p[1] \notin Sign \ {"."}
      BY <1>1, <3>1 DEF WordPiece
    <3>3. <<"<", ">">>[1] = "<"
      OBVIOUS
    <3> QED BY <3>2, <3>3, Signs
  <2> QED BY <1>1, <2>1, TurnWord DEF Tok
<1>2. CASE QuotedPiece(p)
  BY <1>2, TurnQuoted DEF Tok, QuotedPiece
<1>3. CASE SignPiece(p)
  <2>1. p[1] \notin Quotes /\ Len(p) = 1
    BY <1>3, OneChar, Signs DEF SignPiece
  <2>2. Len(<<"<", ">">>) = 2
    OBVIOUS
  <2>3. p # <<"<", ">">>
    BY <2>1, <2>2
  <2> QED BY <1>3, <2>1, <2>3, TurnSign DEF Tok
<1>4. CASE p \in TwoChar
  <2>1. p[1] \notin Quotes
    BY <1>4, TwoCharIs, Signs
  <2> QED BY <1>4, <2>1, TurnTwo DEF Tok
<1> QED BY <1>1, <1>2, <1>3, <1>4 DEF Piece

-----------------------------------------------------------------------------
(* Pieces one behind the other, touching or with a blank between: where    *)
(* each begins.                                                            *)
Touch(p, q) ==
  /\ WordPiece(p) => q[1] \in WordEnd
  /\ SignPiece(p) /\ p[1] \in {"<", ">"} => q[1] \notin {"=", ">"}
LaidOut(sql, P, n, b) ==
  /\ b[1] = 1 /\ b[n + 1] = Len(sql) + 1
  /\ \A i \in 1 .. n :
       /\ At(sql, b[i], P[i])
       /\ \/ b[i + 1] = b[i] + Len(P[i]) /\ (i < n => Touch(P[i], P[i + 1]))
          \/ b[i + 1] = b[i] + Len(P[i]) + 1 /\ sql[b[i] + Len(P[i])] = Space

(* No piece is empty.                                                      *)
LEMMA PieceIs ==
  ASSUME NEW U, NEW p \in Seq(U), Piece(p)
  PROVE  Len(p) \in Nat /\ Len(p) >= 1 /\ 1 \in DOMAIN p
<1>1. CASE WordPiece(p)
  BY <1>1, LenProperties, EmptySeq DEF WordPiece
<1>2. CASE QuotedPiece(p)
  BY <1>2, LenProperties DEF QuotedPiece
<1>3. CASE SignPiece(p)
  BY <1>3, OneChar DEF SignPiece
<1>4. CASE p \in TwoChar
  <2>1. Len(p) = 2 /\ DOMAIN p = {1, 2}
    BY <1>4, TwoCharIs
  <2> QED BY <2>1
<1> QED BY <1>1, <1>2, <1>3, <1>4 DEF Piece

(* The loop of tokenize comes to an end.                                   *)
LEMMA TokenLoop ==
  ASSUME NEW sql, Len(sql) \in Nat
  PROVE  \E f : /\ tokenize(sql) = f[1]
                /\ \A i \in Nat : f[i] = IF i > Len(sql) THEN <<>>
                                         ELSE turn(sql, i).toks \o f[turn(sql, i).next]
<1> DEFINE n == Len(sql)
           Done == {i \in Nat : i > n}
           pre == [i \in Nat |-> turn(sql, i).toks]
           nx == [i \in Nat |-> turn(sql, i).next]
           F(f) == [i \in Nat |-> IF i > n THEN <<>> ELSE turn(sql, i).toks \o f[turn(sql, i).next]]
           G(f) == [i \in Nat |-> IF i \in Done THEN <<>> ELSE pre[i] \o f[nx[i]]]
           h == CHOOSE f : f = F(f)
<1>1. tokenize(sql) = h[1]
  BY DEF tokenize
<1>2. \E f : f = G(f)
  <2>1. n \in Nat
    OBVIOUS
  <2>2. \A i \in Nat : i > n => i \in Done
    OBVIOUS
  <2>3. \A i \in Nat : i \notin Done => nx[i] \in Nat /\ nx[i] > i
    <3>1. SUFFICES ASSUME NEW i \in Nat, i \notin Done PROVE nx[i] \in Nat /\ nx[i] > i
      OBVIOUS
    <3>2. i \in 0 .. n
      BY <3>1
    <3>3. nx[i] = turn(sql, i).next
      OBVIOUS
    <3> QED BY <3>2, <3>3, TurnGoesOn
  <2> HIDE DEF Done, pre, nx, n
  <2>4. GoesOn(n, Done, nx)
    BY <2>1, <2>2, <2>3 DEF GoesOn
  <2>5. PICK f : IsLoop(f, Done, pre, nx)
    BY <2>4, Chain
  <2>6. f = [i \in Nat |-> IF i \in Done THEN <<>> ELSE pre[i] \o f[nx[i]]]
    BY <2>5 DEF IsLoop
  <2> QED BY <2>6
<1>3. ASSUME NEW f PROVE F(f) = G(f)
  <2>1. ASSUME NEW i \in Nat
      PROVE (i \in Done <=> i > n) /\ pre[i] = turn(sql, i).toks /\ nx[i] = turn(sql, i).next
    OBVIOUS
  <2> HIDE DEF Done, pre, nx, n
  <2> QED BY <2>1
<1>4. h = F(h)
  <2>1. \E f : f = F(f)
    <3> HIDE DEF F, G
    <3> QED BY <1>2, <1>3
  <2> HIDE DEF F
  <2> QED BY <2>1
<1>5. \A i \in Nat : h[i] = IF i > n THEN <<>> ELSE turn(sql, i).toks \o h[turn(sql, i).next]
  <2> HIDE DEF h
  <2> QED BY <1>4
<1> HIDE DEF h
<1> QED BY <1>1, <1>5

(* A text of pieces is read as their tokens.                               *)
LEMMA TokensAre ==
  ASSUME NEW T, NEW sql \in Seq(T), NEW U, NEW n \in Nat, NEW P, NEW b, LaidOut(sql, P, n, b),
         \A i \in 1 .. n : P[i] \in Seq(U) /\ Piece(P[i])
  PROVE  tokenize(sql) = [i \in 1 .. n |-> Tok(P[i])]
<1> DEFINE m == Len(sql)
           x == [i \in 1 .. n |-> Tok(P[i])]
           V == {Tok(P[i]) : i \in 1 .. n}
<1>0. m \in Nat
  BY LenProperties
<1>1. PICK f : /\ tokenize(sql) = f[1]
               /\ \A i \in Nat : f[i] = IF i > m THEN <<>>
                                        ELSE turn(sql, i).toks \o f[turn(sql, i).next]
  BY <1>0, TokenLoop
<1> HIDE DEF m
<1>2. b[1] = 1 /\ b[n + 1] = m + 1
  BY DEF LaidOut, m
<1>3. f[b[n + 1]] = <<>>
  BY <1>0, <1>1, <1>2
<1>4. ASSUME NEW k \in 1 .. n, f[b[k + 1]] \in Seq(V)
      PROVE  f[b[k]] = <<x[k]>> \o f[b[k + 1]]
  <2> DEFINE l == Len(P[k])
             j == b[k] + l
  <2>1. P[k] \in Seq(U) /\ Piece(P[k]) /\ At(sql, b[k], P[k])
    BY DEF LaidOut
  <2>2. l \in Nat /\ l >= 1 /\ b[k] \in Nat \ {0} /\ j <= m + 1 /\ b[k] <= m
    <3>1. l \in Nat /\ l >= 1
      BY <2>1, PieceIs
    <3>2. b[k] \in Nat \ {0} /\ j <= m + 1
      BY <2>1 DEF At, m
    <3> QED BY <3>1, <3>2, <1>0
  <2> HIDE DEF l
  <2>3. \/ b[k + 1] = j /\ (k < n => Touch(P[k], P[k + 1]))
        \/ b[k + 1] = j + 1 /\ sql[j] = Space
    BY DEF LaidOut, l
  <2>4. b[k + 1] <= m + 1 /\ (k = n => b[k + 1] = m + 1)
    <3>1. CASE k = n
      BY <1>0, <1>2, <3>1
    <3>2. CASE k # n
      <4>1. k + 1 \in 1 .. n
        BY <3>2
      <4>2. At(sql, b[k + 1], P[k + 1]) /\ Len(P[k + 1]) \in Nat
        BY <4>1, PieceIs DEF LaidOut
      <4> QED BY <1>0, <3>2, <4>2 DEF At, m
    <3> QED BY <3>1, <3>2
  <2>5. EndsAt(sql, b[k] + Len(P[k]), P[k])
    <3>1. SUFFICES ASSUME j <= m
                   PROVE  /\ WordPiece(P[k]) => sql[j] \in WordEnd
                          /\ SignPiece(P[k]) /\ P[k][1] \in {"<", ">"} => sql[j] \notin {"=", ">"}
      BY DEF EndsAt, m, l
    <3>2. CASE sql[j] = Space
      BY <3>2, Signs DEF Space
    <3>3. CASE b[k + 1] = j /\ (k < n => Touch(P[k], P[k + 1]))
      <4>1. k < n /\ k + 1 \in 1 .. n
        BY <1>0, <2>4, <3>1, <3>3
      <4>2. At(sql, j, P[k + 1]) /\ 1 \in 1 .. Len(P[k + 1])
        <5>1. Len(P[k + 1]) \in Nat /\ Len(P[k + 1]) >= 1
          BY <4>1, PieceIs
        <5> HIDE DEF j
        <5> QED BY <3>3, <4>1, <5>1 DEF LaidOut
      <4>3. sql[j + 1 - 1] = P[k + 1][1]
        <5> HIDE DEF j
        <5> QED BY <4>2 DEF At
      <4>4. j + 1 - 1 = j
        BY <2>2
      <4>5. Touch(P[k], P[k + 1])
        BY <3>3, <4>1
      <4> HIDE DEF j
      <4> QED BY <4>3, <4>4, <4>5 DEF Touch
    <3> QED BY <2>3, <3>2, <3>3
  <2>6. turn(sql, b[k]) = [toks |-> <<Tok(P[k])>>, next |-> j]
    BY <2>1, <2>5, TurnIs DEF l
  <2>7. f[b[k]] = <<x[k]>> \o f[j]
    <3>1. b[k] \in Nat /\ ~(b[k] > m)
      BY <1>0, <2>2
    <3>2. f[b[k]] = turn(sql, b[k]).toks \o f[turn(sql, b[k]).next]
      BY <1>1, <3>1
    <3> HIDE DEF j
    <3> QED BY <2>6, <3>2
  <2>8. f[j] = f[b[k + 1]]
    <3>1. CASE b[k + 1] = j
      BY <3>1
    <3>2. CASE b[k + 1] = j + 1 /\ sql[j] = Space
      <4>1. j \in Nat /\ ~(j > m)
        BY <1>0, <2>2, <2>4, <3>2
      <4>2. f[j] = turn(sql, j).toks \o f[turn(sql, j).next]
        <5> HIDE DEF j
        <5> QED BY <1>1, <4>1
      <4>3. turn(sql, j) = [toks |-> <<>>, next |-> j + 1]
        <5> HIDE DEF j
        <5> QED BY <3>2, TurnSpace
      <4> HIDE DEF j, V
      <4>4. f[j] = <<>> \o f[b[k + 1]]
        BY <3>2, <4>2, <4>3
      <4> QED BY <1>4, <4>4, ConcatEmptySeq
    <3> QED BY <2>3, <3>1, <3>2
  <2> QED BY <2>7, <2>8
<1>5. x \in Seq(V) /\ Len(x) = n
  <2>1. x \in [1 .. n -> V]
    OBVIOUS
  <2> HIDE DEF V, x
  <2> QED BY <2>1, IsASeq, LenProperties
<1> HIDE DEF x, V
<1>6. f[b[1]] = x
  <2>1. \A k \in 1 .. n : f[b[k + 1]] \in Seq(V) => f[b[k]] = <<x[k]>> \o f[b[k + 1]]
    BY <1>4
  <2>2. Adds(V, n, x, f, b)
    BY <1>3, <1>5, <2>1 DEF Adds
  <2> QED BY <2>2, Runs
<1> QED BY <1>1, <1>2, <1>6 DEF x

-----------------------------------------------------------------------------
(* The loop that puts the pieces together.                                 *)
LEMMA JoinedLoop ==
  ASSUME NEW T, NEW ps, Len(ps) \in Nat, NEW look, \A i \in 1 .. Len(ps) :
      Spaced(ps, i, look) \in Seq(T)
  PROVE  \E g : /\ Prefixes(T, Len(ps), [i \in 1 .. Len(ps) |-> Spaced(ps, i, look)], g)
                /\ g[0] = <<>> /\ Joined(ps, look) = g[Len(ps)]
<1> DEFINE L == Len(ps)
           part == [i \in 1 .. L |-> Spaced(ps, i, look)]
           P(f) == [i \in 0 .. L |-> IF i = 0 THEN <<>> ELSE f[i - 1] \o part[i]]
           Q(f) == [i \in 0 .. L |-> IF i = 0 THEN <<>> ELSE f[i - 1] \o Spaced(ps, i, look)]
           g == CHOOSE f : f = Q(f)
<1>1. part \in [1 .. L -> Seq(T)] /\ <<>> \in Seq(T)
  BY EmptySeq
<1>2. \A f : P(f) = Q(f)
  OBVIOUS
<1>3. PICK f : /\ f = [i \in 0 .. L |-> IF i = 0 THEN <<>> ELSE f[i - 1] \o part[i]]
               /\ Prefixes(T, L, part, f)
  <2> HIDE DEF part
  <2> QED BY <1>1, Concatenation
<1>4. g = P(g)
  <2>1. f = P(f)
    BY <1>3
  <2> HIDE DEF P, Q
  <2> QED BY <1>2, <2>1
<1>5. Joined(ps, look) = g[L]
  BY DEF Joined
<1> HIDE DEF g
<1>6. \A i \in 0 .. L : f[i] = g[i]
  <2>1. f[0] = g[0]
    BY <1>3, <1>4
  <2>2. \A i \in 1 .. L : f[i] = f[i - 1] \o part[i] /\ g[i] = g[i - 1] \o part[i]
    <3> HIDE DEF part
    <3>1. SUFFICES ASSUME NEW i \in 1 .. L
                   PROVE  f[i] = f[i - 1] \o part[i] /\ g[i] = g[i - 1] \o part[i]
      OBVIOUS
    <3>2. i \in 0 .. L /\ i # 0
      OBVIOUS
    <3>3. f[i] = f[i - 1] \o part[i]
      BY <1>3, <3>2
    <3>4. g[i] = g[i - 1] \o part[i]
      BY <1>4, <3>2
    <3> QED BY <3>3, <3>4
  <2> HIDE DEF part
  <2>3. \A i \in 1 .. L : f[i - 1] = g[i - 1] => f[i] = g[i]
    BY <2>2
  <2> QED BY <2>1, <2>3, SameLoop
<1>7. f = g
  <2>1. f = [i \in 0 .. L |-> f[i]] /\ g = [i \in 0 .. L |-> g[i]]
    BY <1>3, <1>4
  <2> QED BY <1>6, <2>1
<1>8. g[0] = <<>>
  BY <1>4
<1>9. Prefixes(T, L, part, g)
  <2> HIDE DEF part
  <2> QED BY <1>3, <1>7
<1> HIDE DEF part
<1> QED BY <1>5, <1>8, <1>9 DEF part

(* Pieces that can be read apart in a look.                                *)
NoGlue(ps, n) ==
  \A i \in 1 .. n - 1 :
    SignPiece(ps[i]) /\ ps[i][1] \in {"<", ">"} => ps[i + 1][1] \notin {"=", ">"}
Readable(T, ps, n) ==
  /\ n \in Nat /\ \A i \in 1 .. n : ps[i] \in Seq(T) /\ Piece(ps[i])
  /\ NoGlue(ps, n)
Tight(P, n, b) == b[n + 1] = b[n] + Len(P[n])

(* Two pieces set next to each other without a blank are still two tokens, *)
(* where a look that omits the blank does so.                              *)
LEMMA TouchIs ==
  ASSUME NEW U, NEW p \in Seq(U), Piece(p), NEW q, NEW look, IsLook(look),
         Seqs!Last(p) \in look.after \/ q[1] \in look.before,
         SignPiece(p) /\ p[1] \in {"<", ">"} => q[1] \notin {"=", ">"}
  PROVE  Touch(p, q)
<1>1. look.before \subseteq WordEnd /\ look.after \subseteq Punctuation \cup Quotes
  BY DEF IsLook
<1>2. ASSUME WordPiece(p), Seqs!Last(p) \in look.after PROVE FALSE
  <2>1. Len(p) \in DOMAIN p
    BY PieceIs, LenProperties
  <2>2. Seqs!Last(p) \notin Sign \ {"."}
    BY <1>2, <2>1 DEF WordPiece, Seqs!Last
  <2> QED BY <1>1, <1>2, <2>2, Signs
<1> QED BY <1>1, <1>2 DEF Touch

(* The pieces of a statement, joined in any look, are laid out one after   *)
(* the other in its text.                                                  *)
LEMMA JoinedIs ==
  ASSUME NEW T, Space \in T, NEW ps, Len(ps) >= 1, Readable(T, ps, Len(ps)), NEW look, IsLook(look)
  PROVE  /\ Joined(ps, look) \in Seq(T)
         /\ \E b : LaidOut(Joined(ps, look), ps, Len(ps), b) /\ Tight(ps, Len(ps), b)
<1> DEFINE n == Len(ps)
           part == [i \in 1 .. n |-> Spaced(ps, i, look)]
           gap(i) == IF Spaced(ps, i, look) = ps[i] THEN 0 ELSE 1
<1>1. n \in Nat /\ n >= 1 /\ \A i \in 1 .. n : ps[i] \in Seq(T) /\ Piece(ps[i])
  BY DEF Readable
<1>2. \A i \in 1 .. n : Spaced(ps, i, look) \in {ps[i], <<Space>> \o ps[i]}
    /\ Spaced(ps, i, look) \in Seq(T)
  <2>1. <<Space>> \in Seq(T)
    OBVIOUS
  <2> HIDE DEF n
  <2>2. \A i \in 1 .. n : <<Space>> \o ps[i] \in Seq(T)
    BY <1>1, <2>1, ConcatProperties
  <2> QED BY <1>1, <2>2 DEF Spaced
<1>3. PICK g : Prefixes(T, n, part, g) /\ g[0] = <<>> /\ Joined(ps, look) = g[n]
  BY <1>1, <1>2, JoinedLoop
<1> DEFINE sql == Joined(ps, look)
           b == [i \in 1 .. n + 1 |-> IF i = n + 1
               THEN End(g, n) + 1 ELSE End(g, i - 1) + 1 + gap(i)]
<1>4. sql \in Seq(T)
  <2>1. n \in 0 .. n
    BY <1>1
  <2> HIDE DEF n, part
  <2> QED BY <1>3, <2>1 DEF Prefixes
<1>5. ASSUME NEW i \in 1 .. n
      PROVE  /\ At(sql, End(g, i - 1) + 1 + gap(i), ps[i]) /\ gap(i) \in {0, 1}
             /\ gap(i) = 1 => sql[End(g, i - 1) + 1] = Space
             /\ End(g, i) = End(g, i - 1) + gap(i) + Len(ps[i]) /\ End(g, i - 1) \in Nat
             /\ End(g, i) \in Nat /\ Len(ps[i]) \in Nat
  <2>1. /\ At(sql, End(g, i - 1) + 1, part[i])
        /\ End(g, i - 1) \in Nat /\ End(part, i) \in Nat /\ End(g, i) \in Nat
        /\ End(g, i) = End(g, i - 1) + End(part, i)
    <3> HIDE DEF n, part
    <3> QED BY <1>3, PartIsAt
  <2>2. End(part, i) = Len(Spaced(ps, i, look)) /\ part[i] = Spaced(ps, i, look)
    BY DEF End
  <2>3. Len(ps[i]) \in Nat /\ ps[i] \in Seq(T) /\ Len(sql) \in Nat
    BY <1>1, <1>4, LenProperties
  <2> HIDE DEF part, n, sql
  <2>4. CASE Spaced(ps, i, look) = ps[i]
    BY <2>1, <2>2, <2>3, <2>4
  <2>5. CASE Spaced(ps, i, look) # ps[i]
    <3> DEFINE e == End(g, i - 1)
    <3>1. Spaced(ps, i, look) = <<Space>> \o ps[i] /\ <<Space>> \in Seq(T)
      BY <1>2, <2>5
    <3>2. At(sql, e + 1, <<Space>>) /\ At(sql, e + 1 + Len(<<Space>>), ps[i])
      <4>1. At(sql, e + 1, <<Space>> \o ps[i])
        BY <2>1, <2>2, <3>1
      <4> HIDE DEF e
      <4> QED BY <2>3, <3>1, <4>1, AtConcat
    <3>3. Len(<<Space>>) = 1 /\ <<Space>>[1] = Space
      BY OneChar
    <3>4. sql[e + 1 + 1 - 1] = Space
      <4>1. 1 \in 1 .. 1
        OBVIOUS
      <4> HIDE DEF e
      <4> QED BY <3>2, <3>3, <4>1 DEF At
    <3>5. e \in Nat
      BY <2>1
    <3>6. e + 1 + 1 - 1 = e + 1
      BY <3>5
    <3>7. Len(Spaced(ps, i, look)) = 1 + Len(ps[i])
      BY <2>3, <3>1, <3>3, ConcatProperties
    <3>8. gap(i) = 1
      BY <2>5
    <3> HIDE DEF gap
    <3>9. End(g, i) = e + 1 + Len(ps[i])
      BY <2>1, <2>2, <3>7
    <3> QED BY <2>1, <2>3, <3>2, <3>3, <3>4, <3>6, <3>8, <3>9
  <2> QED BY <2>4, <2>5
<1>6. \A i \in 1 .. n : b[i] = End(g, i - 1) + 1 + gap(i)
  <2>1. \A i \in 1 .. n : i # n + 1 /\ i \in 1 .. n + 1
    BY <1>1
  <2> HIDE DEF gap, n
  <2> QED BY <2>1
<1>7. b[n + 1] = End(g, n) + 1
  <2>1. n + 1 \in 1 .. n + 1
    BY <1>1
  <2> HIDE DEF gap, n
  <2> QED BY <2>1
<1> HIDE DEF b
<1>8. b[1] = 1
  <2>1. 1 \in 1 .. n /\ gap(1) = 0
    BY <1>1 DEF Spaced
  <2>2. End(g, 0) = 0
    BY <1>3 DEF End
  <2>3. b[1] = End(g, 1 - 1) + 1 + gap(1) /\ 1 - 1 = 0
    BY <1>6, <2>1
  <2> HIDE DEF gap
  <2> QED BY <2>1, <2>2, <2>3
<1>9. b[n + 1] = Len(sql) + 1
  BY <1>3, <1>7 DEF End
<1>10. ASSUME NEW i \in 1 .. n
       PROVE  \/ b[i + 1] = b[i] + Len(ps[i]) /\ (i < n => Touch(ps[i], ps[i + 1]))
              \/ b[i + 1] = b[i] + Len(ps[i]) + 1 /\ sql[b[i] + Len(ps[i])] = Space
  <2>1. b[i] + Len(ps[i]) = End(g, i) + 1 /\ End(g, i) \in Nat
    <3> DEFINE e == End(g, i - 1)
               f == End(g, i)
               l == Len(ps[i])
               x == gap(i)
    <3>1. f = e + x + l /\ x \in {0, 1} /\ e \in Nat /\ l \in Nat /\ b[i] = e + 1 + x /\ f \in Nat
      BY <1>5, <1>6
    <3> HIDE DEF e, f, l, x
    <3>2. b[i] + l = f + 1 /\ f \in Nat
      BY <3>1
    <3> QED BY <3>2 DEF f, l
  <2>2. CASE i = n
    BY <1>7, <2>1, <2>2
  <2>3. CASE i # n
    <3>1. i + 1 \in 1 .. n /\ i + 1 - 1 = i
      BY <1>1, <2>3
    <3>2. b[i + 1] = End(g, i) + 1 + gap(i + 1) /\ gap(i + 1) \in {0, 1}
          /\ (gap(i + 1) = 1 => sql[End(g, i) + 1] = Space)
      <4> HIDE DEF gap, sql
      <4> QED BY <1>5, <1>6, <3>1
    <3>3. CASE gap(i + 1) = 1
      <4> HIDE DEF gap, sql
      <4> QED BY <2>1, <3>2, <3>3
    <3>4. CASE gap(i + 1) = 0
      <4>1. b[i + 1] = b[i] + Len(ps[i])
        <5> HIDE DEF gap, sql
        <5> QED BY <2>1, <3>2, <3>4
      <4>2. Spaced(ps, i + 1, look) = ps[i + 1]
        BY <3>4
      <4>3. Seqs!Last(ps[i]) \in look.after \/ ps[i + 1][1] \in look.before
        <5>1. SUFFICES ASSUME ~(Seqs!Last(ps[i]) \in look.after \/ ps[i + 1][1] \in look.before)
            PROVE FALSE
          OBVIOUS
        <5>2. i + 1 # 1
          BY <1>1
        <5>3. Spaced(ps, i + 1, look) = <<Space>> \o ps[i + 1]
          BY <3>1, <5>1, <5>2 DEF Spaced
        <5>4. <<Space>> \in Seq(T) /\ ps[i + 1] \in Seq(T)
          BY <1>1, <3>1
        <5>5. Len(<<Space>> \o ps[i + 1]) = 1 + Len(ps[i + 1]) /\ Len(ps[i + 1]) \in Nat
          BY <5>4, OneChar, ConcatProperties, LenProperties
        <5>6. Len(ps[i + 1]) = 1 + Len(ps[i + 1])
          BY <4>2, <5>3, <5>5
        <5> QED BY <5>5, <5>6
      <4>4. SignPiece(ps[i]) /\ ps[i][1] \in {"<", ">"} => ps[i + 1][1] \notin {"=", ">"}
        <5>1. i \in 1 .. n - 1
          BY <1>1, <2>3
        <5> QED BY <5>1 DEF Readable, NoGlue
      <4>5. Touch(ps[i], ps[i + 1])
        BY <1>1, <4>3, <4>4, TouchIs
      <4> QED BY <4>1, <4>5
    <3> QED BY <3>2, <3>3, <3>4
  <2> QED BY <2>2, <2>3
<1>11. LaidOut(sql, ps, n, b)
  <2>1. \A i \in 1 .. n : At(sql, b[i], ps[i])
    <3> HIDE DEF gap, sql, n
    <3> QED BY <1>5, <1>6
  <2> HIDE DEF sql, n
  <2> QED BY <1>8, <1>9, <1>10, <2>1 DEF LaidOut
<1>12. Tight(ps, n, b)
  <2>1. n \in 1 .. n
    BY <1>1
  <2> DEFINE e == End(g, n - 1)
             f == End(g, n)
             l == Len(ps[n])
             x == gap(n)
  <2>2. f = e + x + l /\ x \in {0, 1} /\ e \in Nat /\ l \in Nat /\ b[n] = e + 1 + x
      /\ b[n + 1] = f + 1
    BY <1>5, <1>6, <1>7, <2>1
  <2> HIDE DEF e, f, l, x
  <2>3. b[n + 1] = b[n] + l
    BY <2>2
  <2> QED BY <2>3 DEF Tight, l
<1> QED BY <1>4, <1>11, <1>12

-----------------------------------------------------------------------------
(* What is in a part is in the whole.                                      *)
LEMMA AtLeft ==
  ASSUME NEW T, NEW s \in Seq(T), NEW t \in Seq(T), NEW p, Len(p) \in Nat, NEW pos, At(s, pos, p)
  PROVE  At(s \o t, pos, p)
<1>1. Len(s) \in Nat /\ Len(t) \in Nat
  BY LenProperties
<1>2. Len(s \o t) = Len(s) + Len(t)
      /\ \A i \in 1 .. Len(s) + Len(t) : (s \o t)[i] = IF i <= Len(s) THEN s[i] ELSE t[i - Len(s)]
  BY ConcatProperties
<1> DEFINE m == Len(s)
           n == Len(t)
           u == s \o t
           l == Len(p)
<1>3. m \in Nat /\ n \in Nat /\ Len(u) = m + n /\ l \in Nat
      /\ \A i \in 1 .. m + n : u[i] = IF i <= m THEN s[i] ELSE t[i - m]
  BY <1>1, <1>2
<1>4. pos \in Nat \ {0} /\ pos + l <= m + 1 /\ \A i \in 1 .. l : s[pos + i - 1] = p[i]
  BY DEF At
<1> HIDE DEF m, n, u, l
<1>5. ASSUME NEW i \in 1 .. l PROVE u[pos + i - 1] = p[i]
  <2>1. pos + i - 1 \in 1 .. m + n /\ pos + i - 1 <= m
    BY <1>3, <1>4
  <2> QED BY <1>3, <1>4, <2>1
<1>6. pos + l <= Len(u) + 1
  BY <1>3, <1>4
<1>7. At(u, pos, p)
  BY <1>4, <1>5, <1>6 DEF At, l
<1> QED BY <1>7 DEF u

(* What stands in the second of two texts stands in both together.         *)
LEMMA AtRight ==
  ASSUME NEW T, NEW s \in Seq(T), NEW t \in Seq(T), NEW p, Len(p) \in Nat, NEW pos, At(t, pos, p)
  PROVE  At(s \o t, pos + Len(s), p)
<1>1. Len(s) \in Nat /\ Len(t) \in Nat
  BY LenProperties
<1>2. Len(s \o t) = Len(s) + Len(t)
      /\ \A i \in 1 .. Len(s) + Len(t) : (s \o t)[i] = IF i <= Len(s) THEN s[i] ELSE t[i - Len(s)]
  BY ConcatProperties
<1> DEFINE m == Len(s)
           n == Len(t)
           u == s \o t
           l == Len(p)
<1>3. m \in Nat /\ n \in Nat /\ Len(u) = m + n /\ l \in Nat
      /\ \A i \in 1 .. m + n : u[i] = IF i <= m THEN s[i] ELSE t[i - m]
  BY <1>1, <1>2
<1>4. pos \in Nat \ {0} /\ pos + l <= n + 1 /\ \A i \in 1 .. l : t[pos + i - 1] = p[i]
  BY DEF At
<1> HIDE DEF m, n, u, l
<1>5. ASSUME NEW i \in 1 .. l PROVE u[(pos + m) + i - 1] = p[i]
  <2>1. (pos + m) + i - 1 \in 1 .. m + n /\ ~((pos + m) + i - 1 <= m)
        /\ (pos + m) + i - 1 - m = pos + i - 1
    BY <1>3, <1>4
  <2> DEFINE k == (pos + m) + i - 1
  <2>2. u[k] = IF k <= m THEN s[k] ELSE t[k - m]
    BY <1>3, <2>1
  <2>3. t[pos + i - 1] = p[i]
    BY <1>4
  <2>4. ~(k <= m) /\ k - m = pos + i - 1
    <3>1. m \in Nat /\ pos \in Nat /\ i \in Int
      BY <1>3, <1>4
    <3> QED BY ONLY <2>1, <3>1
  <2> HIDE DEF k
  <2>5. u[k] = p[i]
    BY ONLY <2>2, <2>3, <2>4
  <2> QED BY ONLY <2>5 DEF k
<1>6. (pos + m) + l <= Len(u) + 1 /\ pos + m \in Nat \ {0}
  BY <1>3, <1>4
<1>7. At(u, pos + m, p)
  BY <1>5, <1>6 DEF At, l
<1> QED BY <1>7 DEF u, m

(* How a text of pieces begins and ends.                                   *)
LEMMA EndsOf ==
  ASSUME NEW U, NEW P, NEW n \in Nat \ {0}, \A i \in 1 .. n : P[i] \in Seq(U) /\ Piece(P[i]),
         NEW T, NEW s \in Seq(T), NEW b, LaidOut(s, P, n, b), Tight(P, n, b)
  PROVE  /\ Len(s) \in Nat \ {0} /\ s[1] = P[1][1] /\ s[Len(s)] = P[n][Len(P[n])]
<1>1. 1 \in 1 .. n /\ n \in 1 .. n
  OBVIOUS
<1>2. At(s, 1, P[1]) /\ At(s, b[n], P[n])
  BY <1>1 DEF LaidOut
<1>3. Len(P[1]) \in Nat /\ Len(P[1]) >= 1 /\ Len(P[n]) \in Nat /\ Len(P[n]) >= 1
  BY <1>1, PieceIs
<1>4. Len(s) \in Nat
  BY LenProperties
<1>5. Len(s) + 1 = b[n] + Len(P[n])
  BY DEF LaidOut, Tight
<1>6. s[1 + 1 - 1] = P[1][1] /\ 1 + 1 - 1 = 1
  <2>1. 1 \in 1 .. Len(P[1])
    BY <1>3
  <2> QED BY <1>2, <2>1 DEF At
<1>7. Len(s) # 0
  BY <1>2, <1>3, <1>4 DEF At
<1> DEFINE l == Len(P[n])
<1>8. s[b[n] + l - 1] = P[n][l]
  <2>1. l \in 1 .. l
    BY <1>3
  <2> QED BY <1>2, <2>1 DEF At
<1>9. b[n] + l - 1 = Len(s)
  <2>1. b[n] \in Nat /\ l \in Nat
    BY <1>2, <1>3 DEF At
  <2> HIDE DEF l
  <2> QED BY <1>4, <1>5, <2>1 DEF l
<1> QED BY <1>4, <1>6, <1>7, <1>8, <1>9

(* A blank more at the end.                                                *)
LEMMA WithBlank ==
  ASSUME NEW U, NEW P, NEW n \in Nat \ {0}, \A i \in 1 .. n : P[i] \in Seq(U) /\ Piece(P[i]),
         NEW T, Space \in T, NEW s \in Seq(T), NEW b, LaidOut(s, P, n, b), Tight(P, n, b)
  PROVE  \E d : LaidOut(s \o <<Space>>, P, n, d)
<1> DEFINE u == s \o <<Space>>
           m == Len(s)
           d == [i \in 1 .. n + 1 |-> IF i = n + 1 THEN m + 2 ELSE b[i]]
<1>1. m \in Nat /\ <<Space>> \in Seq(T) /\ Len(<<Space>>) = 1 /\ <<Space>>[1] = Space
  BY LenProperties, OneChar
<1>2. Len(u) = m + 1 /\ \A i \in 1 .. m + 1 : u[i] = IF i <= m THEN s[i] ELSE <<Space>>[i - m]
  <2>1. Len(u) = m + Len(<<Space>>) /\ \A i \in 1 .. m + Len(<<Space>>) :
          u[i] = IF i <= m THEN s[i] ELSE <<Space>>[i - m]
    BY <1>1, ConcatProperties
  <2> QED BY <1>1, <2>1
<1>3. \A i \in 1 .. n : d[i] = b[i] /\ i + 1 \in 1 .. n + 1
  OBVIOUS
<1>4. d[n + 1] = m + 2 /\ \A i \in 1 .. n : i # n => d[i + 1] = b[i + 1]
  OBVIOUS
<1>5. \A i \in 1 .. n : Len(P[i]) \in Nat
  BY PieceIs
<1> HIDE DEF d, u
<1>6. b[1] = 1 /\ b[n + 1] = m + 1 /\ b[n + 1] = b[n] + Len(P[n])
  BY DEF LaidOut, Tight
<1>7. d[1] = 1 /\ d[n + 1] = Len(u) + 1
  BY <1>1, <1>2, <1>3, <1>4, <1>6
<1>8. ASSUME NEW i \in 1 .. n
      PROVE  /\ At(u, d[i], P[i])
             /\ \/ d[i + 1] = d[i] + Len(P[i]) /\ (i < n => Touch(P[i], P[i + 1]))
                \/ d[i + 1] = d[i] + Len(P[i]) + 1 /\ u[d[i] + Len(P[i])] = Space
  <2>1. At(s, b[i], P[i])
    BY DEF LaidOut
  <2>2. At(u, d[i], P[i])
    BY <1>1, <1>3, <1>5, <2>1, AtLeft DEF u
  <2>3. CASE i = n
    <3>1. u[m + 1] = Space
      BY <1>1, <1>2
    <3>2. d[i + 1] = (m + 1) + 1 /\ d[i] + Len(P[i]) = m + 1
      BY <1>1, <1>3, <1>4, <1>6, <2>3
    <3> QED BY <2>2, <3>1, <3>2
  <2>4. CASE i # n
    <3>1. \/ b[i + 1] = b[i] + Len(P[i]) /\ (i < n => Touch(P[i], P[i + 1]))
          \/ b[i + 1] = b[i] + Len(P[i]) + 1 /\ s[b[i] + Len(P[i])] = Space
      BY DEF LaidOut
    <3>2. d[i] = b[i] /\ d[i + 1] = b[i + 1]
      BY <1>3, <1>4, <2>4
    <3>3. b[i + 1] = b[i] + Len(P[i]) + 1 => u[b[i] + Len(P[i])] = s[b[i] + Len(P[i])]
      <4> DEFINE j == b[i] + Len(P[i])
      <4>1. i + 1 \in 1 .. n
        BY <2>4
      <4>2. b[i + 1] \in Nat /\ b[i + 1] <= m + 1
        <5>1. At(s, b[i + 1], P[i + 1]) /\ Len(P[i + 1]) \in Nat
          BY <4>1, <1>5 DEF LaidOut
        <5> QED BY <1>1, <5>1 DEF At
      <4>3. j \in Nat /\ j >= 1
        BY <2>1, <1>5 DEF At
      <4> HIDE DEF j
      <4>4. b[i + 1] = j + 1 => u[j] = s[j]
        BY <1>1, <1>2, <4>2, <4>3
      <4> QED BY <4>4 DEF j
    <3> QED BY <2>2, <3>1, <3>2, <3>3
  <2> QED BY <2>3, <2>4
<1>9. LaidOut(u, P, n, d)
  BY <1>7, <1>8 DEF LaidOut
<1> QED BY <1>9 DEF u

(* Two texts with a blank between.                                         *)
LEMMA TwoTexts ==
  ASSUME NEW U, NEW R, NEW n \in Nat \ {0}, NEW m \in Nat \ {0},
         \A i \in 1 .. n + m : R[i] \in Seq(U) /\ Piece(R[i]),
         NEW P, \A i \in 1 .. n : P[i] = R[i], NEW Q, \A i \in 1 .. m : Q[i] = R[n + i],
         NEW T, Space \in T, NEW s \in Seq(T), NEW t \in Seq(T), NEW b, NEW c,
         LaidOut(s, P, n, b), Tight(P, n, b), LaidOut(t, Q, m, c), Tight(Q, m, c)
  PROVE  \E d : LaidOut(s \o <<Space>> \o t, R, n + m, d) /\ Tight(R, n + m, d)
<1> DEFINE v == s \o <<Space>>
           u == v \o t
           h == Len(s) + 1
           k == Len(t)
           N == n + m
           d == [i \in 1 .. N + 1 |-> IF i <= n THEN b[i] ELSE c[i - n] + h]
<1>1. Len(s) \in Nat /\ k \in Nat /\ <<Space>> \in Seq(T) /\ Len(<<Space>>) = 1
    /\ <<Space>>[1] = Space
  BY LenProperties, OneChar
<1>2. v \in Seq(T) /\ Len(v) = h /\ v[h] = Space
      /\ \A i \in 1 .. Len(s) : v[i] = s[i]
  <2>1. v \in Seq(T) /\ Len(v) = Len(s) + Len(<<Space>>) /\ \A i \in 1 .. Len(s) + Len(<<Space>>) :
          v[i] = IF i <= Len(s) THEN s[i] ELSE <<Space>>[i - Len(s)]
    BY <1>1, ConcatProperties
  <2> HIDE DEF v
  <2> QED BY <1>1, <2>1
<1> HIDE DEF v
<1>3. u \in Seq(T) /\ Len(u) = h + k
    /\ \A i \in 1 .. h + k : u[i] = IF i <= h THEN v[i] ELSE t[i - h]
  <2>1. u \in Seq(T) /\ Len(u) = Len(v) + Len(t) /\ \A i \in 1 .. Len(v) + Len(t) :
          u[i] = IF i <= Len(v) THEN v[i] ELSE t[i - Len(v)]
    BY <1>2, ConcatProperties
  <2> HIDE DEF u, h
  <2> QED BY <1>2, <2>1
<1>4. h \in Nat /\ h >= 1 /\ N \in Nat
  BY <1>1
<1>5. \A i \in 1 .. n : d[i] = b[i]
  BY <1>4
<1>6. \A i \in 1 .. m + 1 : d[n + i] = c[i] + h
  <2>1. SUFFICES ASSUME NEW i \in 1 .. m + 1 PROVE d[n + i] = c[i] + h
    OBVIOUS
  <2> DEFINE j == n + i
  <2>2. j \in 1 .. N + 1 /\ ~(j <= n) /\ j - n = i
    OBVIOUS
  <2> HIDE DEF N, h, j
  <2>3. d[j] = c[i] + h
    BY <2>2
  <2> QED BY <2>3 DEF j
<1>7. /\ b[1] = 1 /\ b[n + 1] = h /\ b[n + 1] = b[n] + Len(P[n])
      /\ c[1] = 1 /\ c[m + 1] = k + 1 /\ c[m + 1] = c[m] + Len(Q[m])
  BY DEF LaidOut, Tight
<1>8. (\A i \in 1 .. n : Len(P[i]) \in Nat /\ Len(P[i]) >= 1)
      /\ \A i \in 1 .. m : Len(Q[i]) \in Nat /\ Len(Q[i]) >= 1
  <2>1. \A i \in 1 .. n : i \in 1 .. n + m
    OBVIOUS
  <2>2. \A i \in 1 .. m : n + i \in 1 .. n + m
    OBVIOUS
  <2> QED BY <2>1, <2>2, PieceIs
<1> HIDE DEF d, u, h, k, N
<1>9. ASSUME NEW i \in 1 .. n
      PROVE  /\ At(u, d[i], R[i])
             /\ \/ d[i + 1] = d[i] + Len(R[i]) /\ (i < N => Touch(R[i], R[i + 1]))
                \/ d[i + 1] = d[i] + Len(R[i]) + 1 /\ u[d[i] + Len(R[i])] = Space
  <2>1. At(s, b[i], P[i])
    BY DEF LaidOut
  <2>2. At(u, d[i], R[i])
    <3>1. At(v, b[i], P[i])
      BY <1>1, <1>8, <2>1, AtLeft DEF v
    <3>2. At(u, b[i], P[i])
      BY <1>2, <1>8, <3>1, AtLeft DEF u
    <3> QED BY <1>5, <3>2
  <2>3. CASE i = n
    <3>1. d[i + 1] = h + 1
      <4>1. 1 \in 1 .. m + 1 /\ 1 + h = h + 1
        BY <1>4
      <4> QED BY <1>6, <1>7, <2>3, <4>1
    <3>2. d[i] + Len(R[i]) = h
      BY <1>5, <1>7, <2>3
    <3>3. u[h] = Space
      <4>1. h \in 1 .. h + k /\ h <= h
        BY <1>1, <1>4
      <4> QED BY <1>2, <1>3, <4>1
    <3> QED BY <2>2, <3>1, <3>2, <3>3
  <2>4. CASE i # n
    <3>1. \/ b[i + 1] = b[i] + Len(P[i]) /\ (i < n => Touch(P[i], P[i + 1]))
          \/ b[i + 1] = b[i] + Len(P[i]) + 1 /\ s[b[i] + Len(P[i])] = Space
      BY DEF LaidOut
    <3>2. i + 1 \in 1 .. n /\ i < n /\ i < N
      BY <2>4 DEF N
    <3>3. d[i] = b[i] /\ d[i + 1] = b[i + 1] /\ P[i] = R[i] /\ P[i + 1] = R[i + 1]
      BY <1>5, <3>2
    <3>4. b[i + 1] = b[i] + Len(P[i]) + 1 => u[b[i] + Len(P[i])] = s[b[i] + Len(P[i])]
      <4> DEFINE j == b[i] + Len(P[i])
      <4>1. b[i + 1] \in Nat /\ b[i + 1] <= Len(s)
        <5>1. At(s, b[i + 1], P[i + 1]) /\ Len(P[i + 1]) \in Nat /\ Len(P[i + 1]) >= 1
          BY <3>2, <1>8 DEF LaidOut
        <5> QED BY <1>1, <5>1 DEF At
      <4>2. j \in Nat /\ j >= 1
        BY <2>1, <1>8 DEF At
      <4> HIDE DEF j
      <4>3. ASSUME b[i + 1] = j + 1 PROVE u[j] = s[j]
        <5>1. j \in 1 .. Len(s) /\ j \in 1 .. h + k /\ j <= h
          BY <1>1, <4>1, <4>2, <4>3 DEF h
        <5> QED BY <1>2, <1>3, <5>1
      <4> QED BY <4>3 DEF j
    <3> QED BY <2>2, <3>1, <3>2, <3>3, <3>4
  <2> QED BY <2>3, <2>4
<1>10. ASSUME NEW i \in 1 .. m
       PROVE  /\ At(u, d[n + i], R[n + i])
              /\ \/ /\ d[(n + i) + 1] = d[n + i] + Len(R[n + i])
                    /\ n + i < N => Touch(R[n + i], R[(n + i) + 1])
                 \/ d[(n + i) + 1] = d[n + i] + Len(R[n + i]) + 1
                     /\ u[d[n + i] + Len(R[n + i])] = Space
  <2>1. At(t, c[i], Q[i])
    BY DEF LaidOut
  <2>2. At(u, c[i] + Len(v), Q[i])
    BY <1>2, <1>8, <2>1, AtRight DEF u
  <2>3. d[n + i] = c[i] + h /\ Q[i] = R[n + i]
    BY <1>6
  <2>4. d[(n + i) + 1] = c[i + 1] + h
    <3>1. i + 1 \in 1 .. m + 1 /\ (n + i) + 1 = n + (i + 1)
      OBVIOUS
    <3> QED BY <1>6, <3>1
  <2>5. \/ c[i + 1] = c[i] + Len(Q[i]) /\ (i < m => Touch(Q[i], Q[i + 1]))
        \/ c[i + 1] = c[i] + Len(Q[i]) + 1 /\ t[c[i] + Len(Q[i])] = Space
    BY DEF LaidOut
  <2> DEFINE l == Len(Q[i])
             z == c[i]
  <2>6. l \in Nat /\ z \in Nat /\ z >= 1
    BY <2>1, <1>8 DEF At
  <2>7. n + i < N => i < m /\ Q[i + 1] = R[(n + i) + 1]
    <3>1. n + i < N => i + 1 \in 1 .. m /\ (n + i) + 1 = n + (i + 1) /\ i < m
      BY DEF N
    <3> QED BY <3>1
  <2> HIDE DEF l, z
  <2>8. CASE c[i + 1] = z + l /\ (i < m => Touch(Q[i], Q[i + 1]))
    <3>1. d[(n + i) + 1] = (z + h) + l
      BY <1>4, <2>4, <2>6, <2>8
    <3> QED BY <1>2, <2>2, <2>3, <2>7, <2>8, <3>1 DEF l, z
  <2>9. CASE c[i + 1] = z + l + 1 /\ t[z + l] = Space
    <3>1. d[(n + i) + 1] = (z + h) + l + 1
      BY <1>4, <2>4, <2>6, <2>9
    <3>2. u[(z + h) + l] = Space
      <4>1. z + l <= k
        <5>1. CASE i = m
          BY <1>7, <2>6, <2>9, <5>1, <1>1
        <5>2. CASE i # m
          <6>1. i + 1 \in 1 .. m
            BY <5>2
          <6>2. At(t, c[i + 1], Q[i + 1]) /\ Len(Q[i + 1]) \in Nat /\ Len(Q[i + 1]) >= 1
            BY <6>1, <1>8 DEF LaidOut
          <6>3. c[i + 1] <= k
            BY <1>1, <6>2 DEF At, k
          <6> QED BY <1>1, <2>6, <2>9, <6>3
        <5> QED BY <5>1, <5>2
      <4>2. (z + h) + l \in 1 .. h + k /\ ~((z + h) + l <= h) /\ (z + h) + l - h = z + l
        BY <1>1, <1>4, <2>6, <4>1
      <4> DEFINE j == (z + h) + l
      <4>3. j \in 1 .. h + k /\ ~(j <= h) /\ j - h = z + l
        BY <1>1, <1>4, <2>6, <4>1
      <4> HIDE DEF j
      <4>4. u[j] = t[j - h]
        BY <1>3, <4>3
      <4>5. u[j] = Space
        BY <2>9, <4>3, <4>4
      <4> QED BY <4>5 DEF j
    <3> QED BY <1>2, <2>2, <2>3, <3>1, <3>2 DEF l, z
  <2> QED BY <2>5, <2>8, <2>9 DEF l, z
<1>11. LaidOut(u, R, N, d)
  <2>1. d[1] = 1
    <3>1. 1 \in 1 .. n
      OBVIOUS
    <3> QED BY <1>5, <1>7, <3>1
  <2>2. d[N + 1] = Len(u) + 1
    <3>1. m + 1 \in 1 .. m + 1 /\ n + (m + 1) = N + 1
      BY DEF N
    <3>2. d[N + 1] = (k + 1) + h
      BY <1>6, <1>7, <3>1
    <3> QED BY <1>1, <1>3, <1>4, <3>2
  <2>3. ASSUME NEW i \in 1 .. N
        PROVE  /\ At(u, d[i], R[i])
               /\ \/ d[i + 1] = d[i] + Len(R[i]) /\ (i < N => Touch(R[i], R[i + 1]))
                  \/ d[i + 1] = d[i] + Len(R[i]) + 1 /\ u[d[i] + Len(R[i])] = Space
    <3>1. CASE i \in 1 .. n
      BY <1>9, <3>1
    <3>2. CASE i \notin 1 .. n
      <4>1. i - n \in 1 .. m /\ n + (i - n) = i
        BY <3>2 DEF N
      <4> QED BY <1>10, <4>1
    <3> QED BY <3>1, <3>2
  <2> QED BY <2>1, <2>2, <2>3 DEF LaidOut
<1>12. Tight(R, N, d)
  <2>1. m \in 1 .. m /\ m \in 1 .. m + 1 /\ m + 1 \in 1 .. m + 1 /\ n + (m + 1) = N + 1 /\ n + m = N
    BY DEF N
  <2>2. d[N + 1] = c[m + 1] + h /\ d[N] = c[m] + h /\ Q[m] = R[N]
    BY <1>6, <2>1
  <2>3. Len(Q[m]) \in Nat /\ c[m] \in Nat
    <3>1. At(t, c[m], Q[m])
      BY <2>1 DEF LaidOut
    <3> QED BY <1>8, <2>1, <3>1 DEF At
  <2>4. d[N + 1] = d[N] + Len(R[N])
    <3>1. c[m + 1] = c[m] + Len(Q[m]) /\ h \in Nat
      BY <1>4, <1>7
    <3> QED BY ONLY <2>2, <2>3, <3>1
  <2> QED BY <2>4 DEF Tight
<1> QED BY <1>11, <1>12 DEF u, v, N

-----------------------------------------------------------------------------
(* From the buffer to the text that is read.                               *)
TextOf(raw) == LET t == trim(raw) IN IF t # <<>> /\ Seqs!Last(t) = Stop THEN Seqs!Front(t) ELSE t

(* A text with one character more, taken apart.                            *)
LEMMA AppendedLast ==
  ASSUME NEW T, NEW x \in Seq(T), NEW c \in T
  PROVE  /\ x \o <<c>> \in Seq(T) /\ Len(x \o <<c>>) = Len(x) + 1 /\ (x \o <<c>>)[Len(x) + 1] = c
         /\ Seqs!Last(x \o <<c>>) = c /\ Seqs!Front(x \o <<c>>) = x /\ x \o <<c>> # <<>>
         /\ \A i \in 1 .. Len(x) : (x \o <<c>>)[i] = x[i]
<1> DEFINE y == x \o <<c>>
           n == Len(x)
<1>1. n \in Nat /\ <<c>> \in Seq(T) /\ Len(<<c>>) = 1 /\ <<c>>[1] = c
  BY LenProperties, OneChar
<1>2. y \in Seq(T) /\ Len(y) = n + 1
    /\ \A i \in 1 .. n + 1 : y[i] = IF i <= n THEN x[i] ELSE <<c>>[i - n]
  <2>1. y \in Seq(T) /\ Len(y) = n + Len(<<c>>)
        /\ \A i \in 1 .. n + Len(<<c>>) : y[i] = IF i <= n THEN x[i] ELSE <<c>>[i - n]
    BY <1>1, ConcatProperties
  <2> HIDE DEF y, n
  <2> QED BY <1>1, <2>1
<1>3. y[n + 1] = c /\ \A i \in 1 .. n : y[i] = x[i]
  <2> HIDE DEF y, n
  <2> QED BY <1>1, <1>2
<1>4. Seqs!Last(y) = c
  BY <1>2, <1>3 DEF Seqs!Last
<1>5. y # <<>>
  BY <1>1, <1>2
<1>6. Seqs!Front(y) = x
  <2>1. Seqs!Front(y) = SubSeq(y, 1, n)
    <3>1. Seqs!Front(y) = SubSeq(y, 1, Len(y) - 1) /\ Len(y) - 1 = n
      BY <1>1, <1>2 DEF Seqs!Front
    <3> QED BY <3>1
  <2> DEFINE u == SubSeq(y, 1, n)
  <2>2. \A i \in 1 .. n : y[i] \in T
    BY <1>3, ElementOfSeq
  <2>3. u \in Seq(T) /\ Len(u) = n /\ \A i \in 1 .. n : u[i] = y[i]
    <3>1. u \in Seq(T) /\ Len(u) = (IF 1 <= n THEN n - 1 + 1 ELSE 0)
          /\ \A i \in 1 .. n - 1 + 1 : u[i] = y[1 + i - 1]
      <4> HIDE DEF y, n
      <4> QED BY <1>1, <2>2, SubSeqProperties
    <3> HIDE DEF u, y, n
    <3>2. n - 1 + 1 = n /\ \A i \in 1 .. n : 1 + i - 1 = i
      BY <1>1
    <3> QED BY <1>1, <3>1, <3>2
  <2> HIDE DEF u, y
  <2>4. u = x
    BY <1>3, <2>3, SameSeq
  <2> QED BY <2>1, <2>4 DEF u
<1> QED BY <1>2, <1>3, <1>4, <1>5, <1>6

(* trim removes the blanks around a text.                                  *)
LEMMA TrimAround ==
  ASSUME NEW T, Space \in T, NEW y \in Seq(T), Len(y) >= 1, y[1] # Space, y[Len(y)] # Space,
         NEW e \in Seq(T), \A i \in 1 .. Len(e) : e[i] = Space
  PROVE  trim(<<Space>> \o y \o e) = y
<1> DEFINE v == <<Space>> \o y
           u == v \o e
           m == Len(y)
<1>1. m \in Nat /\ <<Space>> \in Seq(T) /\ Len(<<Space>>) = 1 /\ <<Space>>[1] = Space
  BY LenProperties, OneChar
<1>2. v \in Seq(T) /\ Len(v) = m + 1 /\ v[1] = Space /\ At(v, 2, y)
  <2>1. v \in Seq(T) /\ Len(v) = Len(<<Space>>) + m /\ \A i \in 1 .. Len(<<Space>>) + m :
          v[i] = IF i <= Len(<<Space>>) THEN <<Space>>[i] ELSE y[i - Len(<<Space>>)]
    BY <1>1, ConcatProperties
  <2> HIDE DEF v, m
  <2>2. v[1] = Space /\ Len(v) = m + 1 /\ \A i \in 2 .. m + 1 : v[i] = y[i - 1]
    BY <1>1, <2>1
  <2>3. \A i \in 1 .. m : v[2 + i - 1] = y[i]
    <3>1. \A i \in 1 .. m : 2 + i - 1 \in 2 .. m + 1 /\ 2 + i - 1 - 1 = i
      BY <1>1
    <3> QED BY <2>2, <3>1
  <2> QED BY <1>1, <2>1, <2>2, <2>3 DEF At, m
<1> HIDE DEF v
<1>3. At(u, 2, y)
  BY <1>1, <1>2, AtLeft
<1>4. u \in Seq(T) /\ Len(u) = m + 1 + Len(e) /\ Len(e) \in Nat
      /\ \A i \in 1 .. m + 1 + Len(e) : u[i] = IF i <= m + 1 THEN v[i] ELSE e[i - (m + 1)]
  <2>1. u \in Seq(T) /\ Len(u) = Len(v) + Len(e)
        /\ \A i \in 1 .. Len(v) + Len(e) : u[i] = IF i <= Len(v) THEN v[i] ELSE e[i - Len(v)]
    <3>1. v \in Seq(T) /\ e \in Seq(T)
      BY <1>2
    <3> QED BY <3>1, ConcatProperties
  <2> HIDE DEF u, m
  <2> QED BY <1>1, <1>2, <2>1, LenProperties
<1> HIDE DEF u, m
<1>5. \A i \in 1 .. m : u[2 + i - 1] = y[i]
  BY <1>3 DEF At, m
<1>6. u[2] = y[1] /\ u[m + 1] = y[m]
  <2>1. 2 + 1 - 1 = 2 /\ 2 + m - 1 = m + 1 /\ 1 \in 1 .. m /\ m \in 1 .. m
    BY <1>1 DEF m
  <2> QED BY <1>5, <2>1
<1>7. \A i \in 1 .. Len(u) : i < 2 \/ m + 1 < i => u[i] = Space
  <2>1. SUFFICES ASSUME NEW i \in 1 .. Len(u), i < 2 \/ m + 1 < i PROVE u[i] = Space
    OBVIOUS
  <2>2. CASE i < 2
    <3>1. i = 1 /\ 1 <= m + 1
      BY <1>1, <2>2
    <3> QED BY <1>1, <1>2, <1>4, <3>1
  <2>3. CASE m + 1 < i
    <3>1. i - (m + 1) \in 1 .. Len(e) /\ ~(i <= m + 1) /\ i \in 1 .. m + 1 + Len(e)
      BY <1>1, <1>4, <2>3 DEF m
    <3>2. u[i] = e[i - (m + 1)]
      BY <1>4, <3>1
    <3> QED BY <3>1, <3>2
  <2> QED BY <2>1, <2>2, <2>3
<1>8. 2 \in 1 .. Len(u) /\ m + 1 \in 1 .. Len(u)
  BY <1>1, <1>4 DEF m
<1>9. trim(u) = SubSeq(u, 2, m + 1)
  BY <1>4, <1>6, <1>7, <1>8, TrimIs DEF m
<1>10. SubSeq(u, 2, m + 1) = y
  <2>1. u \in Seq(T) /\ y \in Seq(T) /\ At(u, 2, y)
    BY <1>3, <1>4
  <2>2. SubSeq(u, 2, 2 + Len(y) - 1) = y
    BY <2>1, PartIs
  <2>3. 2 + Len(y) - 1 = m + 1
    BY <1>1 DEF m
  <2> QED BY <2>2, <2>3
<1>11. trim(u) = y
  BY <1>9, <1>10
<1> QED BY <1>11 DEF u, v

(* Four texts appended in another order of appending.                      *)
LEMMA Regrouped ==
  ASSUME NEW S, NEW a \in Seq(S), NEW b \in Seq(S), NEW c \in Seq(S), NEW d \in Seq(S)
  PROVE  a \o b \o (c \o d) = a \o ((b \o c) \o d)
<1>1. c \o d \in Seq(S) /\ b \o c \in Seq(S)
  BY ConcatProperties
<1>2. a \o b \o (c \o d) = a \o (b \o (c \o d))
  BY <1>1, ConcatAssociative
<1>3. b \o (c \o d) = (b \o c) \o d
  BY ConcatAssociative
<1> QED BY <1>2, <1>3

OneBlank == <<Space>>
OneStop == <<Stop>>

(* A blank and a semicolon as texts.                                       *)
LEMMA OnesAre ==
  ASSUME NEW T, Space \in T, Stop \in T
  PROVE  /\ OneBlank \in Seq(T) /\ OneStop \in Seq(T) /\ <<>> \in Seq(T)
         /\ \A i \in 1 .. Len(OneBlank) : OneBlank[i] = Space
         /\ \A i \in 1 .. Len(<<>>) : <<>>[i] = Space
         /\ Len(OneBlank) = 1 /\ Len(OneStop) = 1 /\ OneStop[1] = Stop
<1>1. \A c \in T : <<c>> \in Seq(T)
  OBVIOUS
<1>2. OneBlank \in Seq(T) /\ OneStop \in Seq(T)
  BY <1>1 DEF OneBlank, OneStop
<1>3. Len(<<Space>>) = 1 /\ <<Space>>[1] = Space /\ Len(<<Stop>>) = 1 /\ <<Stop>>[1] = Stop
  BY OneChar
<1>4. \A i \in 1 .. 1 : i = 1
  OBVIOUS
<1> QED BY <1>2, <1>3, <1>4 DEF OneBlank, OneStop

(* What is left of a statement when exec has trimmed it and removed its    *)
(* semicolon.                                                              *)
LEMMA Stripped ==
  ASSUME NEW T, Space \in T, Stop \in T, NEW body \in Seq(T), Len(body) >= 1, body[1] # Space,
         body[Len(body)] # Space, body[Len(body)] # Stop,
         NEW tail, \/ tail = <<>> \/ tail = OneStop \/ tail = OneBlank \/ tail = OneBlank \o OneStop
  PROVE  TextOf(OneBlank \o body \o tail) \in {body, body \o OneBlank}
<1>1. OneBlank \in Seq(T) /\ OneStop \in Seq(T) /\ Len(body) \in Nat /\ <<>> \in Seq(T)
  BY LenProperties, OnesAre
<1>2. CASE tail = <<>> \/ tail = OneBlank
  <2>1. trim(OneBlank \o body \o tail) = body
    <3>1. tail \in Seq(T) /\ \A i \in 1 .. Len(tail) : tail[i] = Space
      BY <1>2, <1>1, OnesAre
    <3> QED BY <3>1, TrimAround DEF OneBlank
  <2>2. body # <<>> /\ Seqs!Last(body) # Stop
    BY <1>1 DEF Seqs!Last
  <2> QED BY <2>1, <2>2 DEF TextOf
<1>3. ASSUME NEW x \in Seq(T), Len(x) >= 1, x[1] # Space
      PROVE  TextOf(OneBlank \o (x \o OneStop)) = x
  <2> DEFINE y == x \o OneStop
             raw == OneBlank \o y
  <2>0. Len(x) \in Nat /\ 1 \in 1 .. Len(x)
    BY <1>3, LenProperties
  <2>1. /\ y \in Seq(T) /\ Len(y) = Len(x) + 1 /\ y[Len(x) + 1] = Stop /\ Seqs!Last(y) = Stop
        /\ Seqs!Front(y) = x /\ y # <<>> /\ y[1] = x[1]
    BY <2>0, AppendedLast DEF OneStop
  <2> HIDE DEF y
  <2>2. raw = OneBlank \o y \o <<>>
    <3>1. raw \in Seq(T)
      BY <1>1, <2>1, ConcatProperties
    <3> HIDE DEF raw
    <3>2. raw \o <<>> = raw
      BY <3>1, ConcatEmptySeq
    <3> QED BY <3>2 DEF raw
  <2>3. trim(raw) = y
    <3>1. Len(y) >= 1 /\ y[1] # Space /\ y[Len(y)] # Space
      BY <1>3, <2>0, <2>1, Signs
    <3>2. <<>> \in Seq(T) /\ \A i \in 1 .. Len(<<>>) : <<>>[i] = Space
      BY OnesAre
    <3>3. trim(OneBlank \o y \o <<>>) = y
      BY <2>1, <3>1, <3>2, TrimAround DEF OneBlank
    <3> QED BY <2>2, <3>3
  <2> HIDE DEF raw
  <2>4. TextOf(raw) = x
    BY <2>1, <2>3 DEF TextOf
  <2> QED BY <2>4 DEF raw, y
<1>4. CASE tail = OneStop
  <2>1. OneBlank \o body \o tail = OneBlank \o (body \o OneStop)
    BY <1>1, <1>4, ConcatAssociative
  <2> QED BY <1>3, <2>1
<1>5. CASE tail = OneBlank \o OneStop
  <2> DEFINE x == body \o OneBlank
  <2>1. x \in Seq(T) /\ Len(x) = Len(body) + 1 /\ x[1] = body[1]
    <3>1. 1 \in 1 .. Len(body)
      BY <1>1
    <3> QED BY <3>1, AppendedLast DEF OneBlank
  <2>2. OneBlank \o body \o tail = OneBlank \o (x \o OneStop)
    <3>0. OneBlank \in Seq(T) /\ OneStop \in Seq(T) /\ body \in Seq(T)
      BY <1>1
    <3>1. OneBlank \o body \o (OneBlank \o OneStop) = OneBlank \o ((body \o OneBlank) \o OneStop)
      BY ONLY <3>0, Regrouped
    <3> QED BY <1>5, <3>1
  <2> HIDE DEF x
  <2>3. Len(x) >= 1 /\ x[1] # Space
    BY <1>1, <2>1
  <2>4. TextOf(OneBlank \o (x \o OneStop)) = x
    BY <1>3, <2>1, <2>3
  <2> QED BY <2>2, <2>4 DEF x
<1> QED BY <1>2, <1>4, <1>5

-----------------------------------------------------------------------------
(* Short tuples.                                                           *)
LEMMA OneTwoThree ==
  ASSUME NEW S, NEW x \in S, NEW y \in S, NEW z \in S
  PROVE  /\ <<x>> \in Seq(S) /\ Len(<<x>>) = 1 /\ <<x>>[1] = x
         /\ <<x, y>> \in Seq(S) /\ Len(<<x, y>>) = 2 /\ <<x, y>>[1] = x /\ <<x, y>>[2] = y
         /\ <<x, y, z>> \in Seq(S) /\ Len(<<x, y, z>>) = 3
         /\ <<x, y, z>>[1] = x /\ <<x, y, z>>[2] = y /\ <<x, y, z>>[3] = z
OBVIOUS

(* A sequence with one more element at its end.                            *)
LEMMA AppendIs ==
  ASSUME NEW S, NEW s \in Seq(S), NEW x \in S, NEW t \in Seq(S), Len(t) = Len(s) + 1,
         \A i \in 1 .. Len(s) : t[i] = s[i], t[Len(s) + 1] = x
  PROVE  Append(s, x) = t
<1> DEFINE u == Append(s, x)
           n == Len(s)
<1>1. u \in Seq(S) /\ Len(u) = n + 1 /\ (\A i \in 1 .. n : u[i] = s[i]) /\ u[n + 1] = x
  BY AppendProperties
<1>2. n \in Nat
  BY LenProperties
<1> HIDE DEF u, n
<1>3. \A i \in 1 .. n + 1 : i \in 1 .. n \/ i = n + 1
  BY <1>2
<1>4. \A i \in 1 .. Len(u) : u[i] = t[i]
  BY <1>1, <1>3 DEF n
<1>5. u = t
  BY <1>1, <1>4, SameSeq DEF n
<1> QED BY <1>5 DEF u

(* The lines of a session, one, two and three of them.                     *)
LEMMA Tuples ==
  ASSUME NEW x, NEW y, NEW z
  PROVE  /\ Append(<<>>, x) = <<x>> /\ Append(<<x>>, y) = <<x, y>>
             /\ Append(<<x, y>>, z) = <<x, y, z>>
         /\ Seqs!Front(<<x>>) = <<>> /\ Seqs!Last(<<x>>) = x
         /\ Seqs!Front(<<x, y>>) = <<x>> /\ Seqs!Last(<<x, y>>) = y
<1> DEFINE S == {x, y, z}
           one == <<x>>
           two == <<x, y>>
           three == <<x, y, z>>
<1>1. /\ x \in S /\ y \in S /\ z \in S
      /\ one \in Seq(S) /\ Len(one) = 1 /\ one[1] = x
      /\ two \in Seq(S) /\ Len(two) = 2 /\ two[1] = x /\ two[2] = y
      /\ three \in Seq(S) /\ Len(three) = 3 /\ three[1] = x /\ three[2] = y /\ three[3] = z
  BY OneTwoThree
<1>2. one \o <<y>> = two
  BY OneAndOne
<1>3. Seqs!Front(one) = <<>> /\ Seqs!Last(one) = x
  BY OneChar
<1>4. (\A i \in 1 .. 1 : i = 1) /\ (\A i \in 1 .. 2 : i = 1 \/ i = 2)
      /\ 1 + 1 = 2 /\ 2 + 1 = 3
  OBVIOUS
<1> HIDE DEF S, one, two, three
<1>5. Seqs!Front(two) = one /\ Seqs!Last(two) = y
  BY <1>1, <1>2, AppendedLast
<1>6. Append(one, y) = two
  <2>1. Len(two) = Len(one) + 1 /\ two[Len(one) + 1] = y /\ \A i \in 1 .. Len(one) : two[i] = one[i]
    BY <1>1, <1>4
  <2> QED BY <1>1, <2>1, AppendIs
<1>7. Append(two, z) = three
  <2>1. Len(three) = Len(two) + 1 /\ three[Len(two) + 1] = z
        /\ \A i \in 1 .. Len(two) : three[i] = two[i]
    BY <1>1, <1>4
  <2> QED BY <1>1, <2>1, AppendIs
<1>8. Append(<<>>, x) = one
  BY DEF one
<1> QED BY <1>3, <1>5, <1>6, <1>7, <1>8 DEF one, two, three

(* A semicolon somewhere.                                                  *)
LEMMA SemicolonIs ==
  ASSUME NEW text
  PROVE  Semicolon(text) <=> \E i \in DOMAIN text : text[i] = Stop
BY Zenon DEF Semicolon, Stop

(* A line after the end of a statement adds no statement.                  *)
LEMMA NoMoreIs ==
  ASSUME NEW text, text = <<>> \/ text = OneStop
  PROVE  NoMore(text)
BY Zenon DEF NoMore, OneStop, Stop

(* There is a semicolon in a text if there is one in a part of it.         *)
LEMMA SemicolonIn ==
  ASSUME NEW T, NEW s \in Seq(T), NEW t \in Seq(T)
  PROVE  Semicolon(s \o t) <=> Semicolon(s) \/ Semicolon(t)
<1> DEFINE m == Len(s)
           n == Len(t)
           u == s \o t
<1>1. m \in Nat /\ n \in Nat /\ DOMAIN s = 1 .. m /\ DOMAIN t = 1 .. n
  BY LenProperties
<1>2. u \in Seq(T) /\ Len(u) = m + n /\ DOMAIN u = 1 .. m + n
      /\ \A i \in 1 .. m + n : u[i] = IF i <= m THEN s[i] ELSE t[i - m]
  <2>1. u \in Seq(T) /\ Len(u) = m + n
        /\ \A i \in 1 .. m + n : u[i] = IF i <= m THEN s[i] ELSE t[i - m]
    BY ConcatProperties
  <2> QED BY <2>1, LenProperties
<1> HIDE DEF m, n, u
<1>3. ASSUME NEW i \in 1 .. m, s[i] = Stop PROVE \E j \in 1 .. m + n : u[j] = Stop
  BY <1>1, <1>2, <1>3
<1>4. ASSUME NEW i \in 1 .. n, t[i] = Stop PROVE \E j \in 1 .. m + n : u[j] = Stop
  <2>1. m + i \in 1 .. m + n /\ ~(m + i <= m) /\ m + i - m = i
    BY <1>1
  <2> DEFINE j == m + i
  <2>2. j \in 1 .. m + n /\ ~(j <= m) /\ j - m = i
    BY <1>1
  <2> HIDE DEF j
  <2>3. u[j] = Stop
    BY <1>2, <1>4, <2>2
  <2> QED BY <2>2, <2>3
<1>5. ASSUME NEW j \in 1 .. m + n, u[j] = Stop
      PROVE  (\E i \in 1 .. m : s[i] = Stop) \/ \E i \in 1 .. n : t[i] = Stop
  <2>1. CASE j <= m
    BY <1>1, <1>2, <1>5, <2>1
  <2>2. CASE ~(j <= m)
    <3>1. j - m \in 1 .. n
      BY <1>1, <2>2
    <3> QED BY <1>2, <1>5, <2>2, <3>1
  <2> QED BY <2>1, <2>2
<1>6. Semicolon(u) <=> Semicolon(s) \/ Semicolon(t)
  BY <1>1, <1>2, <1>3, <1>4, <1>5, SemicolonIs
<1> QED BY <1>6 DEF u

(* What is in the buffer after up to three lines.                          *)
Buffer(ls, m) ==
  IF m = 1 THEN OneBlank \o ls[1]
  ELSE IF m = 2 THEN OneBlank \o ls[1] \o OneBlank \o ls[2]
  ELSE OneBlank \o ls[1] \o OneBlank \o ls[2] \o OneBlank \o ls[3]

(* Lines of which the m-th is the first that is empty or holds a semicolon *)
(* are one statement: the REPL runs the first m of them, joined.           *)
LEMMA TypedIn ==
  ASSUME NEW T, Space \in T, Stop \in T, NEW ls \in Seq(Seq(T)), NEW m \in 1 .. Len(ls), m <= 3,
         \A k \in 1 .. m - 1 : ls[k] # <<>> /\ ~Semicolon(ls[k]),
         ls[m] = <<>> \/ Semicolon(ls[m]),
         \A k \in m + 1 .. Len(ls) : NoMore(ls[k]),
         NEW s, exec(Buffer(ls, m)) = s
  PROVE  Typed(<<>>, ls, s)
<1> DEFINE B == [k \in 0 .. 3 |-> IF k = 0 THEN <<>> ELSE Buffer(ls, k)]
           n == Len(ls)
<1>0. n \in Nat /\ OneBlank \in Seq(T) /\ \A k \in 1 .. n : ls[k] \in Seq(T)
  BY LenProperties, ElementOfSeq, OnesAre
<1>1. ~Semicolon(OneBlank)
  <2>1. DOMAIN OneBlank = 1 .. 1 /\ \A i \in 1 .. Len(OneBlank) : OneBlank[i] = Space
    BY <1>0, OnesAre, LenProperties
  <2> QED BY <2>1, OnesAre, Signs, SemicolonIs
<1>2. B[0] = <<>> /\ \A k \in 1 .. 3 : B[k] = Buffer(ls, k)
  OBVIOUS
<1> HIDE DEF B
<1>a. /\ B[1] = OneBlank \o ls[1] /\ B[2] = OneBlank \o ls[1] \o OneBlank \o ls[2]
      /\ B[3] = OneBlank \o ls[1] \o OneBlank \o ls[2] \o OneBlank \o ls[3]
  <2>1. 1 \in 1 .. 3 /\ 2 \in 1 .. 3 /\ 3 \in 1 .. 3 /\ 2 # 1 /\ 3 # 1 /\ 3 # 2
    OBVIOUS
  <2>2. Buffer(ls, 1) = OneBlank \o ls[1]
    BY DEF Buffer
  <2>3. Buffer(ls, 2) = OneBlank \o ls[1] \o OneBlank \o ls[2]
    BY <2>1, Zenon DEF Buffer
  <2>4. Buffer(ls, 3) = OneBlank \o ls[1] \o OneBlank \o ls[2] \o OneBlank \o ls[3]
    BY <2>1, Zenon DEF Buffer
  <2> QED BY <1>2, <2>1, <2>2, <2>3, <2>4
<1>b. B[2] = B[1] \o OneBlank \o ls[2] /\ B[3] = B[2] \o OneBlank \o ls[3]
  BY <1>a, Zenon
<1>3. ASSUME NEW k \in 1 .. m
      PROVE  /\ B[k] = B[k - 1] \o <<Space>> \o ls[k]
             /\ k > 1 => B[k] = B[k - 1] \o OneBlank \o ls[k]
             /\ k = 1 => B[k] = OneBlank \o ls[k]
  <2>1. CASE k = 1
    <3>1. B[k] = OneBlank \o ls[1] /\ B[k - 1] = <<>>
      BY <1>2, <1>a, <2>1
    <3>2. <<>> \o OneBlank = OneBlank
      BY <1>0, ConcatEmptySeq
    <3> QED BY <2>1, <3>1, <3>2 DEF OneBlank
  <2>2. CASE k = 2
    <3>1. k - 1 = 1 /\ k # 1
      BY <2>2
    <3>2. B[k] = B[k - 1] \o OneBlank \o ls[k]
      BY <1>b, <2>2, <3>1
    <3>3. B[k] = B[k - 1] \o <<Space>> \o ls[k]
      BY <3>2 DEF OneBlank
    <3> QED BY <3>1, <3>2, <3>3
  <2>3. CASE k = 3
    <3>1. k - 1 = 2 /\ k # 1
      BY <2>3
    <3>2. B[k] = B[k - 1] \o OneBlank \o ls[k]
      BY <1>b, <2>3, <3>1
    <3>3. B[k] = B[k - 1] \o <<Space>> \o ls[k]
      BY <3>2 DEF OneBlank
    <3> QED BY <3>1, <3>2, <3>3
  <2>4. k = 1 \/ k = 2 \/ k = 3
    OBVIOUS
  <2> QED BY <2>1, <2>2, <2>3, <2>4
<1>4. ASSUME NEW k \in 1 .. m
      PROVE  /\ B[k] \in Seq(T)
             /\ Semicolon(B[k]) <=> Semicolon(ls[k]) \/ (k > 1 /\ Semicolon(B[k - 1]))
             /\ k > 1 => B[k - 1] \in Seq(T)
  <2>0. \A j \in 1 .. m : ls[j] \in Seq(T) /\ OneBlank \o ls[j] \in Seq(T)
    <3>1. \A j \in 1 .. m : j \in 1 .. n
      BY <1>0
    <3> QED BY <1>0, <3>1, ConcatProperties
  <2>1. B[1] \in Seq(T)
    <3>1. 1 \in 1 .. m
      OBVIOUS
    <3> QED BY <1>3, <2>0, <3>1
  <2>2. m > 1 => B[2] \in Seq(T)
    <3>1. SUFFICES ASSUME m > 1 PROVE B[2] \in Seq(T)
      OBVIOUS
    <3>2. 2 \in 1 .. m /\ 2 - 1 = 1
      BY <3>1
    <3>3. B[1] \o OneBlank \in Seq(T) /\ ls[2] \in Seq(T)
      BY <1>0, <2>0, <2>1, <3>2, ConcatProperties
    <3> QED BY <1>b, <3>3, ConcatProperties
  <2>3. m > 2 => B[3] \in Seq(T)
    <3>1. SUFFICES ASSUME m > 2 PROVE B[3] \in Seq(T)
      OBVIOUS
    <3>2. 3 \in 1 .. m /\ 3 - 1 = 2 /\ m > 1
      BY <3>1
    <3>3. B[2] \o OneBlank \in Seq(T) /\ ls[3] \in Seq(T)
      BY <1>0, <2>0, <2>2, <3>2, ConcatProperties
    <3> QED BY <1>b, <3>3, ConcatProperties
  <2>4. CASE k = 1
    <3>0. B[k] = OneBlank \o ls[k] /\ ls[k] \in Seq(T) /\ OneBlank \in Seq(T)
      BY <1>0, <1>3, <2>0, <2>4
    <3>2. Semicolon(OneBlank \o ls[k]) <=> Semicolon(OneBlank) \/ Semicolon(ls[k])
      BY ONLY <3>0, SemicolonIn
    <3>1. Semicolon(B[k]) <=> Semicolon(ls[k])
      BY <1>1, <3>0, <3>2
    <3> QED BY <2>1, <2>4, <3>1
  <2>5. CASE k # 1
    <3>1. k > 1 /\ (k = 2 \/ k = 3) /\ (k = 2 => k - 1 = 1) /\ (k = 3 => k - 1 = 2)
      BY <2>5
    <3>2. B[k - 1] \in Seq(T) /\ B[k] \in Seq(T)
      BY <2>1, <2>2, <2>3, <3>1
    <3>3. B[k - 1] \o OneBlank \in Seq(T)
      BY <1>0, <3>2, ConcatProperties
    <3>4. Semicolon(B[k - 1] \o OneBlank) <=> Semicolon(B[k - 1])
      BY <1>0, <1>1, <3>2, SemicolonIn
    <3>5. B[k] = B[k - 1] \o OneBlank \o ls[k] /\ ls[k] \in Seq(T)
      BY <1>3, <2>0, <3>1
    <3>7. Semicolon(B[k - 1] \o OneBlank \o ls[k])
            <=> Semicolon(B[k - 1] \o OneBlank) \/ Semicolon(ls[k])
      BY ONLY <3>3, <3>5, SemicolonIn
    <3>6. Semicolon(B[k]) <=> Semicolon(B[k - 1] \o OneBlank) \/ Semicolon(ls[k])
      BY <3>5, <3>7
    <3> QED BY <3>1, <3>2, <3>4, <3>6
  <2> QED BY <2>4, <2>5
<1>5. \A k \in 1 .. m - 1 : ~Semicolon(B[k])
  <2>1. m > 1 => ~Semicolon(B[1])
    <3>1. m > 1 => 1 \in 1 .. m /\ 1 \in 1 .. m - 1 /\ ~(1 > 1)
      OBVIOUS
    <3> QED BY <1>4, <3>1
  <2>2. m > 2 => ~Semicolon(B[2])
    <3>1. m > 2 => 2 \in 1 .. m /\ 2 \in 1 .. m - 1 /\ 2 - 1 = 1 /\ m > 1
      OBVIOUS
    <3> QED BY <1>4, <2>1, <3>1
  <2>3. \A k \in 1 .. m - 1 : (k = 1 /\ m > 1) \/ (k = 2 /\ m > 2)
    OBVIOUS
  <2> QED BY <2>1, <2>2, <2>3
<1>6. ls[m] = <<>> \/ Semicolon(B[m])
  <2>1. m \in 1 .. m
    OBVIOUS
  <2> QED BY <1>4, <2>1
<1>7. exec(B[m]) = s
  <2>1. m \in 1 .. 3
    OBVIOUS
  <2> QED BY <1>2, <2>1
<1>8. TypedBy(<<>>, ls, s, m, B)
  BY <1>2, <1>3, <1>5, <1>6, <1>7 DEF TypedBy
<1>9. Engine!IsSeq(ls)
  <2> DEFINE V == {ls[i] : i \in DOMAIN ls}
  <2>1. ls = [i \in 1 .. n |-> ls[i]] /\ DOMAIN ls = 1 .. n
    BY LenProperties
  <2>2. \A i \in 1 .. n : ls[i] \in V
    BY <2>1
  <2>3. ls \in Seq(V)
    <3> HIDE DEF V, n
    <3>1. [i \in 1 .. n |-> ls[i]] \in Seq(V)
      BY <1>0, <2>2, IsASeq
    <3> QED BY <2>1, <3>1
  <2> QED BY <2>3 DEF Engine!IsSeq
<1> QED BY <1>0, <1>8, <1>9 DEF Typed

-----------------------------------------------------------------------------
(* A statement read as s in whatever way its pieces are laid out.          *)
Means(T, all, n, s) ==
  \A raw, b : TextOf(raw) \in Seq(T) /\ LaidOut(TextOf(raw), all, n, b) => exec(raw) = s
Closed(p) == p[Len(p)] # Space /\ p[Len(p)] # Stop
Body(T, all, n, s, body) ==
  /\ Space \in T /\ Stop \in T /\ n \in Nat \ {0} /\ Readable(T, all, n) /\ Closed(all[n])
  /\ Means(T, all, n, s)
  /\ body \in Seq(T) /\ \E b : LaidOut(body, all, n, b) /\ Tight(all, n, b)

(* No piece begins with a blank.                                           *)
LEMMA PieceStarts ==
  ASSUME NEW U, NEW p \in Seq(U), Piece(p)
  PROVE  p[1] # Space
<1>1. CASE WordPiece(p)
  <2>1. p[1] \notin Sign \ {"."}
    BY <1>1, PieceIs DEF WordPiece
  <2> QED BY <2>1, Signs
<1>2. CASE QuotedPiece(p)
  BY <1>2, Signs DEF QuotedPiece
<1>3. CASE SignPiece(p)
  BY <1>3, OneChar, Signs DEF SignPiece
<1>4. CASE p \in TwoChar
  <2>1. p[1] \in {"<", ">", "!"}
    BY <1>4, TwoCharIs
  <2> QED BY <2>1, Signs
<1> QED BY <1>1, <1>2, <1>3, <1>4 DEF Piece

IsTail(tail) == tail = <<>> \/ tail = OneStop \/ tail = OneBlank \/ tail = OneBlank \o OneStop

(* What may follow the text of a statement.                                *)
LEMMA Tails ==
  /\ IsTail(<<>>) /\ IsTail(OneStop) /\ IsTail(OneBlank) /\ IsTail(OneBlank \o OneStop)
  /\ \A e : e = <<>> \/ e = OneStop => IsTail(OneBlank \o e)
<1>1. OneBlank \o <<>> = OneBlank
  BY OneChar, ConcatEmptySeq DEF OneBlank
<1> QED BY <1>1 DEF IsTail

(* A body that holds all the pieces is read as the statement, whatever     *)
(* tail follows it.                                                        *)
LEMMA BodyMeans ==
  ASSUME NEW T, NEW all, NEW n, NEW s, NEW body, Body(T, all, n, s, body), NEW tail, IsTail(tail)
  PROVE  exec(OneBlank \o body \o tail) = s
<1>1. /\ Space \in T /\ Stop \in T /\ n \in Nat \ {0} /\ Closed(all[n]) /\ body \in Seq(T)
      /\ \A i \in 1 .. n : all[i] \in Seq(T) /\ Piece(all[i])
  BY DEF Body, Readable
<1>2. PICK b : LaidOut(body, all, n, b) /\ Tight(all, n, b)
  BY DEF Body
<1>3. /\ Len(body) \in Nat \ {0} /\ body[1] = all[1][1] /\ body[Len(body)] = all[n][Len(all[n])]
  <2>1. n \in Nat \ {0} /\ (\A i \in 1 .. n : all[i] \in Seq(T) /\ Piece(all[i])) /\ body \in Seq(T)
    BY <1>1
  <2> QED BY ONLY <1>2, <2>1, EndsOf
<1>4. body[1] # Space /\ body[Len(body)] # Space /\ body[Len(body)] # Stop /\ Len(body) >= 1
  <2>1. 1 \in 1 .. n
    BY <1>1
  <2> QED BY <1>1, <1>3, <2>1, PieceStarts DEF Closed
<1> DEFINE raw == OneBlank \o body \o tail
<1>5. TextOf(raw) \in {body, body \o OneBlank}
  BY <1>1, <1>4, Stripped DEF IsTail
<1> HIDE DEF raw
<1>6. CASE TextOf(raw) = body
  BY <1>1, <1>2, <1>6 DEF Body, Means, raw
<1>7. CASE TextOf(raw) = body \o OneBlank
  <2>1. \E d : LaidOut(body \o OneBlank, all, n, d)
    BY <1>1, <1>2, WithBlank DEF OneBlank
  <2>2. body \o OneBlank \in Seq(T)
    BY <1>1, OnesAre, ConcatProperties
  <2> QED BY <1>7, <2>1, <2>2 DEF Body, Means, raw
<1> QED BY <1>5, <1>6, <1>7

(* The same, for the tails the looks use.                                  *)
LEMMA BodyEnds ==
  ASSUME NEW T, NEW all, NEW n, NEW s, NEW body, Body(T, all, n, s, body)
  PROVE  /\ exec(OneBlank \o body \o <<>>) = s /\ exec(OneBlank \o body \o OneStop) = s
         /\ \A e : e = <<>> \/ e = OneStop => exec(OneBlank \o body \o (OneBlank \o e)) = s
<1>1. \A tail : IsTail(tail) => exec(OneBlank \o body \o tail) = s
  BY BodyMeans
<1>2. exec(OneBlank \o body \o <<>>) = s
  BY <1>1, Tails, Zenon
<1>3. exec(OneBlank \o body \o OneStop) = s
  BY <1>1, Tails, Zenon
<1>4. \A e : e = <<>> \/ e = OneStop => exec(OneBlank \o body \o (OneBlank \o e)) = s
  BY <1>1, Tails, Zenon
<1> QED BY <1>2, <1>3, <1>4

(* A line that ends with a semicolon ends a statement.                     *)
LEMMA StopHere ==
  ASSUME NEW T, Space \in T, Stop \in T
  PROVE  Semicolon(OneStop) /\ \A s \in Seq(T) : Semicolon(s \o OneStop) /\ s \o OneStop \in Seq(T)
<1>1. OneStop \in Seq(T) /\ Len(OneStop) = 1 /\ OneStop[1] = Stop
  BY OnesAre
<1>2. Semicolon(OneStop)
  <2>1. 1 \in DOMAIN OneStop
    BY <1>1, LenProperties
  <2> QED BY <1>1, <2>1, SemicolonIs
<1> QED BY <1>1, <1>2, SemicolonIn, ConcatProperties

(* It is typed in one line, and an end ...                                 *)
LEMMA OneLine ==
  ASSUME NEW T, NEW all, NEW n, NEW s, NEW body, Body(T, all, n, s, body)
  PROVE  /\ Typed(<<>>, <<body \o OneStop>>, s)
         /\ \A e : e = <<>> \/ e = OneStop => Typed(<<>>, <<body, e>>, s)
         /\ ~Semicolon(body) => \A e : e = <<>> \/ e = OneStop => Typed(<<>>, <<body, <<>>, e>>, s)
<1>e. /\ exec(OneBlank \o body \o <<>>) = s /\ exec(OneBlank \o body \o OneStop) = s
      /\ \A e : e = <<>> \/ e = OneStop => exec(OneBlank \o body \o (OneBlank \o e)) = s
  BY BodyEnds
<1>1. /\ Space \in T /\ Stop \in T /\ body \in Seq(T) /\ OneBlank \in Seq(T) /\ OneStop \in Seq(T)
      /\ <<>> \in Seq(T)
  BY OnesAre DEF Body
<1>2. body # <<>>
  <2>1. PICK b : LaidOut(body, all, n, b) /\ Tight(all, n, b)
    BY DEF Body
  <2>2. n \in Nat \ {0} /\ \A i \in 1 .. n : all[i] \in Seq(T) /\ Piece(all[i])
    BY DEF Body, Readable
  <2>3. Len(body) \in Nat \ {0}
    BY <1>1, <2>1, <2>2, EndsOf
  <2> QED BY <2>3
<1>3. Typed(<<>>, <<body \o OneStop>>, s)
  <2> DEFINE ls == <<body \o OneStop>>
  <2>1. body \o OneStop \in Seq(T) /\ Semicolon(body \o OneStop)
    BY <1>1, StopHere
  <2>2. ls \in Seq(Seq(T)) /\ Len(ls) = 1 /\ ls[1] = body \o OneStop
    BY <2>1, OneTwoThree
  <2> HIDE DEF ls
  <2>3. Buffer(ls, 1) = OneBlank \o body \o OneStop
    BY <1>1, <2>2, ConcatAssociative DEF Buffer
  <2>4. exec(Buffer(ls, 1)) = s
    <3>1. exec(OneBlank \o body \o OneStop) = s
      BY <1>e
    <3> QED BY <2>3, <3>1
  <2>5. /\ 1 \in 1 .. Len(ls) /\ 1 <= 3 /\ (\A k \in 1 .. 1 - 1 : ls[k] # <<>> /\ ~Semicolon(ls[k]))
        /\ Semicolon(ls[1]) /\ \A k \in 1 + 1 .. Len(ls) : NoMore(ls[k])
    BY <2>1, <2>2
  <2>6. Typed(<<>>, ls, s)
    BY <1>1, <2>2, <2>4, <2>5, TypedIn
  <2> QED BY <2>6 DEF ls
<1>4. ASSUME NEW e, e = <<>> \/ e = OneStop
      PROVE  e \in Seq(T) /\ NoMore(e) /\ (e = <<>> \/ Semicolon(e))
             /\ exec(OneBlank \o body \o OneBlank \o e) = s
  <2>1. e \in Seq(T) /\ NoMore(e) /\ (e = <<>> \/ Semicolon(e))
    BY <1>1, <1>4, NoMoreIs, StopHere
  <2>3. OneBlank \o body \in Seq(T)
    BY <1>1, ConcatProperties
  <2>4. OneBlank \o body \o OneBlank \o e = OneBlank \o body \o (OneBlank \o e)
    <3> DEFINE z == OneBlank \o body
    <3>1. z \in Seq(T) /\ OneBlank \in Seq(T) /\ e \in Seq(T)
      BY ONLY <1>1, <2>1, <2>3
    <3> HIDE DEF z
    <3>2. (z \o OneBlank) \o e = z \o (OneBlank \o e)
      BY ONLY <3>1, ConcatAssociative
    <3> QED BY <3>2 DEF z
  <2>6. exec(OneBlank \o body \o (OneBlank \o e)) = s
    BY <1>4, <1>e
  <2> QED BY <2>1, <2>4, <2>6
<1>5. ASSUME NEW e, e = <<>> \/ e = OneStop PROVE Typed(<<>>, <<body, e>>, s)
  <2> DEFINE ls == <<body, e>>
  <2>1. ls \in Seq(Seq(T)) /\ Len(ls) = 2 /\ ls[1] = body /\ ls[2] = e
    BY <1>1, <1>4, <1>5, OneTwoThree
  <2> HIDE DEF ls
  <2>2. CASE Semicolon(body)
    <3>1. Buffer(ls, 1) = OneBlank \o body
      BY <2>1 DEF Buffer
    <3>2. OneBlank \o body = OneBlank \o body \o <<>>
      <4>1. OneBlank \o body \in Seq(T)
        BY <1>1, ConcatProperties
      <4> QED BY <4>1, ConcatEmptySeq
    <3>3. exec(Buffer(ls, 1)) = s
      <4>1. exec(OneBlank \o body \o <<>>) = s
        BY <1>e
      <4> QED BY <3>1, <3>2, <4>1
    <3>4. /\ 1 \in 1 .. Len(ls) /\ 1 <= 3
              /\ (\A k \in 1 .. 1 - 1 : ls[k] # <<>> /\ ~Semicolon(ls[k]))
          /\ \A k \in 1 + 1 .. Len(ls) : k = 2
      BY <2>1
    <3>5. \A k \in 1 + 1 .. Len(ls) : NoMore(ls[k])
      BY <1>4, <1>5, <2>1, <3>4
    <3>6. Semicolon(ls[1])
      BY <2>1, <2>2
    <3> QED BY <1>1, <2>1, <3>3, <3>4, <3>5, <3>6, TypedIn DEF ls
  <2>3. CASE ~Semicolon(body)
    <3>1. Buffer(ls, 2) = OneBlank \o body \o OneBlank \o e
      BY <2>1 DEF Buffer
    <3>2. exec(Buffer(ls, 2)) = s
      BY <1>4, <1>5, <3>1
    <3>3. /\ 2 \in 1 .. Len(ls) /\ 2 <= 3 /\ (\A k \in 1 .. 2 - 1 : k = 1)
          /\ \A k \in 2 + 1 .. Len(ls) : NoMore(ls[k])
      BY <2>1
    <3>4. \A k \in 1 .. 2 - 1 : ls[k] # <<>> /\ ~Semicolon(ls[k])
      BY <1>2, <2>1, <2>3, <3>3
    <3>5. ls[2] = <<>> \/ Semicolon(ls[2])
      BY <1>4, <1>5, <2>1
    <3> QED BY <1>1, <2>1, <3>2, <3>3, <3>4, <3>5, TypedIn DEF ls
  <2> QED BY <2>2, <2>3
<1>6. ASSUME ~Semicolon(body), NEW e, e = <<>> \/ e = OneStop
    PROVE Typed(<<>>, <<body, <<>>, e>>, s)
  <2> DEFINE ls == <<body, <<>>, e>>
  <2>1. ls \in Seq(Seq(T)) /\ Len(ls) = 3 /\ ls[1] = body /\ ls[2] = <<>> /\ ls[3] = e
    BY <1>1, <1>4, <1>6, OneTwoThree
  <2> HIDE DEF ls
  <2>2. Buffer(ls, 2) = OneBlank \o body \o OneBlank \o <<>>
    BY <2>1 DEF Buffer
  <2>3. exec(Buffer(ls, 2)) = s
    BY <1>4, <2>2
  <2>4. /\ 2 \in 1 .. Len(ls) /\ 2 <= 3 /\ (\A k \in 1 .. 2 - 1 : k = 1)
        /\ \A k \in 2 + 1 .. Len(ls) : k = 3
    BY <2>1
  <2>5. \A k \in 2 + 1 .. Len(ls) : NoMore(ls[k])
    BY <1>4, <1>6, <2>1, <2>4
  <2>6. \A k \in 1 .. 2 - 1 : ls[k] # <<>> /\ ~Semicolon(ls[k])
    BY <1>2, <1>6, <2>1, <2>4
  <2> QED BY <1>1, <2>1, <2>3, <2>4, <2>5, <2>6, TypedIn DEF ls
<1> QED BY <1>3, <1>5, <1>6

(* ... or in two.                                                          *)
LEMMA TwoLines ==
  ASSUME NEW T, NEW all, NEW n, NEW s, NEW x \in Seq(T), NEW y \in Seq(T),
         Body(T, all, n, s, x \o OneBlank \o y), x # <<>>, y # <<>>, ~Semicolon(x)
  PROVE  /\ Typed(<<>>, <<x, y \o OneStop>>, s)
         /\ \A e : e = <<>> \/ e = OneStop => Typed(<<>>, <<x, y, e>>, s)
<1> DEFINE body == x \o OneBlank \o y
           front == OneBlank \o x \o OneBlank
<1>0. Body(T, all, n, s, body)
  OBVIOUS
<1>e. /\ exec(OneBlank \o body \o <<>>) = s /\ exec(OneBlank \o body \o OneStop) = s
      /\ \A e : e = <<>> \/ e = OneStop => exec(OneBlank \o body \o (OneBlank \o e)) = s
  <2> HIDE DEF body
  <2> QED BY <1>0, BodyEnds
<1>1. /\ Space \in T /\ Stop \in T /\ body \in Seq(T) /\ OneBlank \in Seq(T) /\ OneStop \in Seq(T)
      /\ <<>> \in Seq(T)
  BY OnesAre DEF Body
<1>x. x \in Seq(T) /\ y \in Seq(T)
  OBVIOUS
<1>2. front \in Seq(T)
  <2>1. OneBlank \o x \in Seq(T)
    BY <1>1, ConcatProperties
  <2> QED BY <1>1, <2>1, ConcatProperties
<1>3. front \o y = OneBlank \o body
  <2>1. x \o OneBlank \in Seq(T)
    BY <1>1, ConcatProperties
  <2>2. front = OneBlank \o (x \o OneBlank)
    BY <1>1, ConcatAssociative
  <2> DEFINE z == x \o OneBlank
  <2>3. (OneBlank \o z) \o y = OneBlank \o (z \o y)
    <3>1. z \in Seq(T) /\ OneBlank \in Seq(T)
      BY <1>1, <2>1
    <3> HIDE DEF z
    <3> QED BY ONLY <1>x, <3>1, ConcatAssociative
  <2> QED BY <2>2, <2>3
<1>4. front \o y \in Seq(T) /\ front \o y = OneBlank \o body \o <<>>
  <2>1. OneBlank \o body \in Seq(T)
    <3> HIDE DEF body
    <3> QED BY <1>1, ConcatProperties
  <2> HIDE DEF body, front
  <2> QED BY <1>3, <2>1, ConcatEmptySeq
<1>5. Typed(<<>>, <<x, y \o OneStop>>, s)
  <2> DEFINE ls == <<x, y \o OneStop>>
  <2>1. y \o OneStop \in Seq(T) /\ Semicolon(y \o OneStop)
    BY <1>1, StopHere
  <2>2. ls \in Seq(Seq(T)) /\ Len(ls) = 2 /\ ls[1] = x /\ ls[2] = y \o OneStop
    BY <2>1, OneTwoThree
  <2> HIDE DEF ls
  <2>3. Buffer(ls, 2) = front \o (y \o OneStop)
    BY <2>2 DEF Buffer
  <2>4. front \o (y \o OneStop) = front \o y \o OneStop
    <3>1. front \in Seq(T) /\ y \in Seq(T) /\ OneStop \in Seq(T)
      BY ONLY <1>1, <1>2, <1>x
    <3> HIDE DEF front
    <3> QED BY ONLY <3>1, ConcatAssociative
  <2>5. exec(Buffer(ls, 2)) = s
    <3>1. Buffer(ls, 2) = OneBlank \o body \o OneStop
      BY <1>3, <2>3, <2>4
    <3>2. exec(OneBlank \o body \o OneStop) = s
      <4> HIDE DEF body
      <4> QED BY <1>e
    <3> QED BY <3>1, <3>2
  <2>6. /\ 2 \in 1 .. Len(ls) /\ 2 <= 3 /\ (\A k \in 1 .. 2 - 1 : k = 1)
        /\ \A k \in 2 + 1 .. Len(ls) : NoMore(ls[k])
    BY <2>2
  <2>7. \A k \in 1 .. 2 - 1 : ls[k] # <<>> /\ ~Semicolon(ls[k])
    BY <2>2, <2>6
  <2>8. Semicolon(ls[2])
    BY <2>1, <2>2
  <2> QED BY <1>1, <2>2, <2>5, <2>6, <2>7, <2>8, TypedIn DEF ls
<1>6. ASSUME NEW e, e = <<>> \/ e = OneStop PROVE Typed(<<>>, <<x, y, e>>, s)
  <2> DEFINE ls == <<x, y, e>>
  <2>0. e \in Seq(T) /\ NoMore(e) /\ (e = <<>> \/ Semicolon(e))
    BY <1>1, <1>6, NoMoreIs, StopHere
  <2>1. ls \in Seq(Seq(T)) /\ Len(ls) = 3 /\ ls[1] = x /\ ls[2] = y /\ ls[3] = e
    BY <2>0, OneTwoThree
  <2> HIDE DEF ls
  <2>2. CASE Semicolon(y)
    <3>1. Buffer(ls, 2) = front \o y
      BY <2>1 DEF Buffer
    <3>2. exec(Buffer(ls, 2)) = s
      <4>1. exec(OneBlank \o body \o <<>>) = s
        <5> HIDE DEF body
        <5> QED BY <1>e
      <4> QED BY <1>4, <3>1, <4>1
    <3>3. /\ 2 \in 1 .. Len(ls) /\ 2 <= 3 /\ (\A k \in 1 .. 2 - 1 : k = 1)
          /\ \A k \in 2 + 1 .. Len(ls) : k = 3
      BY <2>1
    <3>4. \A k \in 1 .. 2 - 1 : ls[k] # <<>> /\ ~Semicolon(ls[k])
      BY <2>1, <3>3
    <3>5. \A k \in 2 + 1 .. Len(ls) : NoMore(ls[k])
      BY <2>0, <2>1, <3>3
    <3>6. Semicolon(ls[2])
      BY <2>1, <2>2
    <3> QED BY <1>1, <2>1, <3>2, <3>3, <3>4, <3>5, <3>6, TypedIn DEF ls
  <2>3. CASE ~Semicolon(y)
    <3>1. Buffer(ls, 3) = front \o y \o OneBlank \o e
      BY <2>1 DEF Buffer
    <3>2. front \o y \o OneBlank \o e = OneBlank \o body \o (OneBlank \o e)
      <4> HIDE DEF front, body
      <4> DEFINE z == front \o y
      <4>1. z \in Seq(T) /\ OneBlank \in Seq(T) /\ e \in Seq(T)
        BY <1>1, <1>4, <2>0
      <4> HIDE DEF z
      <4>2. z \o OneBlank \o e = z \o (OneBlank \o e)
        BY ONLY <4>1, ConcatAssociative
      <4> QED BY <1>3, <4>2 DEF z
    <3>4. exec(Buffer(ls, 3)) = s
      <4>1. exec(OneBlank \o body \o (OneBlank \o e)) = s
        <5> HIDE DEF body
        <5> QED BY <1>e, <1>6
      <4> QED BY <3>1, <3>2, <4>1
    <3>5. /\ 3 \in 1 .. Len(ls) /\ 3 <= 3 /\ (\A k \in 1 .. 3 - 1 : k = 1 \/ k = 2)
          /\ \A k \in 3 + 1 .. Len(ls) : NoMore(ls[k])
      BY <2>1
    <3>6. \A k \in 1 .. 3 - 1 : ls[k] # <<>> /\ ~Semicolon(ls[k])
      BY <2>1, <2>3, <3>5
    <3>7. ls[3] = <<>> \/ Semicolon(ls[3])
      BY <2>0, <2>1
    <3> QED BY <1>1, <2>1, <3>4, <3>5, <3>6, <3>7, TypedIn DEF ls
  <2> QED BY <2>2, <2>3
<1> QED BY <1>5, <1>6

-----------------------------------------------------------------------------
(* The lines of a statement.                                               *)
LEMMA LinesAre ==
  ASSUME NEW s, NEW look, NEW all, all = Pieces(s, look)
  PROVE  LET J0 == Joined(all, look)
             J1 == Joined(SubSeq(all, 1, look.cut), look)
             J2 == Joined(SubSeq(all, look.cut + 1, Len(all)), look)
             e == IF look.end = "blank line" THEN <<>> ELSE OneStop
         IN  Lines(s, look) =
               IF look.cut = 0
               THEN IF look.end = "semicolon" THEN <<Append(J0, Stop)>> ELSE <<J0, e>>
               ELSE IF look.end = "semicolon" THEN <<J1, Append(J2, Stop)>> ELSE <<J1, J2, e>>
<1> DEFINE J0 == Joined(all, look)
           J1 == Joined(SubSeq(all, 1, look.cut), look)
           J2 == Joined(SubSeq(all, look.cut + 1, Len(all)), look)
           e == IF look.end = "blank line" THEN <<>> ELSE OneStop
           body == IF look.cut = 0 THEN <<J0>> ELSE <<J1, J2>>
<1>1. Lines(s, look) = IF look.end = "semicolon"
                       THEN Append(Seqs!Front(body), Append(Seqs!Last(body), Stop))
                       ELSE Append(body, e)
  BY Zenon DEF Lines, Stop, OneStop
<1> HIDE DEF J0, J1, J2, e
<1>2. CASE look.cut = 0
  <2>1. body = <<J0>>
    BY <1>2
  <2> HIDE DEF body
  <2> DEFINE j == Append(J0, Stop)
  <2> HIDE DEF j
  <2>2. Append(Seqs!Front(body), j) = <<j>> /\ Seqs!Last(body) = J0 /\ Append(body, e) = <<J0, e>>
    BY <2>1, Tuples
  <2> QED BY <1>1, <1>2, <2>2 DEF J0, J1, J2, e, j
<1>3. CASE look.cut # 0
  <2>1. body = <<J1, J2>>
    BY <1>3
  <2> HIDE DEF body
  <2> DEFINE j == Append(J2, Stop)
  <2> HIDE DEF j
  <2>2. Append(Seqs!Front(body), j) = <<J1, j>> /\ Seqs!Last(body) = J2
      /\ Append(body, e) = <<J1, J2, e>>
    <3>1. Seqs!Front(body) = <<J1>> /\ Seqs!Last(body) = J2 /\ Append(body, e) = <<J1, J2, e>>
      BY ONLY <2>1, Tuples
    <3>2. Append(<<J1>>, j) = <<J1, j>>
      BY ONLY Tuples
    <3> QED BY <3>1, <3>2
  <2> QED BY <1>1, <1>3, <2>2 DEF J0, J1, J2, e, j
<1> QED BY <1>2, <1>3

(* A part of the pieces.                                                   *)
LEMMA PartOf ==
  ASSUME NEW T, NEW all \in Seq(Seq(T)), NEW a \in 1 .. Len(all), NEW z \in a .. Len(all),
         Readable(T, all, Len(all))
  PROVE  LET P == SubSeq(all, a, z)
         IN  /\ Len(P) = z - a + 1 /\ \A i \in 1 .. z - a + 1 : P[i] = all[a + i - 1]
             /\ Readable(T, P, Len(P))
<1> DEFINE P == SubSeq(all, a, z)
           n == Len(all)
           l == z - a + 1
<1>1. n \in Nat /\ \A i \in a .. z : all[i] \in Seq(T)
  <2>1. n \in Nat /\ \A i \in 1 .. n : all[i] \in Seq(T)
    BY LenProperties, ElementOfSeq
  <2> QED BY <2>1
<1>2. Len(P) = l /\ l \in Nat /\ \A i \in 1 .. l : P[i] = all[a + i - 1]
  <2>1. a \in Int /\ z \in Int /\ a <= z /\ l \in Nat
    BY <1>1
  <2>2. Len(P) = (IF a <= z THEN z - a + 1 ELSE 0)
      /\ \A i \in 1 .. z - a + 1 : P[i] = all[a + i - 1]
    BY <1>1, <2>1, SubSeqProperties
  <2> QED BY <2>1, <2>2
<1>0. a \in Nat /\ z \in Nat /\ l \in Nat /\ 1 <= a /\ a <= z /\ z <= n /\ l = z - a + 1
  BY <1>1
<1>3. \A i \in 1 .. l : a + i - 1 \in 1 .. n
  BY <1>1
<1>4. \A i \in 1 .. n : all[i] \in Seq(T) /\ Piece(all[i])
  BY DEF Readable
<1> HIDE DEF P, n
<1>5. \A i \in 1 .. l : P[i] \in Seq(T) /\ Piece(P[i])
  <2> HIDE DEF l
  <2> QED BY <1>2, <1>3, <1>4
<1>6. NoGlue(P, l)
  <2>1. SUFFICES ASSUME NEW i \in 1 .. l - 1, SignPiece(P[i]), P[i][1] \in {"<", ">"}
                 PROVE  P[i + 1][1] \notin {"=", ">"}
    BY DEF NoGlue
  <2> DEFINE k == a + i - 1
  <2> HIDE DEF l
  <2>2. i \in 1 .. l /\ i + 1 \in 1 .. l /\ k \in 1 .. n - 1 /\ a + (i + 1) - 1 = k + 1
    BY <1>0, <1>1
  <2>3. P[i] = all[k] /\ P[i + 1] = all[k + 1]
    <3>1. P[i] = all[a + i - 1] /\ P[i + 1] = all[a + (i + 1) - 1]
      BY <1>2, <2>2
    <3> QED BY <2>2, <3>1
  <2> HIDE DEF k
  <2> QED BY <2>1, <2>2, <2>3 DEF Readable, NoGlue, n
<1>7. Readable(T, P, l)
  <2> HIDE DEF l
  <2> QED BY <1>2, <1>5, <1>6 DEF Readable
<1> QED BY <1>2, <1>7 DEF P

(* Pieces without a semicolon make a text without one.                     *)
LEMMA NoStop ==
  ASSUME NEW T, Space \in T, NEW ps, Len(ps) >= 1, Readable(T, ps, Len(ps)), NEW look, IsLook(look),
         \A i \in 1 .. Len(ps) : \A j \in DOMAIN ps[i] : ps[i][j] # Stop
  PROVE  ~Semicolon(Joined(ps, look))
<1> DEFINE V == T \ {Stop}
<1>1. Space \in V
  BY Signs
<1>2. \A i \in 1 .. Len(ps) : ps[i] \in Seq(V)
  <2>1. SUFFICES ASSUME NEW i \in 1 .. Len(ps) PROVE ps[i] \in Seq(V)
    OBVIOUS
  <2> DEFINE p == ps[i]
             n == Len(p)
  <2>2. p \in Seq(T) /\ \A j \in DOMAIN p : p[j] # Stop
    BY DEF Readable
  <2>3. n \in Nat /\ p = [j \in 1 .. n |-> p[j]] /\ \A j \in 1 .. n : p[j] \in T /\ p[j] # Stop
    <3> HIDE DEF p
    <3> QED BY <2>2, LenProperties, ElementOfSeq
  <2>4. \A j \in 1 .. n : p[j] \in V
    BY <2>3
  <2> HIDE DEF p, n, V
  <2>5. [j \in 1 .. n |-> p[j]] \in Seq(V)
    BY <2>3, <2>4, IsASeq
  <2> QED BY <2>3, <2>5 DEF p
<1>3. Readable(V, ps, Len(ps))
  <2> HIDE DEF V
  <2> QED BY <1>2 DEF Readable
<1> DEFINE x == Joined(ps, look)
<1>4. x \in Seq(V)
  <2> HIDE DEF V
  <2> QED BY <1>1, <1>3, JoinedIs
<1>5. \A i \in DOMAIN x : x[i] # Stop
  <2>1. \A i \in DOMAIN x : x[i] \in V
    <3> HIDE DEF V, x
    <3> QED BY <1>4, LenProperties, ElementOfSeq
  <2> QED BY <2>1
<1> HIDE DEF x
<1>6. ~Semicolon(x)
  BY <1>5, SemicolonIs
<1> QED BY <1>6 DEF x

(* No pieces make no text.                                                 *)
LEMMA NoPieces ==
  ASSUME NEW look
  PROVE  Joined(<<>>, look) = <<>>
<1> DEFINE ps == <<>>
<1>1. Len(ps) \in Nat /\ \A i \in 1 .. Len(ps) : Spaced(ps, i, look) \in Seq({})
  OBVIOUS
<1>2. Len(ps) = 0
  OBVIOUS
<1> HIDE DEF ps
<1>3. PICK g : g[0] = <<>> /\ Joined(ps, look) = g[Len(ps)]
  BY <1>1, JoinedLoop
<1> QED BY <1>2, <1>3 DEF ps

(* A statement in a look is typed.                                         *)
LEMMA TypedOf ==
  ASSUME NEW T, Space \in T, Stop \in T, NEW s, NEW look, IsLook(look),
         NEW all \in Seq(Seq(T)), all = Pieces(s, look), Len(all) >= 1, look.cut <= Len(all),
         Readable(T, all, Len(all)), Closed(all[Len(all)]), Means(T, all, Len(all), s),
         \A i \in 1 .. look.cut : \A j \in DOMAIN all[i] : all[i][j] # Stop
  PROVE  Typed(<<>>, Lines(s, look), s)
<1> DEFINE n == Len(all)
           c == look.cut
           P == SubSeq(all, 1, c)
           Q == SubSeq(all, c + 1, n)
           J0 == Joined(all, look)
           J1 == Joined(P, look)
           J2 == Joined(Q, look)
           e == IF look.end = "blank line" THEN <<>> ELSE OneStop
<1>1. n \in Nat \ {0} /\ c \in Nat /\ c <= n /\ OneStop \in Seq(T) /\ OneBlank \in Seq(T)
  BY LenProperties, OnesAre DEF IsLook
<1>2. e = <<>> \/ e = OneStop
  OBVIOUS
<1>3. Lines(s, look) = IF c = 0
               THEN IF look.end = "semicolon" THEN <<Append(J0, Stop)>> ELSE <<J0, e>>
               ELSE IF look.end = "semicolon" THEN <<J1, Append(J2, Stop)>> ELSE <<J1, J2, e>>
  BY LinesAre
<1>4. Body(T, all, n, s, J0)
  <2>1. J0 \in Seq(T) /\ \E b : LaidOut(J0, all, n, b) /\ Tight(all, n, b)
    BY JoinedIs
  <2> QED BY <1>1, <2>1 DEF Body
<1>5. J0 \in Seq(T) /\ Append(J0, Stop) = J0 \o OneStop
  <2>1. J0 \in Seq(T)
    BY <1>4 DEF Body
  <2> HIDE DEF J0
  <2> QED BY <2>1, AppendIsConcat DEF OneStop
<1>6. CASE c = 0
  <2> HIDE DEF J0, e
  <2> QED BY <1>2, <1>3, <1>4, <1>5, <1>6, OneLine
<1>7. CASE c = n
  <2>1. P = all
    BY <1>7, SubSeqFull
  <2>2. Q = <<>>
    BY <1>7, SubSeqEmpty
  <2>3. J1 = J0
    BY <2>1
  <2>4. J2 = <<>>
    BY <2>2, NoPieces
  <2>5. ~Semicolon(J0)
    BY <1>1, <1>7, NoStop
  <2>6. Append(<<>>, Stop) = OneStop
    BY Tuples DEF OneStop
  <2>7. c # 0
    BY <1>1, <1>7
  <2> HIDE DEF J0, J1, J2, e, c, n
  <2>8. Lines(s, look) = IF look.end = "semicolon" THEN <<J0, OneStop>> ELSE <<J0, <<>>, e>>
    BY <1>3, <2>3, <2>4, <2>6, <2>7
  <2> QED BY <1>2, <1>4, <2>5, <2>8, OneLine
<1>8. CASE c # 0 /\ c # n
  <2>1. c \in 1 .. n /\ 1 \in 1 .. n /\ c + 1 \in 1 .. n /\ c \in 1 .. n /\ n \in c + 1 .. n
        /\ n - c \in Nat \ {0} /\ c \in Nat \ {0} /\ c - 1 + 1 = c /\ n - (c + 1) + 1 = n - c
        /\ c + (n - c) = n
    <3> HIDE DEF c, n
    <3> QED BY <1>1, <1>8
  <2>2. Len(P) = c /\ (\A i \in 1 .. c : P[i] = all[i]) /\ Readable(T, P, Len(P))
    <3>1. Len(P) = c - 1 + 1 /\ (\A i \in 1 .. c - 1 + 1 : P[i] = all[1 + i - 1])
        /\ Readable(T, P, Len(P))
      <4>1. 1 \in 1 .. Len(all) /\ c \in 1 .. Len(all)
        BY <2>1
      <4> HIDE DEF c
      <4> QED BY ONLY <4>1, all \in Seq(Seq(T)), Readable(T, all, Len(all)), PartOf
    <3>2. \A i \in 1 .. c : 1 + i - 1 = i
      BY <1>1
    <3> HIDE DEF P
    <3> QED BY <2>1, <3>1, <3>2
  <2>3. Len(Q) = n - c /\ (\A i \in 1 .. n - c : Q[i] = all[c + i]) /\ Readable(T, Q, Len(Q))
    <3>1. Len(Q) = n - (c + 1) + 1 /\ (\A i \in 1 .. n - (c + 1) + 1 : Q[i] = all[(c + 1) + i - 1])
          /\ Readable(T, Q, Len(Q))
      <4> DEFINE a == c + 1
                 z == Len(all)
      <4>1. a \in 1 .. Len(all) /\ z \in a .. Len(all)
        BY <2>1
      <4> HIDE DEF c, a
      <4>2. Len(SubSeq(all, a, z)) = z - a + 1
            /\ (\A i \in 1 .. z - a + 1 : SubSeq(all, a, z)[i] = all[a + i - 1])
            /\ Readable(T, SubSeq(all, a, z), Len(SubSeq(all, a, z)))
        BY ONLY <4>1, all \in Seq(Seq(T)), Readable(T, all, Len(all)), PartOf
      <4> QED BY <4>2 DEF a
    <3>2. \A i \in 1 .. n - c : (c + 1) + i - 1 = c + i
      BY <1>1
    <3> HIDE DEF Q
    <3> QED BY <2>1, <3>1, <3>2
  <2> HIDE DEF P, Q
  <2>4. J1 \in Seq(T) /\ \E b : LaidOut(J1, P, c, b) /\ Tight(P, c, b)
    <3>1. Len(P) >= 1
      BY <2>1, <2>2
    <3>2. J1 \in Seq(T) /\ \E b : LaidOut(J1, P, Len(P), b) /\ Tight(P, Len(P), b)
      BY <2>2, <3>1, JoinedIs
    <3> QED BY <2>2, <3>2
  <2>5. J2 \in Seq(T) /\ \E b : LaidOut(J2, Q, n - c, b) /\ Tight(Q, n - c, b)
    <3>1. Len(Q) >= 1
      BY <2>1, <2>3
    <3>2. J2 \in Seq(T) /\ \E b : LaidOut(J2, Q, Len(Q), b) /\ Tight(Q, Len(Q), b)
      BY <2>3, <3>1, JoinedIs
    <3> QED BY <2>3, <3>2
  <2>6. ~Semicolon(J1)
    <3>1. Len(P) >= 1 /\ \A i \in 1 .. Len(P) : \A j \in DOMAIN P[i] : P[i][j] # Stop
      <4>1. \A i \in 1 .. c : \A j \in DOMAIN all[i] : all[i][j] # Stop
        OBVIOUS
      <4> HIDE DEF c
      <4>2. Len(P) = c /\ c >= 1 /\ \A i \in 1 .. c : P[i] = all[i]
        <5>1. c \in Nat \ {0}
          BY ONLY <2>1
        <5>2. Len(P) = c /\ \A i \in 1 .. c : P[i] = all[i]
          BY ONLY <2>2
        <5> QED BY ONLY <5>1, <5>2
      <4>3. \A i \in 1 .. c : \A j \in DOMAIN P[i] : P[i][j] # Stop
        BY ONLY <4>1, <4>2
      <4> QED BY ONLY <4>2, <4>3
    <3> QED BY <2>2, <3>1, NoStop
  <2> HIDE DEF J0, J1, J2, c, n, e
  <2>7. PICK b : LaidOut(J1, P, c, b) /\ Tight(P, c, b)
    BY <2>4
  <2>8. PICK d : LaidOut(J2, Q, n - c, d) /\ Tight(Q, n - c, d)
    BY <2>5
  <2>9. \A i \in 1 .. n : all[i] \in Seq(T) /\ Piece(all[i])
    BY DEF Readable, n
  <2>10. J1 # <<>> /\ J2 # <<>>
    <3>1. Len(J1) # 0
      <4>1. \A i \in 1 .. c : P[i] \in Seq(T) /\ Piece(P[i])
        BY <2>2 DEF Readable
      <4>2. Len(J1) \in Nat \ {0}
        BY ONLY <2>1, <2>4, <2>7, <4>1, EndsOf
      <4> QED BY <4>2
    <3>2. Len(J2) # 0
      <4>1. \A i \in 1 .. n - c : Q[i] \in Seq(T) /\ Piece(Q[i])
        BY <2>3 DEF Readable
      <4> DEFINE m == n - c
      <4>2. m \in Nat \ {0} /\ \A i \in 1 .. m : Q[i] \in Seq(T) /\ Piece(Q[i])
        BY <2>1, <4>1
      <4>3. LaidOut(J2, Q, m, d) /\ Tight(Q, m, d)
        BY <2>8
      <4> HIDE DEF m
      <4>4. Len(J2) \in Nat \ {0}
        BY ONLY <2>5, <4>2, <4>3, EndsOf
      <4> QED BY <4>4
    <3> QED BY <3>1, <3>2
  <2> DEFINE body == J1 \o OneBlank \o J2
  <2>11. \E f : LaidOut(body, all, n, f) /\ Tight(all, n, f)
    <3> DEFINE m == n - c
    <3>1. m \in Nat \ {0} /\ c \in Nat \ {0} /\ c + m = n
      BY <2>1
    <3>2. LaidOut(J2, Q, m, d) /\ Tight(Q, m, d) /\ \A i \in 1 .. m : Q[i] = all[c + i]
      BY <2>3, <2>8
    <3> HIDE DEF m
    <3>3. \A i \in 1 .. c + m : all[i] \in Seq(T) /\ Piece(all[i])
      BY <2>9, <3>1
    <3>4. \E f : LaidOut(J1 \o <<Space>> \o J2, all, c + m, f) /\ Tight(all, c + m, f)
      BY <2>2, <2>4, <2>5, <2>7, <3>1, <3>2, <3>3, TwoTexts
    <3> QED BY <3>1, <3>4 DEF OneBlank
  <2>12. body \in Seq(T)
    <3>1. J1 \o OneBlank \in Seq(T)
      BY <1>1, <2>4, ConcatProperties
    <3> QED BY <2>5, <3>1, ConcatProperties
  <2>13. Body(T, all, n, s, body)
    <3> HIDE DEF body
    <3> QED BY <1>4, <2>11, <2>12 DEF Body
  <2>14. Append(J2, Stop) = J2 \o OneStop
    BY <2>5, AppendIsConcat DEF OneStop
  <2>15. Typed(<<>>, <<J1, J2 \o OneStop>>, s) /\ Typed(<<>>, <<J1, J2, e>>, s)
    BY <1>2, <2>4, <2>5, <2>6, <2>10, <2>13, TwoLines
  <2> QED BY <1>3, <1>8, <2>14, <2>15
<1> QED BY <1>6, <1>7, <1>8

-----------------------------------------------------------------------------
(* The characters of statements.                                           *)
Base(T) == Sign \cup Keyword \cup DOMAIN Upper \cup DOMAIN Number \cup DOMAIN Code \subseteq T
Plain(p) == Piece(p) /\ Closed(p) /\ p[1] \notin {"<", ">"}

(* A piece that is read as t.                                              *)
Fits(T, p, t) == p \in Seq(T) /\ Plain(p) /\ Tok(p) = t

(* A token is read as one word only.                                       *)
LEMMA ReadsOne ==
  ASSUME NEW t, NEW v, NEW w, Reads(t, v), Reads(t, w)
  PROVE  v = w
<1>1. <<v>> = <<w>> /\ <<v>>[1] = v /\ <<w>>[1] = w
  BY OneChar DEF Reads
<1> QED BY <1>1

(* Is looks for a token that is read as the word.                          *)
LEMMA IsReads ==
  ASSUME NEW toks, NEW i, NEW w
  PROVE  Is(toks, i, w) <=> i <= Len(toks) /\ Reads(toks[i], w)
BY DEF Is, Reads

(* What reads as a word is one character.                                  *)
LEMMA ReadsIs ==
  ASSUME NEW t, NEW w
  PROVE  /\ Reads(t, w) => DOMAIN t = {1}
             /\ (IF t[1] \in DOMAIN Upper THEN Upper[t[1]] ELSE t[1]) = w
         /\ \A c : t = <<c>> => (Reads(t, w) <=> (IF c \in DOMAIN Upper THEN Upper[c] ELSE c) = w)
<1> DEFINE up(c) == IF c \in DOMAIN Upper THEN Upper[c] ELSE c
           u == to_upper(t)
<1>1. u = [i \in DOMAIN t |-> up(t[i])]
  BY DEF to_upper
<1>2. <<w>>[1] = w /\ DOMAIN <<w>> = {1}
  BY OneChar
<1> HIDE DEF u, up
<1>3. DOMAIN u = DOMAIN t /\ \A i \in DOMAIN t : u[i] = up(t[i])
  BY <1>1
<1>4. ASSUME Reads(t, w) PROVE DOMAIN t = {1} /\ up(t[1]) = w
  <2>1. u = <<w>>
    BY <1>4 DEF Reads, u
  <2>2. DOMAIN t = {1}
    BY <1>2, <1>3, <2>1
  <2> QED BY <1>2, <1>3, <2>1, <2>2
<1>5. ASSUME NEW c, t = <<c>>, up(c) = w PROVE Reads(t, w)
  <2>1. t[1] = c /\ DOMAIN t = {1}
    BY <1>5, OneChar
  <2>2. u = [i \in {1} |-> w]
    BY <1>1, <1>5, <2>1
  <2>3. <<w>> = [i \in {1} |-> w]
    BY <1>2
  <2>4. u = <<w>>
    BY <2>2, <2>3
  <2> QED BY <2>4 DEF Reads, u
<1>6. ASSUME NEW c, t = <<c>>, Reads(t, w) PROVE up(c) = w
  BY <1>4, <1>6, OneChar
<1> QED BY <1>4, <1>5, <1>6 DEF up

(* Letters, digits, signs and keywords are different characters; each      *)
(* keyword is the upper case of some letter; a number is read back from    *)
(* its numeral.                                                            *)
LEMMA Characters ==
  /\ \A c \in DOMAIN Upper : c \notin Sign /\ Upper[c] \notin Sign
                             /\ c \notin DOMAIN Number /\ Upper[c] \notin DOMAIN Number
  /\ \A w \in Keyword : w \notin DOMAIN Upper /\ w \notin Sign
      /\ \E c \in DOMAIN Upper : Upper[c] = w
  /\ \A c \in DOMAIN Number : c \notin Sign /\ c \notin Keyword /\ c \notin DOMAIN Upper
  /\ \A n \in DOMAIN Numeral : Numeral[n] \in DOMAIN Number /\ Number[Numeral[n]] = n
  /\ \A c \in Sign : c \notin DOMAIN Upper
<1> USE CharactersAssumption
<1>1. \A c \in DOMAIN Upper : c \notin Sign /\ Upper[c] \notin Sign
                             /\ c \notin DOMAIN Number /\ Upper[c] \notin DOMAIN Number
  OBVIOUS
<1>2. \A w \in Keyword : w \notin DOMAIN Upper /\ \E c \in DOMAIN Upper : Upper[c] = w
  OBVIOUS
<1>3. \A c \in DOMAIN Number : c \notin Sign /\ c \notin Keyword
  OBVIOUS
<1>4. \A n \in DOMAIN Numeral : Numeral[n] \in DOMAIN Number /\ Number[Numeral[n]] = n
  OBVIOUS
<1> QED BY ONLY <1>1, <1>2, <1>3, <1>4

(* A character that is no sign is a word, and its own token.               *)
LEMMA OneWord ==
  ASSUME NEW T, NEW c \in T, c \notin Sign
  PROVE  WordPiece(<<c>>) /\ Fits(T, <<c>>, <<c>>)
<1> DEFINE p == <<c>>
<1>1. p \in Seq(T) /\ Len(p) = 1 /\ p[1] = c /\ DOMAIN p = {1} /\ p # <<>>
  BY OneChar, OneTwoThree
<1> HIDE DEF p
<1>2. WordPiece(p)
  BY <1>1 DEF WordPiece
<1>3. c \notin Quotes /\ c # Space /\ c # Stop /\ c \notin {"<", ">"}
  BY Signs
<1>4. Plain(p)
  BY <1>1, <1>2, <1>3 DEF Plain, Piece, Closed
<1>5. Tok(p) = p
  <2>1. p # <<"<", ">">>
    <3>1. Len(<<"<", ">">>) = 2
      BY TwoChars
    <3> QED BY <1>1, <3>1
  <2> QED BY <1>1, <1>3, <2>1 DEF Tok
<1> QED BY <1>1, <1>2, <1>4, <1>5 DEF Fits, p

(* A keyword, in lower or in upper case, is read as itself.                *)
LEMMA KeywordIs ==
  ASSUME NEW T, Base(T), NEW w \in Keyword, NEW look
  PROVE  LET p == Word(w, look)
         IN  WordPiece(p) /\ Fits(T, p, p) /\ Reads(p, w) /\ Len(p) = 1
<1> DEFINE k == CHOOSE c \in DOMAIN Upper : Upper[c] = w
           p == Word(w, look)
<1>1. k \in DOMAIN Upper /\ Upper[k] = w /\ k \notin Sign /\ w \notin Sign /\ w \notin DOMAIN Upper
  BY Characters
<1>2. p = <<k>> \/ p = <<w>>
  BY DEF Word
<1> HIDE DEF k, p
<1>3. CASE p = <<k>>
  <2>1. k \in T
    BY <1>1 DEF Base
  <2>2. Reads(p, w)
    BY <1>1, <1>3, ReadsIs
  <2> QED BY <1>1, <1>3, <2>1, <2>2, OneWord, OneChar DEF p
<1>4. CASE p = <<w>>
  <2>1. w \in T
    BY DEF Base
  <2>2. Reads(p, w)
    BY <1>1, <1>4, ReadsIs
  <2> QED BY <1>1, <1>4, <2>1, <2>2, OneWord, OneChar DEF p
<1> QED BY <1>2, <1>3, <1>4

(* A name is its own token, and never read as a sign.                      *)
LEMMA WordIs ==
  ASSUME NEW T, NEW t \in Seq(T), IsWord(t)
  PROVE  WordPiece(t) /\ Fits(T, t, t) /\ \A c \in Sign \ {"."} : ~Reads(t, c)
<1>1. WordPiece(t)
  BY DEF IsWord, WordPiece
<1>2. Len(t) \in Nat /\ Len(t) >= 1 /\ 1 \in DOMAIN t /\ Len(t) \in DOMAIN t
  BY <1>1, PieceIs, LenProperties DEF Piece
<1>3. t[1] \notin Sign \ {"."} /\ t[Len(t)] \notin Sign \ {"."}
  BY <1>1, <1>2 DEF WordPiece
<1>4. t[1] \notin Quotes /\ t[1] \notin {"<", ">"} /\ t[Len(t)] # Space /\ t[Len(t)] # Stop
  BY <1>3, Signs
<1>5. Plain(t)
  BY <1>1, <1>4 DEF Plain, Piece, Closed
<1>6. Tok(t) = t
  <2>1. <<"<", ">">>[1] = "<"
    BY TwoChars
  <2>2. t # <<"<", ">">>
    BY <1>4, <2>1
  <2> QED BY <1>4, <2>2 DEF Tok
<1>7. \A c \in Sign \ {"."} : ~Reads(t, c)
  BY <1>3, ReadsIs, Characters
<1> QED BY <1>1, <1>5, <1>6, <1>7 DEF Fits

OtherSigns == {"(", ")", ",", "=", "*"}

(* The signs that neither quote nor begin an operator of two characters.   *)
LEMMA OthersAre ==
  /\ OtherSigns \subseteq Punctuation /\ OtherSigns \cap Quotes = {}
      /\ OtherSigns \cap {"<", ">"} = {}
  /\ Space \notin OtherSigns /\ Stop \notin OtherSigns
<1>1. OtherSigns \subseteq Punctuation
  BY Zenon DEF OtherSigns, Punctuation
<1>2. OtherSigns \cap Quotes = {} /\ OtherSigns \cap {"<", ">"} = {} /\ Space \notin OtherSigns
  BY DEF OtherSigns, Quotes, Space
<1>3. Stop \notin OtherSigns
  BY Zenon DEF OtherSigns, Stop
<1> QED BY <1>1, <1>2, <1>3

(* Each of these signs is its own token, and read as itself.               *)
LEMMA SignIs ==
  ASSUME NEW T, Base(T), NEW c \in OtherSigns
  PROVE  Fits(T, <<c>>, <<c>>) /\ Reads(<<c>>, c)
<1> DEFINE p == <<c>>
<1>0. c \in Sign /\ c \in T /\ c \in Punctuation /\ c \notin Quotes /\ c \notin {"<", ">"}
    /\ c # Space /\ c # Stop
  BY OthersAre, Signs DEF Base
<1>1. p \in Seq(T) /\ Len(p) = 1 /\ p[1] = c /\ DOMAIN p = {1} /\ p # <<>>
  BY <1>0, OneChar, OneTwoThree
<1>2. Reads(p, c)
  BY <1>0, ReadsIs, Characters
<1>3. SignPiece(p)
  BY <1>0 DEF SignPiece
<1> HIDE DEF p
<1>4. Plain(p)
  BY <1>0, <1>1, <1>3 DEF Plain, Piece, Closed
<1>5. Tok(p) = p
  <2>1. p # <<"<", ">">>
    <3>1. Len(<<"<", ">">>) = 2
      BY TwoChars
    <3> QED BY <1>1, <3>1
  <2> QED BY <1>0, <1>1, <2>1 DEF Tok
<1> QED BY <1>1, <1>2, <1>4, <1>5 DEF Fits, p

(* trim leaves a character that is no blank.                               *)
LEMMA TrimOne ==
  ASSUME NEW c, c # Space
  PROVE  trim(<<c>>) = <<c>>
<1> DEFINE p == <<c>>
<1>1. p \in Seq({c}) /\ Len(p) = 1 /\ p[1] = c
  BY OneChar
<1> HIDE DEF p
<1>2. 1 \in 1 .. Len(p) /\ p[1] # Space /\ \A i \in 1 .. Len(p) : ~(i < 1) /\ ~(1 < i)
  BY <1>1
<1>3. trim(p) = SubSeq(p, 1, 1)
  BY <1>1, <1>2, TrimIs
<1>4. SubSeq(p, 1, 1) = p
  BY <1>1, SubSeqFull
<1> QED BY <1>3, <1>4 DEF p

(* A numeral is its own token, whose number it is, and no word.            *)
LEMMA NumeralIs ==
  ASSUME NEW T, Base(T), NEW n \in DOMAIN Numeral
  PROVE  LET p == <<Numeral[n]>>
         IN  Fits(T, p, p) /\ stoi(p) = n /\ \A w \in Keyword \cup Sign : ~Reads(p, w)
<1> DEFINE c == Numeral[n]
           p == <<c>>
<1>1. c \in DOMAIN Number /\ Number[c] = n /\ c \notin Sign /\ c \notin Keyword
    /\ c \notin DOMAIN Upper
  BY Characters
<1>2. c \in T /\ c # Space
  BY <1>1, Signs DEF Base
<1> HIDE DEF c
<1>3. Fits(T, p, p)
  BY <1>1, <1>2, OneWord
<1>4. trim(p) = p /\ p # <<>> /\ p[1] = c
  BY <1>2, TrimOne, OneChar
<1> HIDE DEF p
<1>5. stoi(p) = n
  BY <1>1, <1>4 DEF stoi
<1>6. \A w \in Keyword \cup Sign : ~Reads(p, w)
  BY <1>1, ReadsIs DEF p
<1> QED BY <1>3, <1>5, <1>6 DEF p, c

-----------------------------------------------------------------------------
(* A literal.                                                              *)
LEMMA Enclosed ==
  ASSUME NEW T, NEW q \in T, NEW v \in Seq(T)
  PROVE  LET p == <<q>> \o v \o <<q>>
         IN  /\ p \in Seq(T) /\ Len(v) \in Nat /\ Len(p) = Len(v) + 2 /\ p[1] = q /\ p[Len(p)] = q
             /\ SubSeq(p, 2, Len(p) - 1) = v
<1> DEFINE one == <<q>>
           s == one \o v
           p == s \o one
           n == Len(v)
<1>1. one \in Seq(T) /\ Len(one) = 1 /\ one[1] = q /\ n \in Nat
  BY OneTwoThree
<1> HIDE DEF one
<1>2. s \in Seq(T) /\ Len(s) = n + 1 /\ s[1] = q /\ \A i \in 1 .. n : s[i + 1] = v[i]
  <2>1. s \in Seq(T) /\ Len(s) = 1 + n
      /\ \A i \in 1 .. 1 + n : s[i] = IF i <= 1 THEN one[i] ELSE v[i - 1]
    <3>1. s \in Seq(T) /\ Len(s) = Len(one) + Len(v) /\ \A i \in 1 .. Len(one) + Len(v) :
            s[i] = IF i <= Len(one) THEN one[i] ELSE v[i - Len(one)]
      BY <1>1, ConcatProperties
    <3> HIDE DEF s
    <3> QED BY <1>1, <3>1
  <2> HIDE DEF s
  <2>2. 1 \in 1 .. 1 + n /\ \A i \in 1 .. n : i + 1 \in 1 .. 1 + n /\ ~(i + 1 <= 1)
      /\ (i + 1) - 1 = i
    BY <1>1
  <2>3. s[1] = q
    BY <1>1, <2>1, <2>2
  <2>4. \A i \in 1 .. n : s[i + 1] = v[i]
    BY <2>1, <2>2
  <2> QED BY <1>1, <2>1, <2>3, <2>4
<1> HIDE DEF s
<1>3. p \in Seq(T) /\ Len(p) = n + 2 /\ p[n + 2] = q /\ \A i \in 1 .. n + 1 : p[i] = s[i]
  <2>1. s \in Seq(T) /\ q \in T
    BY <1>2
  <2>2. /\ s \o <<q>> \in Seq(T) /\ Len(s \o <<q>>) = Len(s) + 1 /\ (s \o <<q>>)[Len(s) + 1] = q
        /\ \A i \in 1 .. Len(s) : (s \o <<q>>)[i] = s[i]
    BY ONLY <2>1, AppendedLast
  <2>3. p = s \o <<q>>
    BY DEF one
  <2> HIDE DEF p
  <2> QED BY <1>1, <1>2, <2>2, <2>3
<1> HIDE DEF p
<1>4. p[1] = q
  BY <1>1, <1>2, <1>3
<1>5. SubSeq(p, 2, n + 1) \in Seq(T) /\ Len(SubSeq(p, 2, n + 1)) = n
      /\ \A i \in 1 .. n : SubSeq(p, 2, n + 1)[i] = p[i + 1]
  <2>1. \A i \in 2 .. n + 1 : p[i] \in T
    BY <1>1, <1>3, ElementOfSeq
  <2>2. (IF 2 <= n + 1 THEN n + 1 - 2 + 1 ELSE 0) = n
    BY <1>1
  <2>3. SubSeq(p, 2, n + 1) \in Seq(T)
        /\ Len(SubSeq(p, 2, n + 1)) = (IF 2 <= n + 1 THEN n + 1 - 2 + 1 ELSE 0)
        /\ \A i \in 1 .. n + 1 - 2 + 1 : SubSeq(p, 2, n + 1)[i] = p[2 + i - 1]
    BY <1>1, <2>1, SubSeqProperties
  <2>4. n + 1 - 2 + 1 = n /\ \A i \in 1 .. n : 2 + i - 1 = i + 1
    BY <1>1
  <2> QED BY <2>2, <2>3, <2>4
<1>6. SubSeq(p, 2, n + 1) = v
  <2>1. \A i \in 1 .. n : p[i + 1] = v[i]
    <3>1. \A i \in 1 .. n : i + 1 \in 1 .. n + 1
      BY <1>1
    <3> QED BY <1>2, <1>3, <3>1
  <2> DEFINE t == SubSeq(p, 2, n + 1)
  <2>2. t \in Seq(T) /\ Len(t) = Len(v) /\ \A i \in 1 .. Len(t) : t[i] = v[i]
    BY <1>5, <2>1
  <2> HIDE DEF t
  <2>3. t = v
    BY <2>2, SameSeq
  <2> QED BY <2>3 DEF t
<1>7. Len(p) - 1 = n + 1
  BY <1>1, <1>3
<1> QED BY <1>1, <1>3, <1>4, <1>6, <1>7 DEF p, s, one

(* A value, in quotes or without, is read back, if it does not hold the    *)
(* quote it is written in.                                                 *)
LEMMA LiteralIs ==
  ASSUME NEW T, Base(T), NEW v \in Seq(T), NEW look, IsLook(look),
         Literal(v, look)[1] \in Quotes =>
           \A j \in 2 .. Len(Literal(v, look)) - 1 : Literal(v, look)[j] # Literal(v, look)[1]
  PROVE  Fits(T, Literal(v, look), v) /\ Literal(v, look)[1] \notin {"=", ">"}
<1> DEFINE p == Literal(v, look)
           q == look.quote
<1>0. q \in Quotes /\ q \in T
  BY Signs DEF IsLook, Base
<1>1. CASE Len(v) = 1 /\ v[1] \in DOMAIN Number
  <2> DEFINE c == v[1]
  <2>1. p = v
    BY <1>1 DEF Literal
  <2>2. v = <<c>>
    <3>1. <<c>> \in Seq({c}) /\ Len(<<c>>) = 1 /\ <<c>>[1] = c
      BY OneChar
    <3> DEFINE u == <<c>>
    <3>2. Len(v) = Len(u) /\ \A i \in 1 .. Len(v) : v[i] = u[i]
      BY <1>1, <3>1
    <3>3. u \in Seq({c})
      BY <3>1
    <3> HIDE DEF u, c
    <3>4. v = u
      BY <3>2, <3>3, SameSeq
    <3> QED BY <3>4 DEF u
  <2>3. c \notin Sign /\ c \in T
    BY <1>1, Characters DEF Base
  <2>4. c \notin {"=", ">"}
    BY <2>3, Signs
  <2> HIDE DEF c
  <2>5. Fits(T, <<c>>, <<c>>) /\ <<c>>[1] = c
    BY <2>3, OneWord, OneChar
  <2> QED BY <2>1, <2>2, <2>4, <2>5
<1>2. CASE ~(Len(v) = 1 /\ v[1] \in DOMAIN Number)
  <2>1. p = <<q>> \o v \o <<q>>
    BY <1>2 DEF Literal
  <2> HIDE DEF p
  <2>2. p \in Seq(T) /\ Len(v) \in Nat /\ Len(p) = Len(v) + 2 /\ p[1] = q /\ p[Len(p)] = q
        /\ SubSeq(p, 2, Len(p) - 1) = v
    <3> HIDE DEF q
    <3> QED BY <1>0, <2>1, Enclosed
  <2>3. \A j \in 2 .. Len(p) - 1 : p[j] # p[1]
    BY <1>0, <2>2 DEF p
  <2>4. QuotedPiece(p)
    <3> HIDE DEF q
    <3> QED BY <1>0, <2>2, <2>3 DEF QuotedPiece
  <2>5. q # Space /\ q # Stop /\ q \notin {"<", ">"} /\ q \notin {"=", ">"}
    BY <1>0, Signs
  <2> HIDE DEF q
  <2>6. Plain(p) /\ Tok(p) = v
    BY <1>0, <2>2, <2>4, <2>5 DEF Plain, Piece, Closed, Tok
  <2> QED BY <2>2, <2>5, <2>6 DEF Fits, p
<1> QED BY <1>1, <1>2

(* The six operators of WHERE are read back.                               *)
LEMMA OpOf ==
  /\ op_of(<<"=">>) = "=" /\ op_of(<<"<">>) = "<" /\ op_of(<<">">>) = ">"
  /\ op_of(<<"!", "=">>) = "!=" /\ op_of(<<"<", "=">>) = "<=" /\ op_of(<<">", "=">>) = ">="
<1> DEFINE e == <<"=">>
           l == <<"<">>
           g == <<">">>
           ne == <<"!", "=">>
           le == <<"<", "=">>
           ge == <<">", "=">>
<1>1. \A t : op_of(t) = CASE t = e -> "=" [] t = ne -> "!=" [] t = l -> "<" [] t = g -> ">"
                          [] t = le -> "<=" [] t = ge -> ">=" [] OTHER -> ""
  BY DEF op_of
<1>2. Len(e) = 1 /\ e[1] = "=" /\ Len(l) = 1 /\ l[1] = "<" /\ Len(g) = 1 /\ g[1] = ">"
  BY OneChar
<1>3. Len(ne) = 2 /\ ne[1] = "!" /\ Len(le) = 2 /\ le[1] = "<" /\ Len(ge) = 2 /\ ge[1] = ">"
  BY TwoChars
<1> HIDE DEF e, l, g, ne, le, ge
<1>4. e # l /\ e # g /\ l # g /\ ne # le /\ ne # ge /\ le # ge
  BY <1>2, <1>3
<1>5. \A x \in {e, l, g}, y \in {ne, le, ge} : x # y
  BY <1>2, <1>3
<1>6. op_of(e) = "=" /\ op_of(l) = "<" /\ op_of(g) = ">" /\ op_of(ne) = "!=" /\ op_of(le) = "<="
      /\ op_of(ge) = ">="
  BY <1>1, <1>4, <1>5
<1> QED BY <1>6 DEF e, l, g, ne, le, ge

(* An operator.                                                            *)
LEMMA OperatorIs ==
  ASSUME NEW T, Base(T), NEW op \in {"=", "!=", "<", ">=", ">", "<="}, NEW look, IsLook(look)
  PROVE  LET p == Operator(op, look)
         IN  p \in Seq(T) /\ Piece(p) /\ op_of(Tok(p)) = op
<1> DEFINE p == Operator(op, look)
<1>1. /\ op = "!=" => p = <<"!", "=">> \/ p = <<"<", ">">>
      /\ op = "<=" => p = <<"<", "=">>
      /\ op = ">=" => p = <<">", "=">>
      /\ op \in {"=", "<", ">"} => p = <<op>>
  BY DEF Operator, IsLook
<1>2. /\ {"<", ">", "=", "!"} \subseteq Sign /\ "<" \in Punctuation /\ ">" \in Punctuation
          /\ "=" \in Punctuation
      /\ {"<", ">", "=", "!"} \cap Quotes = {}
  <2>1. {"<", ">", "=", "!"} \subseteq Sign
    BY Signs, OthersAre DEF OtherSigns
  <2>2. {"<", ">", "="} \subseteq Punctuation
    BY Signs
  <2> QED BY <2>1, <2>2, Signs
<1>3. ASSUME NEW c \in {"<", ">", "="}
      PROVE  <<c>> \in Seq(T) /\ SignPiece(<<c>>) /\ Tok(<<c>>) = <<c>>
  <2> DEFINE u == <<c>>
  <2>1. u \in Seq(T) /\ Len(u) = 1 /\ u[1] = c
    BY <1>2, OneTwoThree DEF Base
  <2>2. SignPiece(u)
    BY <1>2 DEF SignPiece
  <2> HIDE DEF u
  <2>3. u # <<"<", ">">>
    <3>1. Len(<<"<", ">">>) = 2
      BY TwoChars
    <3> QED BY <2>1, <3>1
  <2>4. Tok(u) = u
    BY <1>2, <2>1, <2>3 DEF Tok
  <2> QED BY <2>1, <2>2, <2>4 DEF u
<1>4. ASSUME NEW u \in TwoChar
      PROVE  u \in Seq(T) /\ Tok(u) = IF u = <<"<", ">">> THEN <<"!", "=">> ELSE u
  <2>1. u[1] \in {"<", ">", "!"} /\ u[2] \in {"=", ">"} /\ u \in Seq({u[1], u[2]})
    BY TwoCharIs
  <2>2. u[1] \in T /\ u[2] \in T
    BY <1>2, <2>1 DEF Base
  <2>3. u \in Seq(T)
    BY <2>1, <2>2, SeqMonotonic
  <2>4. u[1] \notin Quotes
    BY <1>2, <2>1
  <2> QED BY <2>3, <2>4 DEF Tok
<1>5. CASE op \in {"=", "<", ">"}
  <2>1. p = <<op>>
    BY <1>1, <1>5
  <2> HIDE DEF p
  <2>2. p \in Seq(T) /\ Piece(p) /\ Tok(p) = p
    BY <1>3, <1>5, <2>1 DEF Piece
  <2>3. op_of(<<op>>) = op
    BY <1>5, OpOf
  <2> QED BY <2>1, <2>2, <2>3 DEF p
<1>6. CASE op = "!="
  <2>1. p \in {<<"!", "=">>, <<"<", ">">>}
    BY <1>1, <1>6
  <2>2. p \in TwoChar
    BY <2>1 DEF TwoChar
  <2> HIDE DEF p
  <2>3. Tok(p) = <<"!", "=">>
    BY <1>4, <2>1, <2>2
  <2> QED BY <1>4, <1>6, <2>2, <2>3, OpOf DEF p, Piece
<1>7. CASE op \in {"<=", ">="}
  <2> DEFINE u == IF op = "<=" THEN <<"<", "=">> ELSE <<">", "=">>
  <2>1. p = u /\ u \in TwoChar
    <3>1. u \in TwoChar
      BY Zenon DEF TwoChar
    <3>2. CASE op = "<="
      <4>1. u = <<"<", "=">>
        BY <3>2
      <4> HIDE DEF u, p
      <4>2. p = <<"<", "=">>
        BY <1>1, <3>2, Zenon
      <4> QED BY <3>1, <4>1, <4>2, Zenon
    <3>3. CASE op = ">="
      <4>1. u = <<">", "=">>
        BY <3>3
      <4> HIDE DEF u, p
      <4>2. p = <<">", "=">>
        BY <1>1, <3>3, Zenon
      <4> QED BY <3>1, <4>1, <4>2, Zenon
    <3> QED BY <1>7, <3>2, <3>3
  <2>2. u # <<"<", ">">>
    <3>1. u[2] = "=" /\ <<"<", ">">>[2] = ">"
      BY TwoChars
    <3> QED BY <3>1
  <2>3. op_of(u) = op
    BY <1>7, OpOf
  <2> HIDE DEF p, u
  <2>4. Tok(u) = u
    BY <1>4, <2>1, <2>2
  <2> QED BY <1>4, <2>1, <2>3, <2>4 DEF p, Piece
<1> QED BY <1>5, <1>6, <1>7

-----------------------------------------------------------------------------
(* Every sequence is one of its elements.                                  *)
LEMMA OfItsElements ==
  ASSUME NEW T, NEW t \in Seq(T)
  PROVE  t \in Seq({t[i] : i \in DOMAIN t})
<1> DEFINE n == Len(t)
           V == {t[i] : i \in DOMAIN t}
<1>1. n \in Nat /\ DOMAIN t = 1 .. n /\ t = [i \in 1 .. n |-> t[i]]
  BY LenProperties
<1>2. \A i \in 1 .. n : t[i] \in V
  BY <1>1
<1> HIDE DEF n, V
<1>3. [i \in 1 .. n |-> t[i]] \in Seq(V)
  BY <1>1, <1>2, IsASeq
<1> QED BY <1>1, <1>3 DEF V

(* A reference is a word, and cut where it was put together.               *)
LEMMA Undotted ==
  ASSUME NEW T, NEW ref \in Seq(T), \A i \in 1 .. Len(ref) : ref[i] # "."
  PROVE  split_ref(ref) = [table |-> <<>>, name |-> ref]
<1>1. {i \in 1 .. Len(ref) : ref[i] = "."} = {}
  OBVIOUS
<1> QED BY <1>1 DEF split_ref

(* A name with the table before it is divided at the dot.                  *)
LEMMA Dotted ==
  ASSUME NEW T, "." \in T, NEW x \in Seq(T), NEW y \in Seq(T), \A i \in 1 .. Len(x) : x[i] # "."
  PROVE  LET ref == x \o <<".">> \o y
         IN  /\ ref \in Seq(T) /\ Len(ref) = Len(x) + 1 + Len(y)
             /\ \A i \in 1 .. Len(ref) : \/ i \in 1 .. Len(x) /\ ref[i] = x[i]
                                         \/ i = Len(x) + 1 /\ ref[i] = "."
                                         \/ i - Len(x) - 1 \in 1 .. Len(y)
                                             /\ ref[i] = y[i - Len(x) - 1]
             /\ split_ref(ref) = [table |-> x, name |-> y]
<1> DEFINE s == x \o <<".">>
           ref == s \o y
           m == Len(x)
           n == Len(y)
<1>1. m \in Nat /\ n \in Nat
  OBVIOUS
<1>2. s \in Seq(T) /\ Len(s) = m + 1 /\ s[m + 1] = "." /\ \A i \in 1 .. m : s[i] = x[i]
  BY AppendedLast
<1> HIDE DEF s
<1>3. ref \in Seq(T) /\ Len(ref) = m + 1 + n
      /\ \A i \in 1 .. m + 1 + n : ref[i] = IF i <= m + 1 THEN s[i] ELSE y[i - (m + 1)]
  <2>1. ref \in Seq(T) /\ Len(ref) = Len(s) + Len(y) /\ \A i \in 1 .. Len(s) + Len(y) :
          ref[i] = IF i <= Len(s) THEN s[i] ELSE y[i - Len(s)]
    BY <1>2, ConcatProperties
  <2> HIDE DEF ref
  <2> QED BY <1>2, <2>1
<1> HIDE DEF ref
<1>4. /\ ref[m + 1] = "." /\ (\A i \in 1 .. m : ref[i] = x[i])
      /\ \A i \in 1 .. n : ref[m + 1 + i] = y[i]
  <2> HIDE DEF m, n
  <2>1. m + 1 \in 1 .. m + 1 + n /\ m + 1 <= m + 1
    BY <1>1
  <2>2. ref[m + 1] = "."
    BY <1>2, <1>3, <2>1
  <2>3. \A i \in 1 .. m : i \in 1 .. m + 1 + n /\ i <= m + 1
    BY <1>1
  <2>4. \A i \in 1 .. m : ref[i] = x[i]
    BY <1>2, <1>3, <2>3
  <2>5. \A i \in 1 .. n : m + 1 + i \in 1 .. m + 1 + n /\ ~(m + 1 + i <= m + 1)
      /\ (m + 1 + i) - (m + 1) = i
    BY <1>1
  <2>6. \A i \in 1 .. n : ref[m + 1 + i] = y[i]
    BY <1>3, <2>5
  <2> QED BY <2>2, <2>4, <2>6
<1>5. \A i \in 1 .. Len(ref) : \/ i \in 1 .. m /\ ref[i] = x[i]
                               \/ i = m + 1 /\ ref[i] = "."
                               \/ i - m - 1 \in 1 .. n /\ ref[i] = y[i - m - 1]
  <2> HIDE DEF m, n
  <2>1. SUFFICES ASSUME NEW i \in 1 .. m + 1 + n
                 PROVE  \/ i \in 1 .. m /\ ref[i] = x[i]
                        \/ i = m + 1 /\ ref[i] = "."
                        \/ i - m - 1 \in 1 .. n /\ ref[i] = y[i - m - 1]
    BY <1>3
  <2>2. CASE i <= m
    BY <1>1, <1>4, <2>2
  <2>3. CASE i = m + 1
    BY <1>4, <2>3
  <2>4. CASE i > m + 1
    <3> DEFINE j == i - m - 1
    <3>1. j \in 1 .. n /\ m + 1 + j = i
      BY <1>1, <2>4
    <3> HIDE DEF j
    <3>2. ref[i] = y[j]
      BY <1>4, <3>1
    <3> QED BY <3>1, <3>2 DEF j
  <2> QED BY <1>1, <2>2, <2>3, <2>4
<1>6. Sets!Min({i \in 1 .. Len(ref) : ref[i] = "."}) = m + 1
  <2> DEFINE D == {i \in 1 .. Len(ref) : ref[i] = "."}
  <2>1. D \in SUBSET Int /\ m + 1 \in D
    BY <1>1, <1>3, <1>4
  <2>2. \A i \in D : m + 1 <= i
    <3>1. SUFFICES ASSUME NEW i \in 1 .. m + 1 + n, ref[i] = ".", ~(m + 1 <= i) PROVE FALSE
      BY <1>1, <1>3
    <3>2. i \in 1 .. m
      BY <1>1, <3>1
    <3> QED BY <1>4, <3>1, <3>2
  <2> HIDE DEF D
  <2>3. Sets!Min(D) = m + 1
    BY <1>1, <2>1, <2>2, LeastIs
  <2> QED BY <2>3 DEF D
<1>7. SubSeq(ref, 1, m + 1 - 1) = x /\ SubSeq(ref, m + 1 + 1, Len(ref)) = y
  <2>1. At(ref, 1, x) /\ At(ref, m + 1 + 1, y)
    <3>1. \A i \in 1 .. m : ref[1 + i - 1] = x[i]
      <4>1. \A i \in 1 .. m : 1 + i - 1 = i
        BY <1>1
      <4> QED BY <1>4, <4>1
    <3>2. \A i \in 1 .. n : ref[m + 1 + 1 + i - 1] = y[i]
      <4>1. \A i \in 1 .. n : m + 1 + 1 + i - 1 = m + 1 + i
        BY <1>1
      <4> QED BY <1>4, <4>1
    <3> QED BY <1>1, <1>3, <3>1, <3>2 DEF At
  <2>2. SubSeq(ref, 1, 1 + Len(x) - 1) = x
    BY <1>3, <2>1, PartIs
  <2>3. SubSeq(ref, m + 1 + 1, m + 1 + 1 + Len(y) - 1) = y
    BY <1>3, <2>1, PartIs
  <2>4. 1 + Len(x) - 1 = m + 1 - 1 /\ m + 1 + 1 + Len(y) - 1 = Len(ref)
    BY <1>1, <1>3
  <2> QED BY <2>2, <2>3, <2>4
<1>8. {i \in 1 .. Len(ref) : ref[i] = "."} # {}
  BY <1>1, <1>3, <1>4
<1>9. split_ref(ref) = [table |-> x, name |-> y]
  <2> DEFINE D == {i \in 1 .. Len(ref) : ref[i] = "."}
  <2>1. split_ref(ref) = IF D = {} THEN [table |-> <<>>, name |-> ref]
                         ELSE [table |-> SubSeq(ref, 1, Sets!Min(D) - 1),
                               name |-> SubSeq(ref, Sets!Min(D) + 1, Len(ref))]
    BY DEF split_ref
  <2>2. Sets!Min(D) = m + 1 /\ D # {}
    BY <1>6, <1>8
  <2> HIDE DEF D, m
  <2>3. split_ref(ref) = [table |-> x, name |-> y]
    <3> DEFINE k == Sets!Min(D)
    <3>1. split_ref(ref) = [table |-> SubSeq(ref, 1, k - 1), name |-> SubSeq(ref, k + 1, Len(ref))]
      BY <2>1, <2>2, Zenon
    <3>2. k = m + 1
      BY <2>2
    <3> HIDE DEF k
    <3>3. SubSeq(ref, 1, k - 1) = x /\ SubSeq(ref, k + 1, Len(ref)) = y
      BY ONLY <1>1, <1>7, <3>2
    <3> QED BY ONLY <3>1, <3>3, Zenon
  <2> QED BY ONLY <2>3
<1> QED BY <1>3, <1>5, <1>9 DEF ref, s

(* A reference to a column, with its table or without, is one word and     *)
(* read back.                                                              *)
LEMMA ReferenceIs ==
  ASSUME NEW T, Base(T), NEW r, IsReference(r), r.name \in Seq(T), r.table \in Seq(T)
  PROVE  LET p == Reference(r)
         IN  p \in Seq(T) /\ IsWord(p) /\ split_ref(p) = r
<1> DEFINE p == Reference(r)
           x == r.table
           y == r.name
<1>1. r = [table |-> x, name |-> y] /\ x \in Seq(T) /\ y \in Seq(T) /\ IsWord(y)
  BY DEF IsReference
<1>2. CASE x = <<>>
  <2>1. p = y
    BY <1>2 DEF Reference
  <2>2. \A i \in DOMAIN y : y[i] # "."
    BY <1>2 DEF IsReference
  <2> HIDE DEF p, y
  <2>3. \A i \in 1 .. Len(y) : y[i] # "."
    BY <1>1, <2>2
  <2>4. split_ref(y) = [table |-> <<>>, name |-> y]
    BY <1>1, <2>3, Undotted
  <2> QED BY <1>1, <1>2, <2>1, <2>4 DEF p
<1>3. CASE x # <<>>
  <2>1. p = x \o <<".">> \o y
    BY <1>3 DEF Reference
  <2>2. (\A i \in DOMAIN x : x[i] # ".") /\ IsWord(x)
    BY <1>3 DEF IsReference
  <2>3. "." \in T
    BY DEF Base, Sign
  <2> HIDE DEF p, x, y
  <2>4. \A i \in 1 .. Len(x) : x[i] # "."
    BY <1>1, <2>2
  <2>5. /\ p \in Seq(T) /\ Len(p) = Len(x) + 1 + Len(y)
        /\ \A i \in 1 .. Len(p) : \/ i \in 1 .. Len(x) /\ p[i] = x[i]
                                  \/ i = Len(x) + 1 /\ p[i] = "."
                                  \/ i - Len(x) - 1 \in 1 .. Len(y) /\ p[i] = y[i - Len(x) - 1]
        /\ split_ref(p) = [table |-> x, name |-> y]
    BY <1>1, <2>1, <2>3, <2>4, Dotted
  <2>6. IsWord(p)
    <3>1. p # <<>>
      BY <1>1, <2>5
    <3>2. p \in Seq({p[i] : i \in DOMAIN p})
      BY <2>5, OfItsElements
    <3>3. (\A j \in 1 .. Len(x) : x[j] \notin Sign \ {"."})
        /\ (\A j \in 1 .. Len(y) : y[j] \notin Sign \ {"."})
      BY <1>1, <2>2 DEF IsWord
    <3>4. \A i \in 1 .. Len(p) : p[i] \notin Sign \ {"."}
      BY ONLY <2>5, <3>3
    <3>5. \A i \in DOMAIN p : p[i] \notin Sign \ {"."}
      BY <2>5, <3>4
    <3> QED BY <3>1, <3>2, <3>5 DEF IsWord
  <2> QED BY <1>1, <2>5, <2>6 DEF p
<1> QED BY <1>2, <1>3

-----------------------------------------------------------------------------
(* Two loops that make the same steps.                                     *)
Agree(L, f, g) == f[0] = g[0] /\ \A i \in 1 .. L : f[i - 1] = g[i - 1] => f[i] = g[i]

(* Two folds that add the same add up to the same.                         *)
LEMMA Agreed ==
  ASSUME NEW L \in Nat, NEW f, NEW g, Agree(L, f, g)
  PROVE  \A i \in 0 .. L : f[i] = g[i]
<1>1. f[0] = g[0] /\ \A i \in 1 .. L : f[i - 1] = g[i - 1] => f[i] = g[i]
  BY DEF Agree
<1> QED BY <1>1, SameLoop

(* Parts put one after the other.                                          *)
LEMMA Flattened ==
  ASSUME NEW S, NEW L \in Nat, NEW part \in [1 .. L -> Seq(S)]
  PROVE  \E f : Prefixes(S, L, part, f) /\ f[0] = <<>> /\ Seqs!FlattenSeq(part) = f[L]
<1> DEFINE P(f) == [i \in 1 .. L |-> IF i = 1 THEN part[i] ELSE f[i - 1] \o part[i]]
           h == CHOOSE f : f = P(f)
<1>0. part \in Seq(Seq(S)) /\ Len(part) = L /\ <<>> \in Seq(S)
    /\ \A i \in 1 .. L : part[i] \in Seq(S)
  OBVIOUS
<1>1. PICK f : /\ f = [i \in 0 .. L |-> IF i = 0 THEN <<>> ELSE f[i - 1] \o part[i]]
               /\ Prefixes(S, L, part, f)
  BY <1>0, Concatenation
<1>2. f[0] = <<>> /\ \A i \in 1 .. L : f[i] = f[i - 1] \o part[i]
  <2>1. f[0] = <<>>
    BY <1>1
  <2> QED BY <1>1, <2>1 DEF Prefixes
<1>3. CASE L = 0
  <2>1. Seqs!FlattenSeq(part) = part
    BY <1>0, <1>3 DEF Seqs!FlattenSeq
  <2>2. part = <<>>
    BY <1>0, <1>3
  <2> QED BY <1>1, <1>2, <1>3, <2>1, <2>2
<1>4. CASE L # 0
  <2> DEFINE g == [i \in 1 .. L |-> f[i]]
  <2>1. g = P(g)
    <3>1. ASSUME NEW i \in 1 .. L PROVE f[i] = IF i = 1 THEN part[i] ELSE g[i - 1] \o part[i]
      <4>1. CASE i = 1
        <5>1. f[1] = <<>> \o part[1]
          <6>1. 1 \in 1 .. L /\ 1 - 1 = 0
            BY <4>1
          <6> QED BY <1>2, <6>1
        <5>2. part[1] \in Seq(S)
          BY <1>0, <4>1
        <5>3. <<>> \o part[1] = part[1]
          BY <5>2, ConcatEmptySeq
        <5> QED BY <4>1, <5>1, <5>3
      <4>2. CASE i # 1
        <5>1. i - 1 \in 1 .. L
          BY <4>2
        <5>2. g[i - 1] = f[i - 1]
          BY <5>1
        <5> HIDE DEF g
        <5> QED BY <1>2, <4>2, <5>2
      <4> QED BY <4>1, <4>2
    <3> DEFINE r(i) == IF i = 1 THEN part[i] ELSE g[i - 1] \o part[i]
    <3>2. \A i \in 1 .. L : f[i] = r(i)
      BY <3>1
    <3>3. P(g) = [i \in 1 .. L |-> r(i)]
      OBVIOUS
    <3> HIDE DEF P, r
    <3> QED BY <3>2, <3>3
  <2>2. h = P(h)
    <3> HIDE DEF P
    <3> QED BY <2>1
  <2>3. Seqs!FlattenSeq(part) = h[L]
    BY <1>0, <1>4 DEF Seqs!FlattenSeq
  <2> DEFINE k == [i \in 0 .. L |-> IF i = 0 THEN <<>> ELSE h[i]]
  <2> HIDE DEF h
  <2>4. \A i \in 0 .. L : f[i] = k[i]
    <3>1. f[0] = k[0]
      BY <1>2
    <3>2. ASSUME NEW i \in 1 .. L, f[i - 1] = k[i - 1] PROVE f[i] = k[i]
      <4>1. f[i] = f[i - 1] \o part[i]
        BY <1>2
      <4>2. k[i] = h[i]
        OBVIOUS
      <4>3. h[i] = IF i = 1 THEN part[i] ELSE h[i - 1] \o part[i]
        <5>1. P(h)[i] = IF i = 1 THEN part[i] ELSE h[i - 1] \o part[i]
          OBVIOUS
        <5> HIDE DEF P
        <5> QED BY <2>2, <5>1
      <4>4. CASE i = 1
        <5>1. f[i - 1] = <<>>
          BY <1>2, <4>4
        <5>2. part[i] \in Seq(S)
          BY <1>0
        <5>3. <<>> \o part[i] = part[i]
          BY <5>2, ConcatEmptySeq
        <5> HIDE DEF k
        <5> QED BY <4>1, <4>2, <4>3, <4>4, <5>1, <5>3
      <4>5. CASE i # 1
        <5>1. k[i - 1] = h[i - 1]
          BY <4>5
        <5> HIDE DEF k
        <5> QED BY <3>2, <4>1, <4>2, <4>3, <4>5, <5>1
      <4> QED BY <4>4, <4>5
    <3> HIDE DEF k, P
    <3>3. \A i \in 1 .. L : f[i - 1] = k[i - 1] => f[i] = k[i]
      BY <3>2
    <3>4. Agree(L, f, k)
      BY <3>1, <3>3 DEF Agree
    <3> QED BY <3>4, Agreed
  <2>5. f[L] = h[L]
    <3>1. k[L] = h[L] /\ L \in 0 .. L
      BY <1>4
    <3> HIDE DEF k
    <3> QED BY <2>4, <3>1
  <2> QED BY <1>1, <1>2, <2>3, <2>5
<1> QED BY <1>3, <1>4

(* Items with commas between them, and where each is.                      *)
Comma == <<",">>
Layout(list_, items, m, st) ==
  /\ st[1] = 1 /\ Len(list_) = IF m = 0 THEN 0 ELSE st[m + 1] - 2
  /\ \A i \in 1 .. m :
       /\ At(list_, st[i], items[i]) /\ st[i + 1] = st[i] + Len(items[i]) + 1
       /\ i < m => list_[st[i] + Len(items[i])] = Comma

(* Items set apart by commas: where each item starts, and the commas.      *)
LEMMA ListedIs ==
  ASSUME NEW S, Comma \in S, NEW items, NEW m \in Nat, DOMAIN items = 1 .. m,
         \A i \in 1 .. m : items[i] \in Seq(S)
  PROVE  Listed(items) \in Seq(S) /\ \E st : Layout(Listed(items), items, m, st)
<1> DEFINE L == Listed(items)
           part == [i \in 1 .. m |-> IF i = 1 THEN items[i] ELSE <<Comma>> \o items[i]]
<1>1. <<Comma>> \in Seq(S) /\ Len(<<Comma>>) = 1 /\ <<Comma>>[1] = Comma
  BY OneTwoThree
<1>2. ASSUME NEW i \in 2 .. m
      PROVE  LET p == <<Comma>> \o items[i]
             IN  p \in Seq(S) /\ Len(p) = Len(items[i]) + 1 /\ At(p, 1, <<Comma>>)
                 /\ At(p, 2, items[i])
  <2> DEFINE x == items[i]
             c == <<Comma>>
             p == c \o x
  <2>1. x \in Seq(S) /\ Len(x) \in Nat
    BY LenProperties
  <2> HIDE DEF x
  <2>2. p \in Seq(S) /\ Len(p) = Len(c) + Len(x)
    BY <1>1, <2>1, ConcatProperties
  <2>3. At(p, 1, c) /\ At(p, 1 + Len(c), x)
    <3>1. Len(p) \in Nat /\ At(p, 1, p) /\ c \in Seq(S)
      <4> HIDE DEF p, c
      <4>1. Len(p) \in Nat
        BY <2>2
      <4>2. \A j \in 1 .. Len(p) : 1 + j - 1 = j
        BY <4>1
      <4> QED BY <1>1, <4>1, <4>2 DEF At, c
    <3> HIDE DEF c
    <3> QED BY <2>1, <3>1, AtConcat
  <2>4. 1 + Len(c) = 2 /\ Len(c) + Len(x) = Len(x) + 1
    BY <1>1, <2>1
  <2> QED BY <2>2, <2>3, <2>4 DEF x
<1>3. part \in [1 .. m -> Seq(S)]
  BY <1>2
<1>4. L = Seqs!FlattenSeq(part)
  BY DEF Listed, Comma
<1>5. PICK f : Prefixes(S, m, part, f) /\ f[0] = <<>> /\ Seqs!FlattenSeq(part) = f[m]
  <2> HIDE DEF part
  <2> QED BY <1>3, Flattened
<1>6. L = f[m] /\ L \in Seq(S) /\ Len(L) \in Nat
  BY <1>4, <1>5 DEF Prefixes
<1> DEFINE st == [i \in 1 .. m + 1 |-> IF i = 1 THEN 1 ELSE End(f, i - 1) + 2]
<1>7. ASSUME NEW i \in 1 .. m
      PROVE  /\ At(L, End(f, i - 1) + 1, part[i]) /\ End(f, i - 1) \in Nat /\ End(f, i) \in Nat
             /\ End(f, i) = End(f, i - 1) + Len(part[i]) /\ part[i] \in Seq(S)
                 /\ Len(items[i]) \in Nat
             /\ part[i] = IF i = 1 THEN items[i] ELSE <<Comma>> \o items[i]
  <2>1. part[i] = IF i = 1 THEN items[i] ELSE <<Comma>> \o items[i]
    OBVIOUS
  <2>2. part[i] \in Seq(S) /\ Len(items[i]) \in Nat
    BY <1>3, LenProperties
  <2> HIDE DEF part
  <2>3. /\ At(f[m], End(f, i - 1) + 1, part[i])
        /\ End(f, i - 1) \in Nat /\ End(part, i) \in Nat /\ End(f, i) \in Nat
        /\ End(f, i) = End(f, i - 1) + End(part, i)
    BY <1>5, PartIsAt
  <2> QED BY <1>6, <2>1, <2>2, <2>3 DEF End
<1> HIDE DEF part, L
<1>0. End(f, 0) = 0
  BY <1>5 DEF End
<1>8. ASSUME NEW i \in 1 .. m
      PROVE  /\ At(L, st[i], items[i]) /\ st[i + 1] = st[i] + Len(items[i]) + 1
             /\ st[i + 1] = End(f, i) + 2
  <2>1. i \in 1 .. m + 1 /\ i + 1 \in 1 .. m + 1 /\ i + 1 # 1 /\ (i + 1) - 1 = i
    OBVIOUS
  <2>2. st[i + 1] = End(f, i) + 2 /\ st[i] = IF i = 1 THEN 1 ELSE End(f, i - 1) + 2
    BY <2>1
  <2> HIDE DEF st
  <2>3. CASE i = 1
    <3>1. part[i] = items[i] /\ End(f, i) = Len(items[i]) /\ At(L, 1, items[i])
      BY <1>0, <1>7, <2>3
    <3> QED BY <1>7, <2>2, <2>3, <3>1
  <2>4. CASE i # 1
    <3> DEFINE p == <<Comma>> \o items[i]
               e == End(f, i - 1)
    <3>0. i \in 2 .. m
      BY <2>4
    <3>1. part[i] = p /\ i \in 2 .. m /\ p \in Seq(S)
      <4>1. part[i] = p
        BY <1>7, <2>4
      <4>2. p \in Seq(S)
        BY <1>2, <3>0
      <4> QED BY <3>0, <4>1, <4>2
    <3>2. Len(p) = Len(items[i]) + 1 /\ At(p, 2, items[i])
      BY <1>2, <3>1
    <3>3. e \in Nat /\ End(f, i) = e + Len(p) /\ At(L, e + 1, p) /\ Len(items[i]) \in Nat
      BY <1>7, <3>1
    <3> HIDE DEF p, e
    <3>4. At(L, e + 2, items[i])
      <4> DEFINE x == items[i]
      <4> HIDE DEF x
      <4>1. \A j \in 1 .. Len(x) : L[(e + 2) + j - 1] = x[j]
        <5>1. SUFFICES ASSUME NEW j \in 1 .. Len(x) PROVE L[(e + 2) + j - 1] = x[j]
          OBVIOUS
        <5> DEFINE k == j + 1
        <5>2. k \in 1 .. Len(p) /\ (e + 1) + k - 1 = (e + 2) + j - 1 /\ 2 + j - 1 = k
          BY <3>2, <3>3 DEF x
        <5> HIDE DEF k
        <5>3. L[(e + 1) + k - 1] = p[k]
          BY <3>3, <5>2 DEF At
        <5>4. p[2 + j - 1] = x[j]
          BY <3>2, <5>1 DEF At, x
        <5> QED BY <5>2, <5>3, <5>4
      <4>2. e + 2 \in Nat \ {0} /\ (e + 2) + Len(x) <= Len(L) + 1
        BY <1>6, <3>2, <3>3 DEF At, x
      <4> QED BY <4>1, <4>2 DEF At, x
    <3>5. st[i] = e + 2
      BY <2>2, <2>4 DEF e
    <3>6. st[i + 1] = st[i] + Len(items[i]) + 1
      BY <2>2, <3>2, <3>3, <3>5
    <3> QED BY <2>2, <3>4, <3>5, <3>6
  <2> QED BY <2>3, <2>4
<1>9. ASSUME NEW i \in 1 .. m, i < m PROVE L[st[i] + Len(items[i])] = Comma
  <2> DEFINE j == i + 1
             e == End(f, i)
             p == <<Comma>> \o items[j]
  <2>1. j \in 1 .. m /\ j \in 2 .. m /\ j - 1 = i /\ j # 1
    BY <1>9
  <2>2. st[j] = e + 2 /\ st[j] = st[i] + Len(items[i]) + 1 /\ e \in Nat /\ Len(items[i]) \in Nat
    BY <1>7, <1>8
  <2>3. At(L, e + 1, p)
    BY <1>7, <2>1
  <2>4. At(p, 1, <<Comma>>) /\ Len(p) = Len(items[j]) + 1 /\ Len(items[j]) \in Nat
    BY <1>2, <1>7, <2>1
  <2>5. p[1] = Comma
    <3> HIDE DEF p
    <3>1. p[1 + 1 - 1] = <<Comma>>[1]
      BY <1>1, <2>4 DEF At
    <3> QED BY <1>1, <3>1
  <2>6. L[e + 1] = Comma
    <3> HIDE DEF p, e, j
    <3>1. L[(e + 1) + 1 - 1] = p[1]
      BY <2>3, <2>4 DEF At
    <3> QED BY <2>2, <2>5, <3>1
  <2>7. st[i] \in Nat
    BY <1>8 DEF At
  <2>8. st[i] + Len(items[i]) = e + 1
    <3> DEFINE u == st[i]
               l == Len(items[i])
    <3>1. st[j] = e + 2 /\ st[j] = u + l + 1 /\ e \in Nat /\ l \in Nat /\ u \in Nat
      BY <2>2, <2>7
    <3> HIDE DEF e, j, st, u, l
    <3>2. u + l = e + 1
      BY ONLY <3>1
    <3> QED BY <3>2 DEF u, l
  <2> QED BY <2>6, <2>8
<1>10. st[1] = 1 /\ Len(L) = IF m = 0 THEN 0 ELSE st[m + 1] - 2
  <2>1. st[1] = 1
    OBVIOUS
  <2>2. CASE m = 0
    BY <1>5, <1>6, <2>1, <2>2
  <2>3. CASE m # 0
    <3>1. m \in 1 .. m
      BY <2>3
    <3>2. st[m + 1] = End(f, m) + 2 /\ End(f, m) = Len(L) /\ End(f, m) \in Nat
      BY <1>6, <1>7, <1>8, <3>1 DEF End
    <3> HIDE DEF st
    <3> QED BY <2>1, <2>3, <3>2
  <2> QED BY <2>2, <2>3
<1>11. Layout(L, items, m, st)
  <2> HIDE DEF st
  <2> QED BY <1>8, <1>9, <1>10 DEF Layout
<1> QED BY <1>6, <1>11 DEF L

-----------------------------------------------------------------------------
(* The loop over a list of tokens, which is x, its k-th token at p[k], and *)
(* which ends at p[m + 1].                                                 *)
ListAt(toks, p, x, m, close) ==
  /\ m \in Nat /\ Len(toks) \in Nat /\ close # "," /\ Reads(toks[p[m + 1]], close)
  /\ \A k \in 1 .. m + 1 : p[k] \in 1 .. Len(toks)
  /\ \A k \in 1 .. m :
       /\ toks[p[k]] = x[k] /\ ~Reads(x[k], close)
       /\ IF k = m THEN p[k + 1] = p[k] + 1
          ELSE p[k + 1] = p[k] + 2 /\ Reads(toks[p[k] + 1], ",")

PlacesBy(toks, close, f) ==
  \A i \in Nat : f[i] = IF i > Len(toks) \/ Is(toks, i, close) THEN <<>>
                        ELSE <<i>> \o f[Skip(toks, i + 1, ",")]

(* The loop that reads a list, as a loop over its tokens.                  *)
LEMMA PlacesLoop ==
  ASSUME NEW toks, Len(toks) \in Nat, NEW start, NEW close
  PROVE  \E f : places(toks, start, close) = f[start] /\ PlacesBy(toks, close, f)
<1> DEFINE n == Len(toks)
           Done == {i \in Nat : i > n \/ Is(toks, i, close)}
           pre == [i \in Nat |-> <<i>>]
           nx == [i \in Nat |-> Skip(toks, i + 1, ",")]
           F(f) == [i \in Nat |-> IF i > n \/ Is(toks, i, close) THEN <<>>
                                  ELSE <<i>> \o f[Skip(toks, i + 1, ",")]]
           G(f) == [i \in Nat |-> IF i \in Done THEN <<>> ELSE pre[i] \o f[nx[i]]]
           h == CHOOSE f : f = F(f)
<1>1. places(toks, start, close) = h[start]
  BY DEF places
<1>2. \E f : f = G(f)
  <2>1. n \in Nat
    OBVIOUS
  <2>2. \A i \in Nat : i > n => i \in Done
    OBVIOUS
  <2>3. \A i \in Nat : i \notin Done => nx[i] \in Nat /\ nx[i] > i
    <3>1. SUFFICES ASSUME NEW i \in Nat PROVE nx[i] \in Nat /\ nx[i] > i
      OBVIOUS
    <3> DEFINE j == nx[i]
    <3>2. j = i + 1 \/ j = (i + 1) + 1
      BY DEF Skip
    <3> HIDE DEF j
    <3>3. j \in Nat /\ j > i
      BY <3>2
    <3> QED BY <3>3 DEF j
  <2> HIDE DEF Done, pre, nx, n
  <2>4. GoesOn(n, Done, nx)
    BY <2>1, <2>2, <2>3 DEF GoesOn
  <2>5. PICK f : IsLoop(f, Done, pre, nx)
    BY <2>4, Chain
  <2>6. f = [i \in Nat |-> IF i \in Done THEN <<>> ELSE pre[i] \o f[nx[i]]]
    BY <2>5 DEF IsLoop
  <2> QED BY <2>6
<1>3. ASSUME NEW f PROVE F(f) = G(f)
  <2>1. ASSUME NEW i \in Nat
        PROVE  (i \in Done <=> i > n \/ Is(toks, i, close)) /\ pre[i] = <<i>>
            /\ nx[i] = Skip(toks, i + 1, ",")
    OBVIOUS
  <2> HIDE DEF Done, pre, nx, n
  <2> QED BY <2>1
<1>4. h = F(h)
  <2>1. \E f : f = F(f)
    <3> HIDE DEF F, G
    <3> QED BY <1>2, <1>3
  <2> HIDE DEF F
  <2> QED BY <2>1
<1>5. \A i \in Nat : h[i] = IF i > n \/ Is(toks, i, close) THEN <<>>
                            ELSE <<i>> \o h[Skip(toks, i + 1, ",")]
  <2> HIDE DEF h
  <2> QED BY <1>4
<1> HIDE DEF h
<1>6. PlacesBy(toks, close, h)
  BY <1>5 DEF PlacesBy
<1> QED BY <1>1, <1>6

(* It finds the places of the items, and of nothing else.                  *)
LEMMA PlacesAre ==
  ASSUME NEW toks, NEW p, NEW x, NEW m, NEW close, ListAt(toks, p, x, m, close)
  PROVE  places(toks, p[1], close) = [k \in 1 .. m |-> p[k]]
<1> DEFINE n == Len(toks)
           y == [k \in 1 .. m |-> p[k]]
           V == {p[k] : k \in 1 .. m}
<1>1. /\ m \in Nat /\ n \in Nat /\ close # "," /\ Reads(toks[p[m + 1]], close)
      /\ \A k \in 1 .. m + 1 : p[k] \in 1 .. n
      /\ \A k \in 1 .. m :
           /\ toks[p[k]] = x[k] /\ ~Reads(x[k], close)
           /\ IF k = m THEN p[k + 1] = p[k] + 1
              ELSE p[k + 1] = p[k] + 2 /\ Reads(toks[p[k] + 1], ",")
  BY DEF ListAt
<1>0. m \in Nat /\ n \in Nat
  BY DEF ListAt
<1>2. PICK f : /\ places(toks, p[1], close) = f[p[1]]
               /\ \A i \in Nat : f[i] = IF i > n \/ Is(toks, i, close) THEN <<>>
                                        ELSE <<i>> \o f[Skip(toks, i + 1, ",")]
  <2>1. PICK f : places(toks, p[1], close) = f[p[1]] /\ PlacesBy(toks, close, f)
    BY <1>0, PlacesLoop
  <2> QED BY <2>1 DEF PlacesBy
<1> HIDE DEF n
<1>3. f[p[m + 1]] = <<>>
  <2>1. m + 1 \in 1 .. m + 1
    BY <1>0
  <2>2. p[m + 1] \in 1 .. n
    BY <1>1, <2>1
  <2>3. Is(toks, p[m + 1], close) /\ p[m + 1] \in Nat
    <3>1. p[m + 1] \in Nat /\ p[m + 1] <= Len(toks)
      BY <1>0, <2>2 DEF n
    <3> QED BY <1>1, <3>1, IsReads
  <2> QED BY <1>2, <2>3
<1>4. ASSUME NEW k \in 1 .. m PROVE f[p[k]] = <<y[k]>> \o f[p[k + 1]]
  <2>1. k \in 1 .. m + 1 /\ k + 1 \in 1 .. m + 1
    BY <1>0
  <2>2. p[k] \in 1 .. n /\ p[k + 1] \in 1 .. n /\ ~Reads(toks[p[k]], close)
    BY <1>1, <2>1
  <2>3. ~Is(toks, p[k], close) /\ p[k] \in Nat /\ ~(p[k] > n) /\ p[k] + 1 \in Nat
    <3>1. p[k] \in Nat /\ ~(p[k] > n) /\ p[k] + 1 \in Nat
      BY <1>0, <2>2
    <3>2. ~Is(toks, p[k], close)
      BY <2>2, IsReads
    <3> QED BY <3>1, <3>2
  <2>4. Skip(toks, p[k] + 1, ",") = p[k + 1]
    <3>1. CASE k = m
      <4>1. p[k + 1] = p[k] + 1 /\ Reads(toks[p[k] + 1], close)
        BY <1>1, <3>1
      <4>2. ~Is(toks, p[k] + 1, ",")
        BY <1>1, <4>1, IsReads, ReadsOne
      <4> QED BY <4>1, <4>2 DEF Skip
    <3>2. CASE k # m
      <4>1. p[k + 1] = p[k] + 2 /\ Reads(toks[p[k] + 1], ",")
        BY <1>1, <3>2
      <4>2. Is(toks, p[k] + 1, ",")
        <5>1. p[k] + 1 <= Len(toks)
          <6> DEFINE u == p[k]
                     w == p[k + 1]
          <6>0. u \in 1 .. n /\ w \in 1 .. n /\ w = u + 2
            BY <2>2, <4>1
          <6> HIDE DEF u, w
          <6>1. u \in Nat /\ w \in Nat /\ w <= n /\ w = u + 2
            BY <1>0, <6>0
          <6>2. u + 1 <= n
            BY <1>0, <6>1
          <6> QED BY <6>2 DEF u, n
        <5> QED BY <4>1, <5>1, IsReads
      <4>3. p[k] + 2 = (p[k] + 1) + 1
        BY <2>3
      <4> QED BY <4>1, <4>2, <4>3 DEF Skip
    <3> QED BY <3>1, <3>2
  <2>5. f[p[k]] = <<p[k]>> \o f[Skip(toks, p[k] + 1, ",")]
    BY <1>2, <2>3
  <2>6. y[k] = p[k]
    OBVIOUS
  <2> HIDE DEF y
  <2> QED BY <2>4, <2>5, <2>6
<1>5. y \in Seq(V) /\ Len(y) = m
  <2>1. y \in [1 .. m -> V]
    OBVIOUS
  <2> HIDE DEF V, y
  <2> QED BY <1>0, <2>1, IsASeq, LenProperties
<1> HIDE DEF y, V
<1>6. f[p[1]] = y
  <2>1. \A k \in 1 .. m : f[p[k + 1]] \in Seq(V) => f[p[k]] = <<y[k]>> \o f[p[k + 1]]
    BY <1>4
  <2>2. Adds(V, m, y, f, p)
    BY <1>1, <1>3, <1>5, <2>1 DEF Adds
  <2> QED BY <2>2, Runs
<1> QED BY <1>2, <1>6 DEF y

(* What list makes of it.                                                  *)
LEMMA ListIs ==
  ASSUME NEW toks, NEW p, NEW V, NEW x \in Seq(V), NEW m, m = Len(x), NEW close,
         ListAt(toks, p, x, m, close)
  PROVE  /\ list(toks, p[1], close).items = x
         /\ list(toks, p[1], close).next = p[m + 1]
<1> DEFINE at == [k \in 1 .. m |-> p[k]]
<1>1. places(toks, p[1], close) = at
  BY PlacesAre
<1>2. /\ m \in Nat /\ close # "," /\ Reads(toks[p[m + 1]], close)
      /\ \A k \in 1 .. m + 1 : p[k] \in 1 .. Len(toks)
      /\ \A k \in 1 .. m : toks[p[k]] = x[k] /\ (k = m => p[k + 1] = p[k] + 1)
  BY DEF ListAt
<1>0. m \in Nat
  OBVIOUS
<1>3. DOMAIN at = 1 .. m /\ (at = <<>> <=> m = 0) /\ \A k \in 1 .. m : at[k] = p[k]
  <2>1. DOMAIN at = 1 .. m /\ \A k \in 1 .. m : at[k] = p[k]
    OBVIOUS
  <2>2. CASE m = 0
    <3>1. at = <<>>
      BY <2>2
    <3> QED BY <2>1, <2>2, <3>1
  <2>3. CASE m # 0
    <3>1. 1 \in DOMAIN at /\ DOMAIN <<>> = {}
      <4> HIDE DEF at
      <4>1. 1 \in DOMAIN at
        BY <1>0, <2>1, <2>3
      <4> QED BY <4>1
    <3> QED BY <2>1, <2>3, <3>1
  <2> QED BY <2>1, <2>2, <2>3
<1>4. list(toks, p[1], close)
        = [items |-> [k \in DOMAIN at |-> toks[at[k]]],
           next |-> IF at = <<>> THEN p[1] ELSE Skip(toks, Seqs!Last(at) + 1, ",")]
  BY <1>1 DEF list
<1>5. at # <<>> => Seqs!Last(at) = p[m]
  <2>1. Len(at) = m
    BY <1>0
  <2>2. m # 0 => m \in 1 .. m
    BY <1>0
  <2> HIDE DEF at
  <2> QED BY <1>3, <2>1, <2>2 DEF Seqs!Last
<1> HIDE DEF at
<1>6. [k \in DOMAIN at |-> toks[at[k]]] = x
  <2>1. x = [k \in 1 .. m |-> x[k]]
    OBVIOUS
  <2>2. \A k \in 1 .. m : toks[at[k]] = x[k]
    BY <1>2, <1>3
  <2>3. DOMAIN at = 1 .. m
    BY <1>3
  <2> QED BY <2>1, <2>2, <2>3
<1>7. at # <<>> => Skip(toks, p[m] + 1, ",") = p[m + 1]
  <2>1. ASSUME m # 0 PROVE Skip(toks, p[m] + 1, ",") = p[m + 1]
    <3>1. m \in 1 .. m
      BY <1>0, <2>1
    <3>2. p[m + 1] = p[m] + 1
      BY <1>2, <3>1
    <3>3. ~Is(toks, p[m] + 1, ",")
      BY <1>2, <3>2, IsReads, ReadsOne
    <3> QED BY <3>2, <3>3 DEF Skip
  <2> QED BY <1>3, <2>1
<1>8. at = <<>> => p[1] = p[m + 1]
  BY <1>3
<1>9. (IF at = <<>> THEN p[1] ELSE Skip(toks, Seqs!Last(at) + 1, ",")) = p[m + 1]
  BY <1>5, <1>7, <1>8
<1>10. list(toks, p[1], close) = [items |-> x, next |-> p[m + 1]]
  BY ONLY <1>4, <1>6, <1>9, Zenon
<1> QED BY ONLY <1>10

-----------------------------------------------------------------------------
(* A column of CREATE TABLE.                                               *)
LEMMA TypeOf ==
  ASSUME NEW t
  PROVE  (Reads(t, "INT") => type_of(t) = "INT") /\ (Reads(t, "TEXT") => type_of(t) = "TEXT")
<1> DEFINE a == <<"INT">>
           b == <<"INTEGER">>
           c == <<"TEXT">>
           d == <<"VARCHAR">>
           u == to_upper(t)
<1>1. a[1] = "INT" /\ b[1] = "INTEGER" /\ c[1] = "TEXT"
  BY OneChar
<1>d. d[1] = "VARCHAR"
  BY OneChar
<1>2. type_of(t) = CASE u \in {a, b} -> "INT" [] u \in {c, d} -> "TEXT" [] OTHER -> "unknown"
  BY DEF type_of
<1>3. (Reads(t, "INT") <=> u = a) /\ (Reads(t, "TEXT") <=> u = c)
  BY DEF Reads
<1> HIDE DEF a, b, c, d, u
<1>4. c # a /\ c # b /\ d # a
  BY <1>1, <1>d
<1>5. ASSUME u = a PROVE type_of(t) = "INT"
  <2>1. u \in {a, b} /\ u \notin {c, d}
    BY <1>4, <1>5
  <2> QED BY <1>2, <2>1, Zenon
<1>6. ASSUME u = c PROVE type_of(t) = "TEXT"
  BY <1>2, <1>4, <1>6
<1> QED BY <1>3, <1>5, <1>6

(* The tokens of the columns: name, type and, of some, the size.           *)
Sized(c) == c.type = "TEXT" /\ c.max_len # 255
ColumnLen(c) == IF Sized(c) THEN 5 ELSE 2
IsColumn(c) ==
  /\ c = [name |-> c.name, type |-> c.type, max_len |-> c.max_len] /\ IsWord(c.name)
  /\ \/ c.type = "INT" /\ c.max_len = 4
     \/ c.type = "TEXT" /\ c.max_len \in {255} \cup DOMAIN Numeral
ColumnAt(toks, i, c) ==
  /\ i \in Nat \ {0} /\ i + ColumnLen(c) <= Len(toks) /\ toks[i] = c.name
      /\ Reads(toks[i + 1], c.type)
  /\ IF Sized(c)
     THEN /\ Reads(toks[i + 2], "(") /\ ~Reads(toks[i + 3], ")") /\ stoi(toks[i + 3]) = c.max_len
          /\ Reads(toks[i + 4], ")")
     ELSE ~Reads(toks[i + 2], "(")

(* One column of CREATE TABLE is read back, and the loop goes on behind it *)
(* and its comma.                                                          *)
LEMMA ColumnRead ==
  ASSUME NEW toks, Len(toks) \in Nat, NEW i, NEW c, IsColumn(c), ColumnAt(toks, i, c)
  PROVE  column_at(toks, i) = [col |-> c, next |-> Skip(toks, i + ColumnLen(c), ",")]
<1> DEFINE type == IF i < Len(toks) THEN type_of(toks[i + 1]) ELSE "unknown"
           paren == type = "TEXT" /\ Is(toks, i + 2, "(")
           sized == paren /\ i + 3 <= Len(toks) /\ ~Is(toks, i + 3, ")")
           size == IF sized THEN stoi(toks[i + 3]) ELSE IF type = "INT" THEN 4 ELSE 255
           last == i + (IF sized THEN 4 ELSE IF paren THEN 3 ELSE 2)
           next == IF paren THEN Skip(toks, last, ")") ELSE last
<1>1. column_at(toks, i) = [col |-> [name |-> toks[i], type |-> type, max_len |-> size],
                            next |-> Skip(toks, next, ",")]
  BY DEF column_at
<1>2. i \in Nat /\ ColumnLen(c) \in {2, 5} /\ i + ColumnLen(c) <= Len(toks)
  BY DEF ColumnAt, ColumnLen
<1>3. i < Len(toks) /\ i + 2 <= Len(toks)
  BY <1>2
<1>4. toks[i] = c.name /\ Reads(toks[i + 1], c.type)
  BY DEF ColumnAt
<1>5. c.type \in {"INT", "TEXT"} /\ c = [name |-> c.name, type |-> c.type, max_len |-> c.max_len]
  BY DEF IsColumn
<1>6. type = c.type
  BY <1>3, <1>4, <1>5, TypeOf
<1> HIDE DEF type
<1>7. CASE Sized(c)
  <2>1. /\ Reads(toks[i + 2], "(") /\ ~Reads(toks[i + 3], ")") /\ stoi(toks[i + 3]) = c.max_len
        /\ Reads(toks[i + 4], ")") /\ c.type = "TEXT" /\ i + 5 <= Len(toks) /\ ColumnLen(c) = 5
    BY <1>7 DEF ColumnAt, Sized, ColumnLen
  <2>2. i + 3 <= Len(toks) /\ i + 4 <= Len(toks) /\ (i + 4) + 1 = i + 5
    BY <1>2, <2>1
  <2>3. paren
    BY <1>3, <1>6, <2>1, IsReads
  <2>4. sized
    BY <2>1, <2>2, <2>3, IsReads
  <2> HIDE DEF paren, sized
  <2>5. size = c.max_len /\ last = i + 4
    BY <2>1, <2>4
  <2>6. Skip(toks, i + 4, ")") = i + 5
    BY <2>1, <2>2, IsReads DEF Skip
  <2> HIDE DEF size, last
  <2>7. next = i + 5
    BY <2>3, <2>5, <2>6
  <2> HIDE DEF next
  <2> QED BY <1>1, <1>4, <1>5, <1>6, <2>1, <2>5, <2>7
<1>8. CASE ~Sized(c)
  <2>1. ~Reads(toks[i + 2], "(") /\ ColumnLen(c) = 2
    BY <1>8 DEF ColumnAt, ColumnLen
  <2>2. ~paren
    BY <2>1, IsReads
  <2>3. (c.type = "INT" /\ c.max_len = 4) \/ (c.type = "TEXT" /\ c.max_len = 255)
    BY <1>8 DEF IsColumn, Sized
  <2>4. ~sized
    BY <2>2
  <2> HIDE DEF paren, sized
  <2>5. size = c.max_len /\ last = i + 2
    BY <1>6, <2>2, <2>3, <2>4
  <2> HIDE DEF size, last
  <2>6. next = i + 2
    BY <2>2, <2>5
  <2> HIDE DEF next
  <2> QED BY <1>1, <1>4, <1>5, <1>6, <2>1, <2>5, <2>6
<1> QED BY <1>7, <1>8

(* The loop over the columns.                                              *)
ColumnsBy(toks, f) ==
  \A i \in Nat : f[i] = IF i > Len(toks) \/ Is(toks, i, ")") THEN <<>>
                        ELSE <<column_at(toks, i).col>> \o f[column_at(toks, i).next]

(* The loop of CREATE TABLE over the columns.                              *)
LEMMA ColumnsLoop ==
  ASSUME NEW toks, Len(toks) \in Nat, NEW start
  PROVE  \E f : columns(toks, start) = f[start] /\ ColumnsBy(toks, f)
<1> DEFINE n == Len(toks)
           Done == {i \in Nat : i > n \/ Is(toks, i, ")")}
           pre == [i \in Nat |-> <<column_at(toks, i).col>>]
           nx == [i \in Nat |-> column_at(toks, i).next]
           F(f) == [i \in Nat |-> IF i > n \/ Is(toks, i, ")") THEN <<>>
                                  ELSE <<column_at(toks, i).col>> \o f[column_at(toks, i).next]]
           G(f) == [i \in Nat |-> IF i \in Done THEN <<>> ELSE pre[i] \o f[nx[i]]]
           h == CHOOSE f : f = F(f)
<1>1. columns(toks, start) = h[start]
  BY DEF columns
<1>2. \E f : f = G(f)
  <2>1. n \in Nat
    OBVIOUS
  <2>2. \A i \in Nat : i > n => i \in Done
    OBVIOUS
  <2>3. \A i \in Nat : i \notin Done => nx[i] \in Nat /\ nx[i] > i
    <3>1. SUFFICES ASSUME NEW i \in Nat PROVE nx[i] \in Nat /\ nx[i] > i
      OBVIOUS
    <3> DEFINE l == column_at(toks, i).next
    <3>2. \E k \in {2, 3, 4} : LET q == i + k IN l \in {q, q + 1, (q + 1) + 1}
      <4>0. PICK k \in {2, 3, 4} : \E b :
                 l = Skip(toks, IF b THEN Skip(toks, i + k, ")") ELSE i + k, ",")
        BY DEF column_at
      <4>1. PICK b : l = Skip(toks, IF b THEN Skip(toks, i + k, ")") ELSE i + k, ",")
        BY <4>0
      <4>2. Skip(toks, i + k, ")") \in {i + k, i + k + 1}
        BY DEF Skip
      <4> HIDE DEF l
      <4>3. \A j : Skip(toks, j, ",") \in {j, j + 1}
        BY DEF Skip
      <4> QED BY <4>1, <4>2, <4>3
    <3> HIDE DEF l
    <3>3. l \in Nat /\ l > i
      BY <3>2
    <3>4. nx[i] = l
      BY DEF l
    <3> QED BY <3>3, <3>4
  <2> HIDE DEF Done, pre, nx, n
  <2>4. GoesOn(n, Done, nx)
    BY <2>1, <2>2, <2>3 DEF GoesOn
  <2>5. PICK f : IsLoop(f, Done, pre, nx)
    BY <2>4, Chain
  <2>6. f = [i \in Nat |-> IF i \in Done THEN <<>> ELSE pre[i] \o f[nx[i]]]
    BY <2>5 DEF IsLoop
  <2> QED BY <2>6
<1>3. ASSUME NEW f PROVE F(f) = G(f)
  <2>1. ASSUME NEW i \in Nat
        PROVE  /\ i \in Done <=> i > n \/ Is(toks, i, ")")
               /\ pre[i] = <<column_at(toks, i).col>> /\ nx[i] = column_at(toks, i).next
    OBVIOUS
  <2> HIDE DEF Done, pre, nx, n
  <2> QED BY <2>1
<1>4. h = F(h)
  <2>1. \E f : f = F(f)
    <3> HIDE DEF F, G
    <3> QED BY <1>2, <1>3
  <2> HIDE DEF F
  <2> QED BY <2>1
<1>5. ColumnsBy(toks, h)
  <2> HIDE DEF h
  <2> QED BY <1>4 DEF ColumnsBy
<1> HIDE DEF h
<1> QED BY <1>1, <1>5

(* The columns cols, the k-th at p[k], and the end at p[m + 1].            *)
ColumnsAt(toks, p, cols, m) ==
  /\ m \in Nat /\ Len(toks) \in Nat /\ Reads(toks[p[m + 1]], ")") /\ p[m + 1] \in 1 .. Len(toks)
  /\ \A k \in 1 .. m :
       /\ IsColumn(cols[k]) /\ ColumnAt(toks, p[k], cols[k]) /\ ~Reads(toks[p[k]], ")")
       /\ IF k = m THEN p[k + 1] = p[k] + ColumnLen(cols[k])
          ELSE p[k + 1] = p[k] + ColumnLen(cols[k]) + 1
              /\ Reads(toks[p[k] + ColumnLen(cols[k])], ",")

(* It reads all the columns.                                               *)
LEMMA ColumnsAre ==
  ASSUME NEW toks, NEW p, NEW V, NEW cols \in Seq(V), NEW m, m
      = Len(cols), ColumnsAt(toks, p, cols, m)
  PROVE  columns(toks, p[1]) = cols
<1> DEFINE n == Len(toks)
<1>0. m \in Nat /\ n \in Nat
  BY DEF ColumnsAt
<1>1. PICK f : columns(toks, p[1]) = f[p[1]] /\ ColumnsBy(toks, f)
  BY <1>0, ColumnsLoop
<1>2. f[p[m + 1]] = <<>>
  <2>1. Reads(toks[p[m + 1]], ")") /\ p[m + 1] \in 1 .. n
    BY DEF ColumnsAt
  <2>2. p[m + 1] \in Nat /\ p[m + 1] <= n
    BY <1>0, <2>1
  <2>3. Is(toks, p[m + 1], ")")
    BY <2>1, <2>2, IsReads
  <2> QED BY <1>1, <2>2, <2>3 DEF ColumnsBy
<1>3. ASSUME NEW k \in 1 .. m PROVE f[p[k]] = <<cols[k]>> \o f[p[k + 1]]
  <2> DEFINE c == cols[k]
             i == p[k]
             e == i + ColumnLen(c)
  <2>1. /\ IsColumn(c) /\ ColumnAt(toks, i, c) /\ ~Reads(toks[i], ")")
        /\ IF k = m THEN p[k + 1] = e ELSE p[k + 1] = e + 1 /\ Reads(toks[e], ",")
    BY DEF ColumnsAt
  <2>2. i \in Nat /\ e \in Nat /\ i <= n /\ e <= n
    <3> DEFINE l == ColumnLen(c)
    <3>1. i \in Nat /\ i + l <= n
      BY <2>1 DEF ColumnAt
    <3>2. l \in {2, 5}
      BY DEF ColumnLen
    <3> HIDE DEF i, l, c, n
    <3>3. i \in Nat /\ i + l \in Nat /\ i <= n /\ i + l <= n
      BY <1>0, <3>1, <3>2
    <3> QED BY <3>3 DEF l
  <2>3. column_at(toks, i) = [col |-> c, next |-> Skip(toks, e, ",")]
    <3> HIDE DEF i, c
    <3> QED BY <1>0, <2>1, ColumnRead
  <2> HIDE DEF i, c, e
  <2>4. Skip(toks, e, ",") = p[k + 1]
    <3>1. CASE k = m
      <4>1. p[k + 1] = e /\ Reads(toks[e], ")")
        BY <2>1, <3>1 DEF ColumnsAt
      <4>2. ~Is(toks, e, ",")
        BY <4>1, IsReads, ReadsOne
      <4> QED BY <4>1, <4>2 DEF Skip
    <3>2. CASE k # m
      <4>1. p[k + 1] = e + 1 /\ Is(toks, e, ",")
        BY <2>1, <2>2, <3>2, IsReads
      <4> QED BY <4>1 DEF Skip
    <3> QED BY <3>1, <3>2
  <2>5. ~(i > n) /\ ~Is(toks, i, ")")
    <3>1. ~(i > n)
      BY <1>0, <2>2
    <3> QED BY <2>1, <3>1, IsReads
  <2>6. f[i] = <<column_at(toks, i).col>> \o f[column_at(toks, i).next]
    BY <1>1, <2>2, <2>5 DEF ColumnsBy
  <2>7. f[i] = <<c>> \o f[p[k + 1]]
    <3>1. column_at(toks, i).col = c /\ column_at(toks, i).next = p[k + 1]
      <4> DEFINE r == column_at(toks, i)
                 s == Skip(toks, e, ",")
      <4>1. r = [col |-> c, next |-> s] /\ s = p[k + 1]
        BY <2>3, <2>4
      <4> HIDE DEF r, s
      <4>2. r.col = c /\ r.next = p[k + 1]
        BY ONLY <4>1
      <4> QED BY <4>2 DEF r
    <3> QED BY <2>6, <3>1
  <2> QED BY <2>7 DEF i, c
<1>4. f[p[1]] = cols
  <2>1. Adds(V, m, cols, f, p)
    BY <1>0, <1>2, <1>3 DEF Adds
  <2> QED BY <2>1, Runs
<1> QED BY <1>1, <1>4

-----------------------------------------------------------------------------
(* The tokens of pieces, and where a part of the pieces is.                *)
TokensOf(toks, all) ==
  /\ Len(all) \in Nat /\ Len(toks) = Len(all) /\ DOMAIN toks = 1 .. Len(all)
  /\ \A i \in 1 .. Len(all) : toks[i] = Tok(all[i])

(* The tokens of a part of the pieces.                                     *)
LEMMA TokenAt ==
  ASSUME NEW toks, NEW all, TokensOf(toks, all), NEW a, NEW part, Len(part) \in Nat,
      At(all, a, part),
         NEW i \in 1 .. Len(part)
  PROVE  /\ a + i - 1 \in 1 .. Len(toks) /\ toks[a + i - 1] = Tok(part[i])
         /\ a \in Nat \ {0} /\ a + i - 1 \in Nat
<1>1. /\ a \in Nat \ {0} /\ a + Len(part) <= Len(all) + 1 /\ all[a + i - 1] = part[i]
      /\ Len(all) \in Nat /\ Len(toks) = Len(all)
  BY DEF At, TokensOf
<1> DEFINE k == a + i - 1
<1>2. k \in 1 .. Len(all) /\ k \in Nat
  BY <1>1
<1> HIDE DEF k
<1>3. toks[k] = Tok(all[k])
  BY <1>2 DEF TokensOf
<1> QED BY <1>1, <1>2, <1>3 DEF k

(* A comma is its own token, and read as itself.                           *)
LEMMA CommaIs ==
  ASSUME NEW T, Base(T)
  PROVE  Tok(Comma) = Comma /\ Reads(Comma, ",")
<1>1. "," \in OtherSigns
  BY DEF OtherSigns
<1>2. Fits(T, <<",">>, <<",">>) /\ Reads(<<",">>, ",")
  BY <1>1, SignIs
<1> QED BY <1>2 DEF Comma, Fits

(* A list of texts that are read as x, from token a on, to the token that  *)
(* closes it.                                                              *)
ListOf(toks, all, a, texts, x, m, close) ==
  /\ m \in Nat /\ DOMAIN texts = 1 .. m /\ TokensOf(toks, all) /\ close # ","
  /\ At(all, a, Listed(Single(texts))) /\ a + Len(Listed(Single(texts))) <= Len(all)
  /\ Reads(toks[a + Len(Listed(Single(texts)))], close)
  /\ \A k \in 1 .. m : Tok(texts[k]) = x[k] /\ ~Reads(x[k], close)

(* A list is read back from its tokens, up to what closes it.              *)
LEMMA ListRead ==
  ASSUME NEW T, Base(T), NEW toks, NEW all, NEW a, NEW texts, NEW V, NEW x \in Seq(V), NEW close,
         ListOf(toks, all, a, texts, x, Len(x), close)
  PROVE  /\ list(toks, a, close).items = x
         /\ list(toks, a, close).next = a + Len(Listed(Single(texts)))
<1> DEFINE m == Len(x)
           L == Listed(Single(texts))
           items == Single(texts)
           S == {texts[k] : k \in 1 .. m} \cup {Comma}
<1>1. /\ m \in Nat /\ DOMAIN texts = 1 .. m /\ TokensOf(toks, all) /\ close # "," /\ At(all, a, L)
      /\ a + Len(L) <= Len(all) /\ Reads(toks[a + Len(L)], close)
      /\ \A k \in 1 .. m : Tok(texts[k]) = x[k] /\ ~Reads(x[k], close)
  BY DEF ListOf
<1>0. m \in Nat
  OBVIOUS
<1>2. DOMAIN items = 1 .. m /\ \A k \in 1 .. m : items[k] = <<texts[k]>>
  BY <1>1 DEF Single
<1>3. \A k \in 1 .. m : items[k] \in Seq(S) /\ Len(items[k]) = 1 /\ items[k][1] = texts[k]
  <2>1. SUFFICES ASSUME NEW k \in 1 .. m
                 PROVE  items[k] \in Seq(S) /\ Len(items[k]) = 1 /\ items[k][1] = texts[k]
    OBVIOUS
  <2>2. texts[k] \in S
    OBVIOUS
  <2> HIDE DEF S, items
  <2>3. <<texts[k]>> \in Seq(S) /\ Len(<<texts[k]>>) = 1 /\ <<texts[k]>>[1] = texts[k]
    BY <2>2, OneTwoThree
  <2> QED BY <1>2, <2>3
<1>4. Comma \in S
  OBVIOUS
<1> HIDE DEF S, items, m
<1>5. L \in Seq(S) /\ \E st : Layout(L, items, m, st)
  BY <1>0, <1>2, <1>3, <1>4, ListedIs DEF items
<1>6. PICK st : Layout(L, items, m, st)
  BY <1>5
<1>7. Len(L) \in Nat /\ Len(all) \in Nat /\ a \in Nat \ {0} /\ Len(toks) = Len(all)
  BY <1>1, <1>5, LenProperties DEF TokensOf, At
<1> HIDE DEF L
<1>8. /\ st[1] = 1 /\ Len(L) = IF m = 0 THEN 0 ELSE st[m + 1] - 2
      /\ \A k \in 1 .. m : /\ st[k + 1] = st[k] + 2 /\ At(L, st[k], items[k])
                           /\ k < m => L[st[k] + 1] = Comma
  <2>1. SUFFICES ASSUME NEW k \in 1 .. m
                 PROVE  /\ st[k + 1] = st[k] + 2 /\ At(L, st[k], items[k])
                        /\ k < m => L[st[k] + 1] = Comma
    BY <1>6 DEF Layout
  <2>2. Len(items[k]) = 1 /\ At(L, st[k], items[k]) /\ st[k + 1] = st[k] + Len(items[k]) + 1
        /\ (k < m => L[st[k] + Len(items[k])] = Comma)
    BY <1>3, <1>6 DEF Layout
  <2>3. st[k] \in Nat
    BY <2>2 DEF At
  <2> QED BY <2>2, <2>3
<1> DEFINE p == [k \in 1 .. m + 1 |-> IF k = m + 1 THEN a + Len(L) ELSE a + st[k] - 1]
<1>9. p[1] = a /\ p[m + 1] = a + Len(L)
  <2>1. 1 \in 1 .. m + 1 /\ m + 1 \in 1 .. m + 1
    BY <1>0
  <2>2. CASE m = 0
    BY <1>7, <1>8, <2>1, <2>2
  <2>3. CASE m # 0
    <3>1. 1 # m + 1
      BY <1>0, <2>3
    <3> QED BY <1>7, <1>8, <2>1, <3>1
  <2> QED BY <2>2, <2>3
<1>10. ASSUME NEW k \in 1 .. m
       PROVE  /\ p[k] = a + st[k] - 1 /\ st[k] \in Nat \ {0} /\ p[k] \in 1 .. Len(toks)
                  /\ p[k] \in Nat
              /\ toks[p[k]] = x[k]
  <2>1. k \in 1 .. m + 1 /\ k # m + 1
    BY <1>0
  <2>2. p[k] = a + st[k] - 1
    BY <2>1
  <2> HIDE DEF p
  <2>3. At(L, st[k], items[k]) /\ Len(items[k]) = 1 /\ items[k][1] = texts[k]
    BY <1>3, <1>8
  <2>4. st[k] \in Nat \ {0} /\ st[k] <= Len(L) /\ L[st[k]] = texts[k]
    <3>1. st[k] \in Nat \ {0} /\ st[k] + 1 <= Len(L) + 1 /\ L[st[k] + 1 - 1] = texts[k]
      BY <2>3 DEF At
    <3> QED BY <1>7, <3>1
  <2> DEFINE j == st[k]
  <2>5. j \in 1 .. Len(L)
    BY <1>7, <2>4
  <2> HIDE DEF j
  <2>7. TokensOf(toks, all) /\ At(all, a, L) /\ Len(L) \in Nat
    BY <1>1, <1>7
  <2>6. a + j - 1 \in 1 .. Len(toks) /\ toks[a + j - 1] = Tok(L[j]) /\ a + j - 1 \in Nat
    BY ONLY <2>5, <2>7, TokenAt
  <2> QED BY <1>1, <2>2, <2>4, <2>6 DEF j
<1>11. ASSUME NEW k \in 1 .. m, k # m
       PROVE  p[k + 1] = p[k] + 2 /\ Reads(toks[p[k] + 1], ",")
  <2>1. k + 1 \in 1 .. m /\ k < m
    BY <1>0, <1>11
  <2>2. p[k] = a + st[k] - 1 /\ st[k] \in Nat \ {0} /\ p[k + 1] = a + st[k + 1] - 1
      /\ st[k + 1] = st[k] + 2
        /\ L[st[k] + 1] = Comma
    BY <1>8, <1>10, <2>1
  <2>3. st[k + 1] \in 1 .. Len(L)
    <3>1. At(L, st[k + 1], items[k + 1]) /\ Len(items[k + 1]) = 1
      BY <1>3, <1>8, <2>1
    <3>2. st[k + 1] \in Nat \ {0} /\ st[k + 1] + 1 <= Len(L) + 1
      BY <3>1 DEF At
    <3> QED BY <1>7, <3>2
  <2> HIDE DEF p
  <2> DEFINE j == st[k] + 1
  <2>4. j \in 1 .. Len(L) /\ a + j - 1 = p[k] + 1
    <3> DEFINE u == st[k]
               l == Len(L)
               v == p[k]
    <3>1. u \in Nat /\ l \in Nat /\ a \in Nat /\ u + 2 <= l /\ v = a + u - 1 /\ v \in Nat
      <4>1. st[k] + 2 \in 1 .. Len(L) /\ p[k] \in Nat
        BY <1>10, <2>2, <2>3
      <4> QED BY <1>7, <2>2, <4>1
    <3> HIDE DEF u, l, v
    <3>2. u + 1 \in 1 .. l /\ a + (u + 1) - 1 = v + 1
      BY ONLY <3>1
    <3> QED BY <3>2 DEF u, l, v
  <2>5. toks[a + j - 1] = Tok(L[j])
    <3> HIDE DEF j
    <3>1. TokensOf(toks, all) /\ At(all, a, L) /\ Len(L) \in Nat /\ j \in 1 .. Len(L)
      BY <1>1, <1>7, <2>4
    <3> QED BY ONLY <3>1, TokenAt
  <2>6. toks[p[k] + 1] = Comma
    BY <2>2, <2>4, <2>5, CommaIs
  <2>7. p[k + 1] = p[k] + 2
    BY <1>7, <2>2
  <2> QED BY <2>6, <2>7, CommaIs
<1>12. m # 0 => p[m + 1] = p[m] + 1
  <2>1. ASSUME m # 0 PROVE p[m + 1] = p[m] + 1
    <3>1. m \in 1 .. m
      BY <1>0, <2>1
    <3>2. p[m] = a + st[m] - 1 /\ st[m] \in Nat /\ st[m + 1] = st[m] + 2 /\ Len(L) = st[m + 1] - 2
      BY <1>8, <1>10, <2>1, <3>1
    <3> HIDE DEF p
    <3> QED BY <1>7, <1>9, <3>2
  <2> QED BY <2>1
<1> HIDE DEF p
<1>13. a + Len(L) \in 1 .. Len(toks)
  <2> DEFINE l == Len(L)
             n == Len(toks)
  <2>1. l \in Nat /\ a \in Nat \ {0} /\ n \in Nat /\ a + l <= n
    BY <1>1, <1>7
  <2> HIDE DEF l, n
  <2>2. a + l \in 1 .. n
    BY ONLY <2>1
  <2> QED BY <2>2 DEF l, n
<1>14. \A k \in 1 .. m + 1 : p[k] \in 1 .. Len(toks)
  <2>1. SUFFICES ASSUME NEW k \in 1 .. m + 1 PROVE p[k] \in 1 .. Len(toks)
    OBVIOUS
  <2>2. CASE k = m + 1
    BY <1>9, <1>13, <2>2
  <2>3. CASE k # m + 1
    <3>1. k \in 1 .. m
      BY <1>0, <2>3
    <3> QED BY <1>10, <3>1
  <2> QED BY <2>2, <2>3
<1>15. ListAt(toks, p, x, m, close)
  <2>1. \A k \in 1 .. m :
          /\ toks[p[k]] = x[k] /\ ~Reads(x[k], close)
          /\ IF k = m THEN p[k + 1] = p[k] + 1
             ELSE p[k + 1] = p[k] + 2 /\ Reads(toks[p[k] + 1], ",")
    <3>1. SUFFICES ASSUME NEW k \in 1 .. m
                   PROVE  IF k = m THEN p[k + 1] = p[k] + 1
                          ELSE p[k + 1] = p[k] + 2 /\ Reads(toks[p[k] + 1], ",")
      BY <1>1, <1>10
    <3>2. m # 0
      BY <1>0
    <3> QED BY <1>11, <1>12, <3>2
  <2>2. Len(toks) \in Nat /\ Reads(toks[p[m + 1]], close)
    BY <1>1, <1>7, <1>9
  <2> QED BY <1>0, <1>1, <1>14, <2>1, <2>2 DEF ListAt
<1>16. list(toks, p[1], close).items = x /\ list(toks, p[1], close).next = p[m + 1]
  BY <1>15, ListIs DEF m
<1> QED BY <1>9, <1>16 DEF L

-----------------------------------------------------------------------------
(* The pieces that any may follow.                                         *)
Good(T) == {p \in Seq(T) : Plain(p)}

(* A part of a part.                                                       *)
LEMMA AtWithin ==
  ASSUME NEW s, NEW t, NEW u, Len(s) \in Nat, Len(t) \in Nat, Len(u) \in Nat,
         NEW a, NEW b, At(s, a, t), At(t, b, u)
  PROVE  At(s, a + b - 1, u)
<1> DEFINE l == Len(s)
           m == Len(t)
           n == Len(u)
           c == a + b - 1
<1>1. /\ a \in Nat \ {0} /\ b \in Nat \ {0} /\ l \in Nat /\ m \in Nat /\ n \in Nat
      /\ a + m <= l + 1 /\ b + n <= m + 1
  BY DEF At
<1>2. (\A i \in 1 .. m : s[a + i - 1] = t[i]) /\ (\A i \in 1 .. n : t[b + i - 1] = u[i])
  BY DEF At
<1> HIDE DEF l, m, n
<1>3. c \in Nat \ {0} /\ c + n <= l + 1
  BY ONLY <1>1
<1>4. ASSUME NEW i \in 1 .. n PROVE s[c + i - 1] = u[i]
  <2> DEFINE j == b + i - 1
  <2>1. j \in 1 .. m /\ a + j - 1 = c + i - 1
    BY ONLY <1>1
  <2>2. t[j] = u[i]
    BY <1>2
  <2> HIDE DEF j, c
  <2>3. s[a + j - 1] = t[j]
    BY <1>2, <2>1
  <2> QED BY <2>1, <2>2, <2>3
<1> HIDE DEF c
<1>5. At(s, c, u)
  BY <1>3, <1>4 DEF At, l, n
<1> QED BY <1>5 DEF c

(* The items of a list among the pieces that hold it.                      *)
ItemsAt(all, a, L, items, m, p) ==
  /\ p[1] = a /\ p[m + 1] = a + Len(L)
  /\ \A k \in 1 .. m :
       /\ At(all, p[k], items[k])
       /\ IF k = m THEN p[k + 1] = p[k] + Len(items[k])
          ELSE /\ p[k + 1] = p[k] + Len(items[k]) + 1 /\ all[p[k] + Len(items[k])] = Comma
               /\ p[k] + Len(items[k]) \in 1 .. Len(all)

(* Where the items of a list stand in the statement around it.             *)
LEMMA ItemsOf ==
  ASSUME NEW all, Len(all) \in Nat, NEW a, NEW L, Len(L) \in Nat, At(all, a, L),
         NEW items, NEW m \in Nat, NEW st, Layout(L, items, m, st),
         \A k \in 1 .. m : Len(items[k]) \in Nat
  PROVE  \E p : ItemsAt(all, a, L, items, m, p)
<1> DEFINE n == Len(all)
           l == Len(L)
           p == [k \in 1 .. m + 1 |-> IF k = m + 1 THEN a + l ELSE a + st[k] - 1]
<1>0. m \in Nat
  OBVIOUS
<1>1. n \in Nat /\ l \in Nat /\ a \in Nat \ {0} /\ a + l <= n + 1
  BY DEF At
<1>2. \A i \in 1 .. l : all[a + i - 1] = L[i]
  BY DEF At
<1>3. st[1] = 1 /\ l = IF m = 0 THEN 0 ELSE st[m + 1] - 2
  BY DEF Layout
<1>4. \A k \in 1 .. m :
        /\ At(L, st[k], items[k]) /\ st[k + 1] = st[k] + Len(items[k]) + 1
        /\ k < m => L[st[k] + Len(items[k])] = Comma
  BY DEF Layout
<1> HIDE DEF n
<1>5. p[1] = a /\ p[m + 1] = a + l
  <2>1. 1 \in 1 .. m + 1 /\ m + 1 \in 1 .. m + 1
    BY <1>0
  <2>2. CASE m = 0
    BY <1>1, <1>3, <2>1, <2>2
  <2>3. CASE m # 0
    <3>1. 1 # m + 1
      BY <1>0, <2>3
    <3> QED BY <1>1, <1>3, <2>1, <3>1
  <2> QED BY <2>2, <2>3
<1>6. \A k \in 1 .. m : p[k] = a + st[k] - 1
  <2>1. \A k \in 1 .. m : k \in 1 .. m + 1 /\ k # m + 1
    BY <1>0
  <2> QED BY <2>1
<1> HIDE DEF p
<1>7. ASSUME NEW k \in 1 .. m
      PROVE  /\ At(all, p[k], items[k])
             /\ IF k = m THEN p[k + 1] = p[k] + Len(items[k])
                ELSE /\ p[k + 1] = p[k] + Len(items[k]) + 1 /\ all[p[k] + Len(items[k])] = Comma
                     /\ p[k] + Len(items[k]) \in 1 .. n
  <2> DEFINE u == st[k]
             v == Len(items[k])
             w == st[k + 1]
             x == p[k]
             y == p[k + 1]
  <2>1. At(L, u, items[k]) /\ v \in Nat /\ w = u + v + 1 /\ x = a + u - 1
    BY <1>4, <1>6
  <2>2. u \in Nat \ {0} /\ u + v <= l + 1
    BY <2>1 DEF At
  <2>3. k < m => L[u + v] = Comma
    BY <1>4
  <2>4. At(all, x, items[k])
    <3>1. At(all, a, L) /\ Len(all) \in Nat /\ Len(L) \in Nat /\ Len(items[k]) \in Nat
      OBVIOUS
    <3> HIDE DEF u, x
    <3>2. At(all, a + u - 1, items[k])
      BY ONLY <2>1, <3>1, AtWithin
    <3> QED BY <2>1, <3>2
  <2> HIDE DEF u, v, w, x, y
  <2>5. ASSUME k = m PROVE y = x + v
    <3>1. m # 0 /\ k + 1 = m + 1
      BY <1>0, <2>5
    <3>2. y = a + l /\ l = w - 2
      BY <1>3, <1>5, <2>5, <3>1 DEF y, w
    <3> QED BY <1>1, <2>1, <2>2, <3>2
  <2>6. ASSUME k # m PROVE y = x + v + 1 /\ all[x + v] = Comma /\ x + v \in 1 .. n
    <3>1. k + 1 \in 1 .. m /\ k < m
      BY <1>0, <2>6
    <3>2. y = a + w - 1 /\ At(L, w, items[k + 1]) /\ Len(items[k + 1]) \in Nat
      BY <1>4, <1>6, <3>1 DEF y, w
    <3>3. w <= l + 1
      <4>1. w + Len(items[k + 1]) <= Len(L) + 1 /\ w \in Nat
        BY <3>2 DEF At
      <4> QED BY <1>1, <3>2, <4>1
    <3>4. u + v \in 1 .. l /\ x + v = a + (u + v) - 1 /\ y = x + v + 1 /\ x + v \in 1 .. n
      BY <1>1, <2>1, <2>2, <3>2, <3>3
    <3>5. all[x + v] = Comma
      <4> DEFINE z == u + v
      <4>1. z \in 1 .. l /\ x + v = a + z - 1 /\ L[z] = Comma
        BY <2>3, <3>1, <3>4
      <4> HIDE DEF z
      <4> QED BY <1>2, <4>1
    <3> QED BY <3>4, <3>5
  <2> QED BY <2>4, <2>5, <2>6 DEF v, x, y
<1> QED BY <1>5, <1>7 DEF ItemsAt, l, n

-----------------------------------------------------------------------------
(* What good pieces may follow.                                            *)
LEMMA FitsGood ==
  ASSUME NEW T, NEW p, NEW t, Fits(T, p, t)
  PROVE  p \in Good(T) /\ p \in Seq(T) /\ Tok(p) = t
BY DEF Fits, Good

(* A column as it is written.                                              *)
ColumnText(T, P, c) ==
  /\ P \in Seq(Good(T)) /\ Len(P) = ColumnLen(c) /\ ColumnLen(c) \in Nat
  /\ Tok(P[1]) = c.name /\ Reads(Tok(P[2]), c.type)
  /\ Sized(c) => /\ Reads(Tok(P[3]), "(") /\ ~Reads(Tok(P[4]), ")")
                 /\ stoi(Tok(P[4])) = c.max_len /\ Reads(Tok(P[5]), ")")

(* The five pieces of a column with a length.                              *)
LEMMA TwoAndThree ==
  ASSUME NEW S, NEW x \in S, NEW y \in S, NEW u \in S, NEW v \in S, NEW w \in S
  PROVE  LET P == <<x, y>> \o <<u, v, w>>
         IN  P \in Seq(S) /\ Len(P) = 5 /\ P[1] = x /\ P[2] = y /\ P[3] = u /\ P[4] = v /\ P[5] = w
<1> DEFINE a == <<x, y>>
           b == <<u, v, w>>
           P == a \o b
<1>1. a \in Seq(S) /\ Len(a) = 2 /\ a[1] = x /\ a[2] = y
  OBVIOUS
<1>2. b \in Seq(S) /\ Len(b) = 3 /\ b[1] = u /\ b[2] = v /\ b[3] = w
  OBVIOUS
<1> HIDE DEF a, b
<1>3. P \in Seq(S) /\ Len(P) = Len(a) + Len(b)
      /\ \A i \in 1 .. Len(a) + Len(b) : P[i] = IF i <= Len(a) THEN a[i] ELSE b[i - Len(a)]
  BY <1>1, <1>2, ConcatProperties
<1> HIDE DEF P
<1>4. Len(P) = 5 /\ \A i \in 1 .. 5 : P[i] = IF i <= 2 THEN a[i] ELSE b[i - 2]
  BY <1>1, <1>2, <1>3
<1> QED BY <1>1, <1>2, <1>3, <1>4 DEF P, a, b

(* What the pieces of a column are.                                        *)
LEMMA ColumnTextIs ==
  ASSUME NEW T, Base(T), NEW c, IsColumn(c), c.name \in Seq(T), NEW look
  PROVE  ColumnText(T, Column(c, look), c) /\ ~Reads(c.name, ")")
<1> DEFINE name == c.name
           type == c.type
           len == c.max_len
           word == Word(type, look)
           P == Column(c, look)
<1>1. /\ IsWord(name) /\ name \in Seq(T)
      /\ \/ type = "INT" /\ len = 4
         \/ type = "TEXT" /\ len \in {255} \cup DOMAIN Numeral
  BY DEF IsColumn
<1>2. P = IF type = "INT" THEN <<name, Word("INT", look)>>
          ELSE <<name, Word("TEXT", look)>>
                 \o IF len = 255 THEN <<>> ELSE <<<<"(">>, <<Numeral[len]>>, <<")">>>>
  BY DEF Column
<1>3. Sized(c) <=> type = "TEXT" /\ len # 255
  BY DEF Sized
<1>4. ColumnLen(c) = IF Sized(c) THEN 5 ELSE 2
  BY DEF ColumnLen
<1> HIDE DEF name, type, len, P
<1>5. name \in Good(T) /\ Tok(name) = name
  <2>1. Fits(T, name, name)
    BY <1>1, WordIs
  <2> QED BY <2>1, FitsGood
<1>6. ~Reads(name, ")")
  <2>1. ")" \in Sign \ {"."}
    BY DEF Sign, WordEnd
  <2> QED BY <1>1, <2>1, WordIs
<1>7. word \in Good(T) /\ Reads(Tok(word), type)
  <2>1. type \in Keyword
    BY <1>1 DEF Keyword
  <2>2. Fits(T, word, word) /\ Reads(word, type)
    BY <2>1, KeywordIs
  <2> HIDE DEF word
  <2>3. word \in Good(T) /\ Tok(word) = word
    BY <2>2, FitsGood
  <2> QED BY <2>2, <2>3
<1>8. CASE ~Sized(c)
  <2>1. P = <<name, word>>
    <3>1. CASE type = "INT"
      BY <1>2, <3>1
    <3>2. CASE type # "INT"
      <4>1. type = "TEXT" /\ len = 255
        BY <1>1, <1>3, <1>8, <3>2
      <4>2. P = <<name, word>> \o <<>>
        BY <1>2, <3>2, <4>1
      <4> DEFINE q == <<name, word>>
      <4>3. q \in Seq(Good(T))
        BY <1>5, <1>7
      <4> HIDE DEF q
      <4>4. q \o <<>> = q
        BY <4>3, ConcatEmptySeq
      <4> QED BY <4>2, <4>4 DEF q
    <3> QED BY <3>1, <3>2
  <2> HIDE DEF word
  <2>2. P \in Seq(Good(T)) /\ Len(P) = 2 /\ P[1] = name /\ P[2] = word
    BY <1>5, <1>7, <2>1, OneTwoThree
  <2>3. Tok(P[1]) = c.name /\ Reads(Tok(P[2]), c.type)
    BY <1>5, <1>7, <2>2 DEF name, type
  <2> QED BY <1>4, <1>6, <1>8, <2>2, <2>3 DEF ColumnText, P, name
<1>9. CASE Sized(c)
  <2> DEFINE open == <<"(">>
             num == <<Numeral[len]>>
             close == <<")">>
  <2>1. type = "TEXT" /\ len # 255 /\ len \in DOMAIN Numeral
    BY <1>1, <1>3, <1>9
  <2>2. P = <<name, word>> \o <<open, num, close>>
    BY <1>2, <2>1
  <2>3. open \in Good(T) /\ Reads(Tok(open), "(") /\ close \in Good(T) /\ Reads(Tok(close), ")")
    <3>1. "(" \in OtherSigns /\ ")" \in OtherSigns
      BY DEF OtherSigns
    <3>2. Fits(T, open, open) /\ Reads(open, "(") /\ Fits(T, close, close) /\ Reads(close, ")")
      BY <3>1, SignIs
    <3> HIDE DEF open, close
    <3>3. open \in Good(T) /\ Tok(open) = open /\ close \in Good(T) /\ Tok(close) = close
      BY <3>2, FitsGood
    <3> QED BY <3>2, <3>3
  <2>4. num \in Good(T) /\ stoi(Tok(num)) = len /\ ~Reads(Tok(num), ")")
    <3>1. Fits(T, num, num) /\ stoi(num) = len /\ \A w \in Keyword \cup Sign : ~Reads(num, w)
      BY <2>1, NumeralIs
    <3>2. ")" \in Keyword \cup Sign
      BY DEF Sign, WordEnd
    <3> HIDE DEF num
    <3>3. num \in Good(T) /\ Tok(num) = num
      BY <3>1, FitsGood
    <3> QED BY <3>1, <3>2, <3>3
  <2> HIDE DEF word, open, num, close
  <2>5. P \in Seq(Good(T)) /\ Len(P) = 5 /\ P[1] = name /\ P[2] = word /\ P[3] = open /\ P[4] = num
        /\ P[5] = close
    BY <1>5, <1>7, <2>2, <2>3, <2>4, TwoAndThree
  <2>6. Tok(P[1]) = c.name /\ Reads(Tok(P[2]), c.type)
    BY <1>5, <1>7, <2>5 DEF name, type
  <2>7. Reads(Tok(P[3]), "(") /\ ~Reads(Tok(P[4]), ")") /\ stoi(Tok(P[4])) = c.max_len
        /\ Reads(Tok(P[5]), ")")
    BY <2>3, <2>4, <2>5 DEF len
  <2> QED BY <1>4, <1>6, <1>9, <2>5, <2>6, <2>7 DEF ColumnText, P, name
<1> QED BY <1>8, <1>9

(* The columns of CREATE TABLE, up to the parenthesis that closes them.    *)
ColumnsOf(T, toks, all, a, cols, look, L) ==
  /\ TokensOf(toks, all) /\ L = Listed([i \in DOMAIN cols |-> Column(cols[i], look)])
  /\ \A k \in 1 .. Len(cols) : IsColumn(cols[k]) /\ cols[k].name \in Seq(T)
  /\ At(all, a, L) /\ a + Len(L) <= Len(all) /\ Reads(toks[a + Len(L)], ")")

(* The columns of CREATE TABLE are read back from their tokens.            *)
LEMMA ColumnsRead ==
  ASSUME NEW T, Base(T), NEW V, NEW cols \in Seq(V), NEW toks, NEW all, NEW a, NEW look, NEW L,
         ColumnsOf(T, toks, all, a, cols, look, L)
  PROVE  columns(toks, a) = cols /\ L \in Seq(Good(T))
<1> DEFINE m == Len(cols)
           items == [i \in DOMAIN cols |-> Column(cols[i], look)]
           S == Good(T)
<1>0. m \in Nat /\ DOMAIN cols = 1 .. m
  BY LenProperties
<1>1. /\ TokensOf(toks, all) /\ L = Listed(items) /\ At(all, a, L) /\ a + Len(L) <= Len(all)
      /\ Reads(toks[a + Len(L)], ")")
  BY DEF ColumnsOf
<1>2. \A k \in 1 .. m : IsColumn(cols[k]) /\ cols[k].name \in Seq(T)
  BY DEF ColumnsOf
<1>3. DOMAIN items = 1 .. m /\ \A k \in 1 .. m : items[k] = Column(cols[k], look)
  BY <1>0
<1> HIDE DEF m, items
<1>4. \A k \in 1 .. m : ColumnText(T, items[k], cols[k]) /\ ~Reads(cols[k].name, ")")
  BY <1>2, <1>3, ColumnTextIs
<1>5. Comma \in S /\ Tok(Comma) = Comma /\ Reads(Comma, ",")
  <2>1. "," \in OtherSigns
    BY DEF OtherSigns
  <2>2. Fits(T, <<",">>, <<",">>)
    BY <2>1, SignIs
  <2>3. Comma \in Good(T)
    BY <2>2, FitsGood DEF Comma
  <2> QED BY <2>3, CommaIs
<1> HIDE DEF S
<1>6. \A k \in 1 .. m : items[k] \in Seq(S) /\ Len(items[k]) \in Nat
    /\ Len(items[k]) = ColumnLen(cols[k])
  BY <1>4 DEF ColumnText, S
<1>7. L \in Seq(S) /\ \E st : Layout(L, items, m, st)
  BY <1>0, <1>1, <1>3, <1>5, <1>6, ListedIs
<1>8. PICK st : Layout(L, items, m, st)
  BY <1>7
<1>9. Len(L) \in Nat /\ Len(all) \in Nat /\ a \in Nat \ {0} /\ Len(toks) = Len(all)
  BY <1>1, <1>7, LenProperties DEF TokensOf, At
<1>10. PICK p : ItemsAt(all, a, L, items, m, p)
  BY <1>0, <1>1, <1>6, <1>8, <1>9, ItemsOf
<1> DEFINE n == Len(toks)
           e == p[m + 1]
<1>11. p[1] = a /\ e = a + Len(L) /\ Reads(toks[e], ")") /\ e \in 1 .. n /\ n \in Nat
  <2>1. p[1] = a /\ e = a + Len(L)
    BY <1>10 DEF ItemsAt
  <2> DEFINE l == Len(L)
  <2>2. l \in Nat /\ a \in Nat \ {0} /\ n \in Nat /\ a + l <= n
    BY <1>1, <1>9
  <2> HIDE DEF l, n, e
  <2>3. a + l \in 1 .. n
    BY ONLY <2>2
  <2> QED BY <1>1, <2>1, <2>2, <2>3 DEF l
<1> HIDE DEF n, e
<1>12. ASSUME NEW k \in 1 .. m
       PROVE  /\ IsColumn(cols[k]) /\ ColumnAt(toks, p[k], cols[k]) /\ ~Reads(toks[p[k]], ")")
              /\ IF k = m THEN p[k + 1] = p[k] + ColumnLen(cols[k])
                 ELSE p[k + 1] = p[k] + ColumnLen(cols[k]) + 1
                     /\ Reads(toks[p[k] + ColumnLen(cols[k])], ",")
  <2> DEFINE x == p[k]
             y == p[k + 1]
             c == cols[k]
             P == items[k]
             v == ColumnLen(c)
  <2>1. At(all, x, P) /\ Len(P) = v /\ v \in Nat
    BY <1>6, <1>10 DEF ItemsAt
  <2>2. IF k = m THEN y = x + v ELSE y = x + v + 1 /\ all[x + v] = Comma /\ x + v \in 1 .. Len(all)
    BY <1>10, <2>1 DEF ItemsAt
  <2>3. ColumnText(T, P, c) /\ ~Reads(c.name, ")") /\ IsColumn(c)
    BY <1>2, <1>4
  <2>4. v = IF Sized(c) THEN 5 ELSE 2
    BY DEF ColumnLen
  <2>5. k = m => y = e
    BY DEF e
  <2> HIDE DEF x, y, c, P, v
  <2>6. \A i \in 1 .. v : x + i - 1 \in 1 .. n /\ toks[x + i - 1] = Tok(P[i]) /\ x \in Nat \ {0}
    <3>1. TokensOf(toks, all) /\ At(all, x, P) /\ Len(P) = v /\ Len(P) \in Nat
      BY <1>1, <2>1
    <3>2. \A i \in 1 .. Len(P) :
            x + i - 1 \in 1 .. Len(toks) /\ toks[x + i - 1] = Tok(P[i]) /\ x \in Nat \ {0}
      <4>1. ASSUME NEW i \in 1 .. Len(P)
            PROVE  x + i - 1 \in 1 .. Len(toks) /\ toks[x + i - 1] = Tok(P[i]) /\ x \in Nat \ {0}
        <5>1. i \in 1 .. Len(P) /\ TokensOf(toks, all) /\ At(all, x, P) /\ Len(P) \in Nat
          BY <3>1
        <5>2. TokensOf(toks, all) /\ At(all, x, P) /\ Len(P) \in Nat /\ i \in 1 .. Len(P)
              => /\ x + i - 1 \in 1 .. Len(toks) /\ toks[x + i - 1] = Tok(P[i])
                 /\ x \in Nat \ {0} /\ x + i - 1 \in Nat
          BY ONLY TokenAt
        <5> QED BY ONLY <5>1, <5>2
      <4> QED BY <4>1
    <3> QED BY <3>1, <3>2 DEF n
  <2>7. x \in Nat \ {0} /\ x <= n /\ x + 1 <= n /\ toks[x] = Tok(P[1]) /\ toks[x + 1] = Tok(P[2])
    <3>1. 1 \in 1 .. v /\ 2 \in 1 .. v
      BY <2>4
    <3>2. /\ x + 1 - 1 \in 1 .. n /\ toks[x + 1 - 1] = Tok(P[1]) /\ x \in Nat \ {0}
          /\ x + 2 - 1 \in 1 .. n /\ toks[x + 2 - 1] = Tok(P[2])
      BY <2>6, <3>1
    <3>3. x + 1 - 1 = x /\ x + 2 - 1 = x + 1
      BY ONLY <3>2
    <3> QED BY <1>11, <3>2, <3>3
  <2>8. x + v \in 1 .. n /\ (k = m => Reads(toks[x + v], ")")) /\ (k # m => Reads(toks[x + v], ","))
    <3>1. ASSUME k = m PROVE x + v \in 1 .. n /\ Reads(toks[x + v], ")")
      BY <1>11, <2>2, <2>5, <3>1
    <3>2. ASSUME k # m PROVE x + v \in 1 .. n /\ Reads(toks[x + v], ",")
      <4>1. x + v \in 1 .. Len(all) /\ all[x + v] = Comma
        BY <2>2, <3>2
      <4> DEFINE z == x + v
      <4> HIDE DEF z
      <4>2. toks[z] = Tok(Comma)
        BY <1>1, <4>1 DEF TokensOf, z
      <4> QED BY <1>5, <1>9, <4>1, <4>2 DEF z, n
    <3> QED BY <3>1, <3>2
  <2>9. ColumnAt(toks, x, c)
    <3>1. Tok(P[1]) = c.name /\ Reads(Tok(P[2]), c.type)
      BY <2>3 DEF ColumnText
    <3>2. x \in Nat \ {0} /\ x + v <= Len(toks) /\ toks[x] = c.name /\ Reads(toks[x + 1], c.type)
      <4>1. x + v <= n
        <5>1. x + v \in 1 .. n /\ n \in Nat
          BY <1>11, <2>8
        <5> QED BY ONLY <5>1
      <4> QED BY <2>7, <3>1, <4>1 DEF n
    <3>3. ASSUME Sized(c)
          PROVE  /\ Reads(toks[x + 2], "(") /\ ~Reads(toks[x + 3], ")")
                     /\ stoi(toks[x + 3]) = c.max_len
                 /\ Reads(toks[x + 4], ")")
      <4>1. 3 \in 1 .. v /\ 4 \in 1 .. v /\ 5 \in 1 .. v
        BY <2>4, <3>3
      <4>2. toks[x + 3 - 1] = Tok(P[3]) /\ toks[x + 4 - 1] = Tok(P[4])
          /\ toks[x + 5 - 1] = Tok(P[5])
        BY <2>6, <4>1
      <4>3. x + 3 - 1 = x + 2 /\ x + 4 - 1 = x + 3 /\ x + 5 - 1 = x + 4
        BY ONLY <2>7
      <4>4. toks[x + 2] = Tok(P[3]) /\ toks[x + 3] = Tok(P[4]) /\ toks[x + 4] = Tok(P[5])
        BY <4>2, <4>3
      <4> QED BY <2>3, <3>3, <4>4 DEF ColumnText
    <3>4. ASSUME ~Sized(c) PROVE ~Reads(toks[x + 2], "(")
      <4>1. x + v = x + 2
        BY <2>4, <3>4
      <4>2. Reads(toks[x + 2], ")") \/ Reads(toks[x + 2], ",")
        BY <2>8, <4>1
      <4>3. ")" # "(" /\ "," # "("
        OBVIOUS
      <4> QED BY <4>2, <4>3, ReadsOne
    <3> QED BY <3>2, <3>3, <3>4 DEF ColumnAt, v
  <2>10. toks[x] = c.name
    BY <2>9 DEF ColumnAt
  <2> QED BY <2>2, <2>3, <2>8, <2>9, <2>10 DEF x, y, c, v
<1>13. ColumnsAt(toks, p, cols, m)
  BY <1>0, <1>11, <1>12 DEF ColumnsAt, n, e
<1>14. columns(toks, p[1]) = cols
  BY <1>13, ColumnsAre DEF m
<1> QED BY <1>7, <1>11, <1>14 DEF S

-----------------------------------------------------------------------------
(* A list of columns as it is written.                                     *)
LEMMA CommaGood ==
  ASSUME NEW T, Base(T)
  PROVE  Comma \in Good(T) /\ Tok(Comma) = Comma
<1>1. "," \in OtherSigns
  BY DEF OtherSigns
<1>2. Fits(T, <<",">>, <<",">>)
  BY <1>1, SignIs
<1> QED BY <1>2, FitsGood DEF Comma

(* The pieces of the columns are words and signs.                          *)
LEMMA ColumnsGood ==
  ASSUME NEW T, Base(T), NEW V, NEW cols \in Seq(V), NEW look,
         \A k \in 1 .. Len(cols) : IsColumn(cols[k]) /\ cols[k].name \in Seq(T)
  PROVE  Listed([i \in DOMAIN cols |-> Column(cols[i], look)]) \in Seq(Good(T))
<1> DEFINE m == Len(cols)
           items == [i \in DOMAIN cols |-> Column(cols[i], look)]
           S == Good(T)
<1>0. m \in Nat /\ DOMAIN cols = 1 .. m
  BY LenProperties
<1>1. DOMAIN items = 1 .. m /\ \A k \in 1 .. m : items[k] = Column(cols[k], look)
  BY <1>0
<1>2. \A k \in 1 .. m : ColumnText(T, Column(cols[k], look), cols[k])
  BY ColumnTextIs
<1> HIDE DEF m, items
<1>3. \A k \in 1 .. m : items[k] \in Seq(S)
  BY <1>1, <1>2 DEF ColumnText
<1> HIDE DEF S
<1>4. Comma \in S
  BY CommaGood DEF S
<1>5. Listed(items) \in Seq(S)
  BY <1>0, <1>1, <1>3, <1>4, ListedIs
<1> QED BY <1>5 DEF items, S

(* A list of texts as it is written.                                       *)
LEMMA TextsListed ==
  ASSUME NEW S, Comma \in S, NEW texts \in Seq(S)
  PROVE  Listed(Single(texts)) \in Seq(S) /\ Len(Listed(Single(texts))) \in Nat
<1> DEFINE m == Len(texts)
           items == Single(texts)
<1>0. m \in Nat /\ DOMAIN texts = 1 .. m /\ \A k \in 1 .. m : texts[k] \in S
  BY LenProperties, ElementOfSeq
<1>1. DOMAIN items = 1 .. m /\ \A k \in 1 .. m : items[k] = <<texts[k]>>
  BY <1>0 DEF Single
<1> HIDE DEF m, items
<1>2. \A k \in 1 .. m : items[k] \in Seq(S)
  <2>1. SUFFICES ASSUME NEW k \in 1 .. m PROVE items[k] \in Seq(S)
    OBVIOUS
  <2>2. texts[k] \in S /\ items[k] = <<texts[k]>>
    BY <1>0, <1>1
  <2>3. <<texts[k]>> \in Seq(S)
    BY <2>2, OneTwoThree
  <2> QED BY <2>2, <2>3
<1>3. Listed(items) \in Seq(S)
  BY <1>0, <1>1, <1>2, ListedIs
<1> QED BY <1>3, LenProperties DEF items

-----------------------------------------------------------------------------
(* Pieces of which each is good, or followed by one that makes no other    *)
(* sign of it.                                                             *)
Texts(T) == {p \in Seq(T) : Piece(p)}
Flows(T, ps) ==
  /\ ps \in Seq(Texts(T))
  /\ \A i \in 1 .. Len(ps) : Plain(ps[i]) \/ (i < Len(ps) /\ ps[i + 1][1] \notin {"=", ">"})

(* Words, literals and plain signs can stand next to each other in any     *)
(* look.                                                                   *)
LEMMA FlowsGood ==
  ASSUME NEW T, NEW ps \in Seq(Good(T))
  PROVE  Flows(T, ps)
<1>1. Good(T) \subseteq Texts(T)
  BY DEF Good, Texts, Plain
<1>2. ps \in Seq(Texts(T))
  BY <1>1, SeqMonotonic
<1>3. \A i \in 1 .. Len(ps) : ps[i] \in Good(T)
  BY ElementOfSeq
<1> QED BY <1>2, <1>3 DEF Flows, Good

(* So can two such parts.                                                  *)
LEMMA FlowsBoth ==
  ASSUME NEW T, NEW s, NEW t, Flows(T, s), Flows(T, t)
  PROVE  Flows(T, s \o t)
<1> DEFINE u == s \o t
           l == Len(s)
           m == Len(t)
           S == Texts(T)
<1>1. s \in Seq(S) /\ t \in Seq(S)
  BY DEF Flows
<1>2. /\ \A i \in 1 .. l : Plain(s[i]) \/ (i < l /\ s[i + 1][1] \notin {"=", ">"})
      /\ \A i \in 1 .. m : Plain(t[i]) \/ (i < m /\ t[i + 1][1] \notin {"=", ">"})
  BY DEF Flows
<1> HIDE DEF S
<1>3. /\ l \in Nat /\ m \in Nat /\ u \in Seq(S) /\ Len(u) = l + m
      /\ \A i \in 1 .. l + m : u[i] = IF i <= l THEN s[i] ELSE t[i - l]
  BY <1>1, LenProperties, ConcatProperties
<1> HIDE DEF u, l, m
<1>4. ASSUME NEW i \in 1 .. l + m
      PROVE  Plain(u[i]) \/ (i < l + m /\ u[i + 1][1] \notin {"=", ">"})
  <2>1. CASE i <= l
    <3>1. i \in 1 .. l /\ u[i] = s[i]
      BY <1>3, <2>1
    <3>2. CASE Plain(s[i])
      BY <3>1, <3>2
    <3>3. CASE i < l /\ s[i + 1][1] \notin {"=", ">"}
      <4>1. i + 1 \in 1 .. l + m /\ i + 1 <= l /\ i < l + m
        BY <1>3, <3>1, <3>3
      <4>2. u[i + 1] = s[i + 1]
        BY <1>3, <4>1
      <4> QED BY <3>3, <4>1, <4>2
    <3> QED BY <1>2, <3>1, <3>2, <3>3
  <2>2. CASE i > l
    <3> DEFINE j == i - l
    <3>1. j \in 1 .. m /\ u[i] = t[j]
      BY <1>3, <2>2
    <3>2. CASE Plain(t[j])
      BY <3>1, <3>2
    <3>3. CASE j < m /\ t[j + 1][1] \notin {"=", ">"}
      <4>1. i + 1 \in 1 .. l + m /\ i + 1 > l /\ i < l + m /\ (i + 1) - l = j + 1
        BY <1>3, <2>2, <3>1, <3>3
      <4>2. u[i + 1] = t[(i + 1) - l]
        BY <1>3, <4>1
      <4> QED BY <3>3, <4>1, <4>2
    <3> HIDE DEF j
    <3> QED BY <1>2, <3>1, <3>2, <3>3
  <2> QED BY <1>3, <2>1, <2>2
<1>5. Len(u) = l + m /\ u \in Seq(Texts(T))
  BY <1>3 DEF S
<1>6. Flows(T, u)
  BY <1>4, <1>5 DEF Flows
<1> QED BY <1>6 DEF u

(* What flows is laid out, whatever the look.                              *)
LEMMA FlowsIs ==
  ASSUME NEW T, NEW ps, Flows(T, ps), Len(ps) >= 1
  PROVE  ps \in Seq(Seq(T)) /\ Readable(T, ps, Len(ps)) /\ Closed(ps[Len(ps)])
<1> DEFINE n == Len(ps)
<1>1. ps \in Seq(Texts(T)) /\ n \in Nat
  BY LenProperties DEF Flows
<1>2. \A i \in 1 .. n : Plain(ps[i]) \/ (i < n /\ ps[i + 1][1] \notin {"=", ">"})
  BY DEF Flows
<1>3. \A i \in 1 .. n : ps[i] \in Seq(T) /\ Piece(ps[i])
  BY <1>1, ElementOfSeq DEF Texts
<1>4. ps \in Seq(Seq(T))
  <2>1. Texts(T) \subseteq Seq(T)
    BY DEF Texts
  <2> QED BY <1>1, <2>1, SeqMonotonic
<1> HIDE DEF n
<1>5. NoGlue(ps, n)
  <2>1. ASSUME NEW i \in 1 .. n - 1, SignPiece(ps[i]), ps[i][1] \in {"<", ">"}
        PROVE  ps[i + 1][1] \notin {"=", ">"}
    <3>1. i \in 1 .. n /\ ~Plain(ps[i])
      BY <1>1, <2>1 DEF Plain
    <3> QED BY <1>2, <3>1
  <2> QED BY <2>1 DEF NoGlue
<1>6. Plain(ps[n])
  <2>1. n \in 1 .. n /\ ~(n < n)
    BY <1>1 DEF n
  <2> QED BY <1>2, <2>1
<1>7. Readable(T, ps, n) /\ Closed(ps[n])
  BY <1>1, <1>3, <1>5, <1>6 DEF Readable, Plain
<1> QED BY <1>4, <1>7 DEF n

-----------------------------------------------------------------------------
(* What begins with a sign is no keyword.                                  *)
LEMMA NoKeyword ==
  ASSUME NEW t, t[1] \in Sign, NEW w \in Keyword
  PROVE  ~Reads(t, w)
<1>1. SUFFICES ASSUME Reads(t, w) PROVE FALSE
  OBVIOUS
<1>2. (IF t[1] \in DOMAIN Upper THEN Upper[t[1]] ELSE t[1]) = w
  BY <1>1, ReadsIs
<1>3. t[1] \notin DOMAIN Upper
  BY Characters
<1>4. t[1] = w
  BY <1>2, <1>3
<1> QED BY <1>4, Characters

(* An operator begins with a sign.                                         *)
LEMMA OperatorToken ==
  ASSUME NEW t, op_of(t) # ""
  PROVE  t[1] \in Sign
<1> DEFINE e == <<"=">>
           l == <<"<">>
           g == <<">">>
           ne == <<"!", "=">>
           le == <<"<", "=">>
           ge == <<">", "=">>
<1>1. op_of(t) = CASE t = e -> "=" [] t = ne -> "!=" [] t = l -> "<" [] t = g -> ">"
                   [] t = le -> "<=" [] t = ge -> ">=" [] OTHER -> ""
  BY DEF op_of
<1>2. e[1] = "=" /\ l[1] = "<" /\ g[1] = ">"
  BY OneChar
<1>3. ne[1] = "!" /\ le[1] = "<" /\ ge[1] = ">"
  BY TwoChars
<1> HIDE DEF e, l, g, ne, le, ge
<1>4. t = e \/ t = ne \/ t = l \/ t = g \/ t = le \/ t = ge
  BY <1>1
<1>5. {"<", ">", "=", "!"} \subseteq Sign
  BY Signs, OthersAre DEF OtherSigns
<1> QED BY <1>2, <1>3, <1>4, <1>5

-----------------------------------------------------------------------------
(* The clauses WHERE and LIMIT as they are written, with a column that is  *)
(* read as c.                                                              *)
Unquoted(p) == p[1] \in Quotes => \A j \in 2 .. Len(p) - 1 : p[j] # p[1]
Condition(T, col, c, wh, look) ==
  /\ wh.active \in BOOLEAN
  /\ wh.active => /\ Fits(T, col, c) /\ wh.op \in {"=", "!=", "<", ">=", ">", "<="}
                  /\ wh.val \in Seq(T) /\ Unquoted(Literal(wh.val, look))

WhereText(col, wh, look) ==
  IF ~wh.active THEN <<>>
  ELSE <<Word("WHERE", look), col, Operator(wh.op, look), Literal(wh.val, look)>>
LimitText(limit, look) ==
  IF limit = -1 THEN <<>> ELSE <<Word("LIMIT", look), <<Numeral[limit]>>>>
Meant(c, wh) ==
  IF wh.active THEN [col |-> c, op |-> wh.op, val |-> wh.val, active |-> TRUE]
  ELSE [col |-> <<>>, op |-> "", val |-> <<>>, active |-> FALSE]

(* No piece is read as the word w.                                         *)
Without(ps, w) == \A i \in 1 .. Len(ps) : ~Reads(Tok(ps[i]), w)

(* The four pieces of a WHERE.                                             *)
LEMMA Four ==
  ASSUME NEW S, NEW x \in S, NEW y \in S, NEW z \in S, NEW w \in S
  PROVE  LET P == <<x, y, z, w>>
         IN  P \in Seq(S) /\ Len(P) = 4 /\ P[1] = x /\ P[2] = y /\ P[3] = z /\ P[4] = w
OBVIOUS

(* A clause left out.                                                      *)
LEMMA EmptyFlows ==
  ASSUME NEW T
  PROVE  Flows(T, <<>>) /\ Len(<<>>) = 0 /\ \A w : Without(<<>>, w)
<1>1. <<>> \in Seq(Good(T)) /\ Len(<<>>) = 0
  OBVIOUS
<1>2. \A i \in 1 .. 0 : FALSE
  OBVIOUS
<1>3. Flows(T, <<>>)
  BY <1>1, FlowsGood
<1> DEFINE e == <<>>
<1>4. Len(e) = 0
  BY <1>1
<1> HIDE DEF e
<1>5. \A w : Without(e, w)
  BY <1>2, <1>4 DEF Without
<1> QED BY <1>1, <1>3, <1>5 DEF e

WhereWritten(T, X, c, wh) ==
  /\ Flows(T, X) /\ Len(X) = 4 /\ Reads(Tok(X[1]), "WHERE") /\ Tok(X[2]) = c
  /\ op_of(Tok(X[3])) = wh.op /\ Tok(X[4]) = wh.val

(* What the pieces of WHERE are.                                           *)
LEMMA WhereIs ==
  ASSUME NEW T, Base(T), NEW col, NEW c, NEW wh, NEW look, IsLook(look),
         Condition(T, col, c, wh, look), wh.active
  PROVE  /\ WhereWritten(T, WhereText(col, wh, look), c, wh)
         /\ ~Reads(c, "JOIN") /\ ~Reads(wh.val, "JOIN") => Without(WhereText(col, wh, look), "JOIN")
<1> DEFINE p1 == Word("WHERE", look)
           p3 == Operator(wh.op, look)
           p4 == Literal(wh.val, look)
           X == WhereText(col, wh, look)
           S == Texts(T)
<1>1. X = <<p1, col, p3, p4>>
  BY DEF WhereText
<1>2. Fits(T, col, c) /\ wh.op \in {"=", "!=", "<", ">=", ">", "<="} /\ wh.val \in Seq(T)
      /\ (p4[1] \in Quotes => \A j \in 2 .. Len(p4) - 1 : p4[j] # p4[1])
  BY DEF Condition, Unquoted
<1>3. Fits(T, p1, p1) /\ Reads(p1, "WHERE")
  <2>1. "WHERE" \in Keyword
    BY DEF Keyword
  <2> QED BY <2>1, KeywordIs
<1>4. p3 \in Seq(T) /\ Piece(p3) /\ op_of(Tok(p3)) = wh.op
  BY <1>2, OperatorIs
<1>5. Fits(T, p4, wh.val) /\ p4[1] \notin {"=", ">"}
  BY <1>2, LiteralIs
<1> HIDE DEF p1, p3, p4, X, S
<1>6. /\ p1 \in S /\ Plain(p1) /\ Tok(p1) = p1 /\ col \in S /\ Plain(col) /\ Tok(col) = c
      /\ p3 \in S /\ p4 \in S /\ Plain(p4) /\ Tok(p4) = wh.val
  BY <1>2, <1>3, <1>4, <1>5 DEF S, Texts, Fits, Plain
<1>7. X \in Seq(S) /\ Len(X) = 4 /\ X[1] = p1 /\ X[2] = col /\ X[3] = p3 /\ X[4] = p4
  BY <1>1, <1>6, Four
<1>8. Flows(T, X)
  <2>1. ASSUME NEW i \in 1 .. 4
        PROVE  Plain(X[i]) \/ (i < 4 /\ X[i + 1][1] \notin {"=", ">"})
    <3>1. i = 1 \/ i = 2 \/ i = 3 \/ i = 4
      OBVIOUS
    <3>2. 3 + 1 = 4 /\ 3 < 4
      OBVIOUS
    <3> QED BY <1>5, <1>6, <1>7, <3>1, <3>2
  <2> QED BY <1>7, <2>1 DEF Flows, S
<1>9. WhereWritten(T, X, c, wh)
  BY <1>3, <1>4, <1>6, <1>7, <1>8 DEF WhereWritten
<1>10. ASSUME ~Reads(c, "JOIN"), ~Reads(wh.val, "JOIN") PROVE Without(X, "JOIN")
  <2>1. ~Reads(Tok(p1), "JOIN")
    <3>1. "WHERE" # "JOIN"
      OBVIOUS
    <3> QED BY <1>3, <1>6, <3>1, ReadsOne
  <2>2. ~Reads(Tok(p3), "JOIN")
    <3>1. op_of(Tok(p3)) # ""
      BY <1>2, <1>4
    <3>2. "JOIN" \in Keyword
      BY DEF Keyword
    <3> QED BY <3>1, <3>2, OperatorToken, NoKeyword
  <2>3. ASSUME NEW i \in 1 .. 4 PROVE ~Reads(Tok(X[i]), "JOIN")
    <3>1. i = 1 \/ i = 2 \/ i = 3 \/ i = 4
      OBVIOUS
    <3> QED BY <1>6, <1>7, <1>10, <2>1, <2>2, <3>1
  <2> QED BY <1>7, <2>3 DEF Without
<1> QED BY <1>9, <1>10 DEF X

LimitWritten(T, Y, limit) ==
  /\ Flows(T, Y) /\ Len(Y) = 2 /\ Reads(Tok(Y[1]), "LIMIT") /\ stoi(Tok(Y[2])) = limit

(* What the pieces of LIMIT are.                                           *)
LEMMA LimitIs ==
  ASSUME NEW T, Base(T), NEW limit \in DOMAIN Numeral, limit # -1, NEW look
  PROVE  LimitWritten(T, LimitText(limit, look), limit) /\ Without(LimitText(limit, look), "JOIN")
<1> DEFINE p1 == Word("LIMIT", look)
           p2 == <<Numeral[limit]>>
           Y == LimitText(limit, look)
           S == Good(T)
<1>1. Y = <<p1, p2>>
  BY DEF LimitText
<1>2. Fits(T, p1, p1) /\ Reads(p1, "LIMIT")
  <2>1. "LIMIT" \in Keyword
    BY DEF Keyword
  <2> QED BY <2>1, KeywordIs
<1>3. Fits(T, p2, p2) /\ stoi(p2) = limit /\ \A w \in Keyword \cup Sign : ~Reads(p2, w)
  BY NumeralIs
<1>4. "JOIN" \in Keyword /\ "LIMIT" # "JOIN"
  BY DEF Keyword
<1> HIDE DEF p1, p2, Y, S
<1>5. p1 \in S /\ Tok(p1) = p1 /\ p2 \in S /\ Tok(p2) = p2
  BY <1>2, <1>3, FitsGood DEF S
<1>6. Y \in Seq(S) /\ Len(Y) = 2 /\ Y[1] = p1 /\ Y[2] = p2
  BY <1>1, <1>5, OneTwoThree
<1>7. Flows(T, Y)
  BY <1>6, FlowsGood DEF S
<1>8. Without(Y, "JOIN")
  <2>1. \A i \in 1 .. 2 : i = 1 \/ i = 2
    OBVIOUS
  <2>2. ~Reads(Tok(p1), "JOIN") /\ ~Reads(Tok(p2), "JOIN")
    BY <1>2, <1>3, <1>4, <1>5, ReadsOne
  <2> QED BY <1>6, <2>1, <2>2 DEF Without
<1> QED BY <1>2, <1>3, <1>5, <1>6, <1>7, <1>8 DEF LimitWritten, Y

-----------------------------------------------------------------------------
(* What is read of the clauses.                                            *)
LEMMA WithoutBoth ==
  ASSUME NEW S, NEW s \in Seq(S), NEW t \in Seq(S), NEW w, Without(s, w), Without(t, w)
  PROVE  Without(s \o t, w)
<1> DEFINE u == s \o t
           l == Len(s)
           m == Len(t)
<1>1. /\ l \in Nat /\ m \in Nat /\ Len(u) = l + m
      /\ \A i \in 1 .. l + m : u[i] = IF i <= l THEN s[i] ELSE t[i - l]
  BY LenProperties, ConcatProperties
<1>2. (\A i \in 1 .. l : ~Reads(Tok(s[i]), w)) /\ \A i \in 1 .. m : ~Reads(Tok(t[i]), w)
  BY DEF Without
<1> HIDE DEF u, l, m
<1>3. ASSUME NEW i \in 1 .. l + m PROVE ~Reads(Tok(u[i]), w)
  <2>1. CASE i <= l
    <3>1. i \in 1 .. l /\ u[i] = s[i]
      BY <1>1, <2>1
    <3> QED BY <1>2, <3>1
  <2>2. CASE i > l
    <3> DEFINE j == i - l
    <3>1. j \in 1 .. m /\ u[i] = t[j]
      BY <1>1, <2>2
    <3> HIDE DEF j
    <3> QED BY <1>2, <3>1
  <2> QED BY <1>1, <2>1, <2>2
<1>4. Without(u, w)
  BY <1>1, <1>3 DEF Without
<1> QED BY <1>4 DEF u

(* Tokens one by one.                                                      *)
ReadAs(toks, a, part, l) ==
  /\ a \in Nat \ {0} /\ Len(toks) \in Nat /\ a + l <= Len(toks) + 1
  /\ \A i \in 0 .. l - 1 : a + i <= Len(toks) /\ toks[a + i] = Tok(part[i + 1])

(* The tokens of a part, counted from where it starts.                     *)
LEMMA TokenIs ==
  ASSUME NEW toks, NEW all, TokensOf(toks, all), NEW a, NEW part, NEW l \in Nat, Len(part) = l,
         At(all, a, part)
  PROVE  ReadAs(toks, a, part, l) /\ Len(toks) = Len(all)
<1> DEFINE n == Len(toks)
<1>1. a \in Nat \ {0} /\ n \in Nat /\ n = Len(all) /\ a + l <= n + 1 /\ l \in Nat
  BY DEF TokensOf, At
<1>2. (\A i \in 1 .. l : all[a + i - 1] = part[i]) /\ \A i \in 1 .. n : toks[i] = Tok(all[i])
  BY <1>1 DEF TokensOf, At
<1> HIDE DEF n
<1>3. ASSUME NEW i \in 0 .. l - 1 PROVE a + i <= n /\ toks[a + i] = Tok(part[i + 1])
  <2> DEFINE j == i + 1
             k == a + i
  <2>1. j \in 1 .. l /\ k \in 1 .. n /\ a + j - 1 = k /\ k <= n
    BY ONLY <1>1
  <2> HIDE DEF j, k
  <2>2. all[a + j - 1] = part[j] /\ toks[k] = Tok(all[k])
    BY <1>2, <2>1
  <2>3. toks[k] = Tok(part[j])
    BY <2>1, <2>2
  <2> QED BY <2>1, <2>3 DEF j, k
<1> QED BY <1>1, <1>3 DEF n, ReadAs

(* WHERE is read back.                                                     *)
LEMMA WhereRead ==
  ASSUME NEW T, NEW X, NEW c, NEW wh, WhereWritten(T, X, c, wh), wh.active = TRUE,
         NEW toks, NEW all, TokensOf(toks, all), NEW a, At(all, a, X)
  PROVE  where_at(toks, a) = Meant(c, wh) /\ after_where(toks, a) = a + 4
<1>1. /\ Len(X) = 4 /\ Reads(Tok(X[1]), "WHERE") /\ Tok(X[2]) = c
      /\ op_of(Tok(X[3])) = wh.op /\ Tok(X[4]) = wh.val
  BY DEF WhereWritten
<1>2. /\ a \in Nat \ {0} /\ Len(toks) \in Nat
      /\ \A i \in 0 .. 3 : a + i <= Len(toks) /\ toks[a + i] = Tok(X[i + 1])
  <2>1. Len(X) = 4 /\ 4 \in Nat /\ TokensOf(toks, all) /\ At(all, a, X)
    BY <1>1
  <2>2. ReadAs(toks, a, X, 4)
    BY ONLY <2>1, TokenIs
  <2> QED BY ONLY <2>2 DEF ReadAs
<1>3. a <= Len(toks) /\ toks[a] = Tok(X[1]) /\ toks[a + 1] = Tok(X[2]) /\ toks[a + 2] = Tok(X[3])
      /\ toks[a + 3] = Tok(X[4])
  <2>1. 0 \in 0 .. 3 /\ 1 \in 0 .. 3 /\ 2 \in 0 .. 3 /\ 3 \in 0 .. 3 /\ 0 + 1 = 1 /\ 1 + 1 = 2
        /\ 2 + 1 = 3 /\ 3 + 1 = 4
    OBVIOUS
  <2>2. a + 0 = a
    BY ONLY <1>2
  <2>3. a + 0 <= Len(toks) /\ toks[a + 0] = Tok(X[0 + 1]) /\ toks[a + 1] = Tok(X[1 + 1])
        /\ toks[a + 2] = Tok(X[2 + 1]) /\ toks[a + 3] = Tok(X[3 + 1])
    BY <1>2, <2>1
  <2> QED BY <2>1, <2>2, <2>3
<1>4. Is(toks, a, "WHERE")
  BY <1>1, <1>3 DEF Is, Reads
<1>5. where_at(toks, a)
        = [col |-> toks[a + 1], op |-> op_of(toks[a + 2]), val |-> toks[a + 3], active |-> TRUE]
  BY <1>4 DEF where_at
<1>6. Meant(c, wh) = [col |-> c, op |-> wh.op, val |-> wh.val, active |-> TRUE]
  BY DEF Meant
<1>7. toks[a + 1] = c /\ op_of(toks[a + 2]) = wh.op /\ toks[a + 3] = wh.val
  BY <1>1, <1>3
<1>8. where_at(toks, a) = Meant(c, wh)
  BY ONLY <1>5, <1>6, <1>7
<1> QED BY <1>4, <1>8 DEF after_where

(* Where no WHERE stands none is read.                                     *)
LEMMA NoWhere ==
  ASSUME NEW toks, NEW a, ~Is(toks, a, "WHERE"), NEW wh, wh.active = FALSE, NEW c
  PROVE  where_at(toks, a) = Meant(c, wh) /\ after_where(toks, a) = a
BY DEF where_at, Meant, after_where

(* LIMIT is read back.                                                     *)
LEMMA LimitRead ==
  ASSUME NEW T, NEW Y, NEW limit, LimitWritten(T, Y, limit),
         NEW toks, NEW all, TokensOf(toks, all), NEW a, At(all, a, Y)
  PROVE  limit_at(toks, a) = limit /\ ~Is(toks, a, "WHERE")
<1>1. Len(Y) = 2 /\ Reads(Tok(Y[1]), "LIMIT") /\ stoi(Tok(Y[2])) = limit
  BY DEF LimitWritten
<1>2. /\ a \in Nat \ {0} /\ Len(toks) \in Nat
      /\ \A i \in 0 .. 1 : a + i <= Len(toks) /\ toks[a + i] = Tok(Y[i + 1])
  <2>1. Len(Y) = 2 /\ 2 \in Nat /\ TokensOf(toks, all) /\ At(all, a, Y)
    BY <1>1
  <2>2. ReadAs(toks, a, Y, 2)
    BY ONLY <2>1, TokenIs
  <2> QED BY ONLY <2>2 DEF ReadAs
<1>3. a <= Len(toks) /\ toks[a] = Tok(Y[1]) /\ toks[a + 1] = Tok(Y[2])
  <2>1. 0 \in 0 .. 1 /\ 1 \in 0 .. 1 /\ 0 + 1 = 1 /\ 1 + 1 = 2
    OBVIOUS
  <2>2. a + 0 = a
    BY ONLY <1>2
  <2>3. a + 0 <= Len(toks) /\ toks[a + 0] = Tok(Y[0 + 1]) /\ toks[a + 1] = Tok(Y[1 + 1])
    BY <1>2, <2>1
  <2> QED BY <2>1, <2>2, <2>3
<1>4. Is(toks, a, "LIMIT")
  BY <1>1, <1>3 DEF Is, Reads
<1>5. ~Is(toks, a, "WHERE")
  <2>1. "LIMIT" # "WHERE"
    OBVIOUS
  <2> QED BY <1>1, <1>3, <2>1, ReadsOne, IsReads
<1> QED BY <1>1, <1>3, <1>4, <1>5 DEF limit_at

(* At the end of the statement no LIMIT is read.                           *)
LEMMA NoLimit ==
  ASSUME NEW toks, Len(toks) \in Nat, NEW a, a = Len(toks) + 1
  PROVE  limit_at(toks, a) = -1 /\ \A w : ~Is(toks, a, w)
<1>1. \A w : ~Is(toks, a, w)
  <2>1. ~(a <= Len(toks))
    OBVIOUS
  <2> QED BY <2>1 DEF Is
<1> QED BY <1>1 DEF limit_at

-----------------------------------------------------------------------------
(* Both clauses, at the end of a statement.                                *)
Clauses(T, col, c, q, look) ==
  /\ Base(T) /\ IsLook(look) /\ Condition(T, col, c, q.where, look)
  /\ q.limit = -1 \/ (q.limit \in DOMAIN Numeral /\ q.limit # -1)
EndsWith(toks, all, a, W) == TokensOf(toks, all) /\ At(all, a, W) /\ a + Len(W) = Len(all) + 1
ClausesMeant(toks, a, c, q) ==
  where_at(toks, a) = Meant(c, q.where) /\ limit_at(toks, after_where(toks, a)) = q.limit

(* The clauses at the end of a statement: WHERE, LIMIT, both or none.      *)
LEMMA ClausesParts ==
  ASSUME NEW T, NEW col, NEW c, NEW q, NEW look, Clauses(T, col, c, q, look)
  PROVE  /\ WhereLimit(col, q, look) = WhereText(col, q.where, look) \o LimitText(q.limit, look)
         /\ \/ q.where.active = TRUE /\ WhereWritten(T, WhereText(col, q.where, look), c, q.where)
            \/ q.where.active = FALSE /\ WhereText(col, q.where, look) = <<>>
         /\ \/ q.limit # -1 /\ LimitWritten(T, LimitText(q.limit, look), q.limit)
            \/ q.limit = -1 /\ LimitText(q.limit, look) = <<>>
<1>1. WhereLimit(col, q, look) = WhereText(col, q.where, look) \o LimitText(q.limit, look)
  BY DEF WhereLimit, WhereText, LimitText
<1>2. q.where.active \in BOOLEAN
  BY DEF Clauses, Condition
<1>7. \/ q.where.active = TRUE /\ WhereWritten(T, WhereText(col, q.where, look), c, q.where)
      \/ q.where.active = FALSE /\ WhereText(col, q.where, look) = <<>>
  <2>1. CASE q.where.active = TRUE
    <3>1. WhereWritten(T, WhereText(col, q.where, look), c, q.where)
      BY <2>1, WhereIs DEF Clauses
    <3> QED BY <2>1, <3>1
  <2>2. CASE q.where.active = FALSE
    BY <2>2 DEF WhereText
  <2> QED BY <1>2, <2>1, <2>2
<1>8. \/ q.limit # -1 /\ LimitWritten(T, LimitText(q.limit, look), q.limit)
      \/ q.limit = -1 /\ LimitText(q.limit, look) = <<>>
  <2>1. CASE q.limit # -1
    BY <2>1, LimitIs DEF Clauses
  <2>2. CASE q.limit = -1
    BY <2>2 DEF LimitText
  <2> QED BY <2>1, <2>2
<1> QED BY <1>1, <1>7, <1>8

(* They can stand next to each other, and hold no JOIN.                    *)
LEMMA ClausesFlow ==
  ASSUME NEW T, NEW col, NEW c, NEW q, NEW look, Clauses(T, col, c, q, look)
  PROVE  LET W == WhereLimit(col, q, look)
         IN  /\ Flows(T, W) /\ Len(W) \in Nat
             /\ (q.where.active => ~Reads(c, "JOIN") /\ ~Reads(q.where.val, "JOIN"))
                 => Without(W, "JOIN")
<1> DEFINE W == WhereLimit(col, q, look)
           X == WhereText(col, q.where, look)
           Y == LimitText(q.limit, look)
<1>1. /\ W = X \o Y
      /\ \/ q.where.active = TRUE /\ WhereWritten(T, X, c, q.where)
         \/ q.where.active = FALSE /\ X = <<>>
      /\ \/ q.limit # -1 /\ LimitWritten(T, Y, q.limit)
         \/ q.limit = -1 /\ Y = <<>>
  BY ClausesParts
<1>2. ASSUME q.where.active => ~Reads(c, "JOIN") /\ ~Reads(q.where.val, "JOIN")
    PROVE Without(X, "JOIN")
  <2>1. CASE q.where.active = TRUE
    BY <1>2, <2>1, WhereIs DEF Clauses
  <2>2. CASE X = <<>>
    <3> HIDE DEF X
    <3> QED BY <2>2, EmptyFlows
  <2> QED BY <1>1, <2>1, <2>2
<1>3. Without(Y, "JOIN")
  <2>1. CASE q.limit # -1
    BY <2>1, LimitIs DEF Clauses
  <2>2. CASE Y = <<>>
    <3> HIDE DEF Y
    <3> QED BY <2>2, EmptyFlows
  <2> QED BY <1>1, <2>1, <2>2
<1> HIDE DEF W, X, Y
<1>4. Flows(T, X) /\ Flows(T, Y)
  BY <1>1, EmptyFlows DEF WhereWritten, LimitWritten
<1>5. X \in Seq(Texts(T)) /\ Y \in Seq(Texts(T)) /\ Flows(T, W)
  BY <1>1, <1>4, FlowsBoth DEF Flows
<1>6. Len(W) \in Nat
  BY <1>5, LenProperties DEF Flows
<1>7. (q.where.active => ~Reads(c, "JOIN") /\ ~Reads(q.where.val, "JOIN")) => Without(W, "JOIN")
  BY <1>1, <1>2, <1>3, <1>5, WithoutBoth
<1> QED BY <1>5, <1>6, <1>7 DEF W

(* They are read back.                                                     *)
LEMMA ClausesRead ==
  ASSUME NEW T, NEW col, NEW c, NEW q, NEW look, Clauses(T, col, c, q, look),
         NEW toks, NEW all, NEW a, EndsWith(toks, all, a, WhereLimit(col, q, look))
  PROVE  ClausesMeant(toks, a, c, q)
<1> DEFINE W == WhereLimit(col, q, look)
           X == WhereText(col, q.where, look)
           Y == LimitText(q.limit, look)
           S == Texts(T)
<1>1. /\ W = X \o Y
      /\ \/ q.where.active = TRUE /\ WhereWritten(T, X, c, q.where)
         \/ q.where.active = FALSE /\ X = <<>>
      /\ \/ q.limit # -1 /\ LimitWritten(T, Y, q.limit)
         \/ q.limit = -1 /\ Y = <<>>
  BY ClausesParts
<1>2. TokensOf(toks, all) /\ At(all, a, W) /\ a + Len(W) = Len(all) + 1
  BY DEF EndsWith
<1> HIDE DEF W, X, Y, S
<1>3. X \in Seq(S) /\ Y \in Seq(S)
  BY <1>1, EmptyFlows DEF WhereWritten, LimitWritten, Flows, S
<1> DEFINE l == Len(X)
           m == Len(Y)
           n == Len(toks)
<1>4. l \in Nat /\ m \in Nat /\ Len(W) = l + m /\ n \in Nat /\ Len(all) = n /\ a \in Nat \ {0}
  BY <1>1, <1>2, <1>3, LenProperties, ConcatProperties DEF TokensOf, At
<1>5. At(all, a, X) /\ At(all, a + l, Y) /\ a + (l + m) = n + 1
  BY <1>1, <1>2, <1>3, <1>4, AtConcat
<1>6. l = IF q.where.active = TRUE THEN 4 ELSE 0
  BY <1>1, EmptyFlows DEF WhereWritten
<1>7. m = IF q.limit # -1 THEN 2 ELSE 0
  BY <1>1, EmptyFlows DEF LimitWritten
<1>8. limit_at(toks, a + l) = q.limit /\ ~Is(toks, a + l, "WHERE")
  <2> DEFINE b == a + l
  <2>1. At(all, b, Y)
    BY <1>5
  <2>2. CASE q.limit # -1
    <3>1. LimitWritten(T, Y, q.limit)
      BY <1>1, <2>2
    <3> HIDE DEF b
    <3>2. limit_at(toks, b) = q.limit /\ ~Is(toks, b, "WHERE")
      BY <1>2, <2>1, <3>1, LimitRead
    <3> QED BY <3>2 DEF b
  <2>3. CASE q.limit = -1
    <3>1. b = n + 1
      BY <1>4, <1>5, <1>7, <2>3
    <3> HIDE DEF b
    <3>2. limit_at(toks, b) = -1 /\ ~Is(toks, b, "WHERE")
      BY <1>4, <3>1, NoLimit
    <3> QED BY <2>3, <3>2 DEF b
  <2> QED BY <2>2, <2>3
<1>9. CASE q.where.active = TRUE
  <2>1. where_at(toks, a) = Meant(c, q.where) /\ after_where(toks, a) = a + 4
    <3>1. /\ WhereWritten(T, X, c, q.where) /\ q.where.active = TRUE
          /\ TokensOf(toks, all) /\ At(all, a, X)
      BY <1>1, <1>2, <1>5, <1>9
    <3> DEFINE wh == q.where
    <3>2. WhereWritten(T, X, c, wh) /\ wh.active = TRUE /\ TokensOf(toks, all) /\ At(all, a, X)
      BY <3>1
    <3> HIDE DEF wh
    <3>3. where_at(toks, a) = Meant(c, wh) /\ after_where(toks, a) = a + 4
      BY ONLY <3>2, WhereRead
    <3> QED BY <3>3 DEF wh
  <2>2. l = 4
    BY <1>6, <1>9
  <2> HIDE DEF l
  <2> QED BY <1>8, <2>1, <2>2 DEF ClausesMeant
<1>10. CASE q.where.active = FALSE
  <2>1. a + l = a
    <3>1. l = 0
      BY <1>6, <1>10
    <3> QED BY <1>4, <3>1
  <2>2. ~Is(toks, a, "WHERE") /\ limit_at(toks, a) = q.limit
    BY <1>8, <2>1
  <2>3. where_at(toks, a) = Meant(c, q.where) /\ after_where(toks, a) = a
    BY <1>10, <2>2, NoWhere
  <2> QED BY <2>2, <2>3 DEF ClausesMeant
<1> QED BY <1>1, <1>9, <1>10

-----------------------------------------------------------------------------
(* The executor that the first word chooses.                               *)
Chosen(toks, w) ==
  IF w = "CREATE" THEN exec_create(toks)
  ELSE IF w = "INSERT" THEN exec_insert(toks)
  ELSE IF w = "DELETE" THEN exec_delete(toks)
  ELSE IF \E i \in DOMAIN toks : Is(toks, i, "JOIN") THEN exec_join(toks) ELSE exec_select(toks)
ExecOf(sql) ==
  LET word == to_upper(SubSeq(sql, 1, 1))
      toks == tokenize(sql)
  IN  IF sql = <<>> THEN [kind |-> "none"]
      ELSE CASE word = <<"CREATE">> -> exec_create(toks)
             [] word = <<"INSERT">> -> exec_insert(toks)
             [] word = <<"DELETE">> -> exec_delete(toks)
             [] word = <<"SELECT">> -> IF \E i \in DOMAIN toks : Is(toks, i, "JOIN")
                                       THEN exec_join(toks) ELSE exec_select(toks)
             [] OTHER -> Failed
FirstWord == {"CREATE", "INSERT", "DELETE", "SELECT"}

(* exec trims its text, then takes the parser its first word names.        *)
LEMMA ExecIs ==
  ASSUME NEW raw
  PROVE  exec(raw) = ExecOf(TextOf(raw))
BY Zenon DEF exec, ExecOf, TextOf, Stop

(* The first word of a statement chooses its parser.                       *)
LEMMA Dispatch ==
  ASSUME NEW sql, sql # <<>>, NEW w \in FirstWord, to_upper(SubSeq(sql, 1, 1)) = <<w>>
  PROVE  ExecOf(sql) = Chosen(tokenize(sql), w)
<1> DEFINE word == to_upper(SubSeq(sql, 1, 1))
           toks == tokenize(sql)
           c == <<"CREATE">>
           i == <<"INSERT">>
           d == <<"DELETE">>
           s == <<"SELECT">>
           sel == IF \E k \in DOMAIN toks :
               Is(toks, k, "JOIN") THEN exec_join(toks) ELSE exec_select(toks)
           cre == exec_create(toks)
           ins == exec_insert(toks)
           del == exec_delete(toks)
<1>1. ExecOf(sql) = CASE word = c -> cre [] word = i -> ins [] word = d -> del [] word = s -> sel
                      [] OTHER -> Failed
  BY Zenon DEF ExecOf
<1>2. c[1] = "CREATE" /\ i[1] = "INSERT" /\ d[1] = "DELETE" /\ s[1] = "SELECT" /\ <<w>>[1] = w
  BY OneChar
<1>3. word = <<w>> /\ (w = "CREATE" => word = c) /\ (w = "INSERT" => word = i)
      /\ (w = "DELETE" => word = d) /\ (w = "SELECT" => word = s)
  OBVIOUS
<1>4. Chosen(toks, w) = IF w = "CREATE" THEN cre ELSE IF w = "INSERT" THEN ins
                        ELSE IF w = "DELETE" THEN del ELSE sel
  BY Zenon DEF Chosen
<1> HIDE DEF word, toks, c, i, d, s, sel, cre, ins, del
<1>5. word[1] = w
  BY <1>2, <1>3
<1>6. (word = c <=> w = "CREATE") /\ (word = i <=> w = "INSERT") /\ (word = d <=> w = "DELETE")
      /\ (word = s <=> w = "SELECT")
  BY <1>2, <1>3, <1>5
<1>7. w = "CREATE" \/ w = "INSERT" \/ w = "DELETE" \/ w = "SELECT"
  BY DEF FirstWord
<1>8. ExecOf(sql) = Chosen(toks, w)
  BY <1>1, <1>4, <1>6, <1>7
<1> QED BY <1>8 DEF toks

Gives(all, w, s) == \A toks : TokensOf(toks, all) => Chosen(toks, w) = s

(* Pieces whose tokens the chosen parser reads as a statement mean that    *)
(* statement.                                                              *)
LEMMA MeansOf ==
  ASSUME NEW T, NEW all, Flows(T, all), Len(all) >= 1, Len(all[1]) = 1, NEW w \in FirstWord,
         Reads(all[1], w), NEW s, Gives(all, w, s)
  PROVE  Means(T, all, Len(all), s)
<1> DEFINE n == Len(all)
<1>1. all \in Seq(Seq(T)) /\ Readable(T, all, n) /\ n \in Nat
  BY FlowsIs, LenProperties
<1>2. n >= 1 /\ \A i \in 1 .. n : all[i] \in Seq(T) /\ Piece(all[i])
  BY <1>1 DEF Readable
<1>3. ASSUME NEW raw, NEW b, TextOf(raw) \in Seq(T), LaidOut(TextOf(raw), all, n, b)
      PROVE  exec(raw) = s
  <2> DEFINE sql == TextOf(raw)
             toks == tokenize(sql)
  <2>1. sql \in Seq(T) /\ LaidOut(sql, all, n, b)
    BY <1>3
  <2> HIDE DEF sql, n
  <2>2. toks = [i \in 1 .. n |-> Tok(all[i])]
    BY <1>1, <1>2, <2>1, TokensAre
  <2> HIDE DEF toks
  <2>3. TokensOf(toks, all)
    <3> DEFINE V == {Tok(all[i]) : i \in 1 .. n}
    <3>1. \A i \in 1 .. n : Tok(all[i]) \in V
      OBVIOUS
    <3> HIDE DEF V
    <3>2. toks \in Seq(V)
      BY <1>1, <2>2, <3>1, IsASeq
    <3>3. DOMAIN toks = 1 .. n
      BY <2>2
    <3>4. Len(toks) = n
      BY <1>1, <3>2, <3>3, LenProperties
    <3> QED BY <1>1, <2>2, <3>3, <3>4 DEF TokensOf, n
  <2>4. Chosen(toks, w) = s
    BY <2>3 DEF Gives
  <2>5. At(sql, 1, all[1])
    <3>1. 1 \in 1 .. n
      BY <1>1, <1>2
    <3> QED BY <2>1, <3>1 DEF LaidOut
  <2>6. SubSeq(sql, 1, 1) = all[1] /\ sql # <<>>
    <3>1. all[1] \in Seq(T)
      BY <1>1, <1>2
    <3>2. SubSeq(sql, 1, 1 + Len(all[1]) - 1) = all[1]
      BY <2>1, <2>5, <3>1, PartIs
    <3>3. 1 + 1 <= Len(sql) + 1
      BY <2>5 DEF At
    <3>4. sql # <<>>
      BY <2>1, <3>3, LenProperties, EmptySeq
    <3> QED BY <3>2, <3>4
  <2>7. to_upper(SubSeq(sql, 1, 1)) = <<w>>
    BY <2>6 DEF Reads
  <2>8. ExecOf(sql) = Chosen(toks, w)
    BY <2>6, <2>7, Dispatch DEF toks
  <2> QED BY <2>4, <2>8, ExecIs DEF sql
<1> QED BY <1>3 DEF Means

(* A statement that is read back from its pieces is, in every look that    *)
(* suits it.                                                               *)
SuitsPieces(look, all) ==
  /\ look.cut <= Len(all)
  /\ \A i \in 1 .. look.cut : \A j \in DOMAIN all[i] : all[i][j] # Stop

(* A look suits a statement if it suits the pieces of it.                  *)
LEMMA SuitsIs ==
  ASSUME NEW look, NEW s, Suits(look, s)
  PROVE  SuitsPieces(look, Pieces(s, look))
BY Zenon DEF Suits, SuitsPieces, Stop

Written(T, look, s, w) ==
  LET all == Pieces(s, look)
  IN  Flows(T, all) /\ Len(all) >= 1 /\ Len(all[1]) = 1 /\ Reads(all[1], w) /\ Gives(all, w, s)

(* A statement so written, broken into lines as any look breaks it, is     *)
(* executed as what it means.                                              *)
LEMMA WrittenIsTyped ==
  ASSUME NEW T, Base(T), NEW look, IsLook(look), NEW s, Suits(look, s), NEW w \in FirstWord,
         Written(T, look, s, w)
  PROVE  Typed(<<>>, Lines(s, look), s)
<1> DEFINE all == Pieces(s, look)
           n == Len(all)
<1>1. Flows(T, all) /\ n >= 1 /\ Len(all[1]) = 1 /\ Reads(all[1], w) /\ Gives(all, w, s)
  BY DEF Written
<1>2. SuitsPieces(look, all)
  BY SuitsIs
<1>3. Space \in T /\ Stop \in T
  <2>1. Space \in Sign /\ Stop \in Sign
    BY Signs
  <2> QED BY <2>1 DEF Base
<1> HIDE DEF all
<1>4. Means(T, all, n, s)
  BY <1>1, MeansOf
<1>5. all \in Seq(Seq(T)) /\ Readable(T, all, n) /\ Closed(all[n])
  BY <1>1, FlowsIs
<1>6. look.cut <= n /\ \A i \in 1 .. look.cut : \A j \in DOMAIN all[i] : all[i][j] # Stop
  BY <1>2 DEF SuitsPieces
<1> HIDE DEF n
<1>7. Typed(<<>>, Lines(s, look), s)
  BY <1>1, <1>3, <1>4, <1>5, <1>6, TypedOf DEF all, n
<1> QED BY <1>7

-----------------------------------------------------------------------------
(* A literal without its quote inside.                                     *)
LEMMA LiteralUnquoted ==
  ASSUME NEW T, Base(T), NEW v \in Seq(T), NEW look, IsLook(look),
         \A i \in DOMAIN v : v[i] # look.quote
  PROVE  Unquoted(Literal(v, look))
<1> DEFINE p == Literal(v, look)
           c == look.quote
<1>1. c \in Quotes
  BY DEF IsLook
<1>2. CASE Len(v) = 1 /\ v[1] \in DOMAIN Number
  <2>1. p = v
    BY <1>2 DEF Literal
  <2>2. v[1] \notin Quotes
    BY <1>2, Characters, Signs
  <2> HIDE DEF p
  <2>3. Unquoted(p)
    BY <2>1, <2>2 DEF Unquoted
  <2> QED BY <2>3 DEF p
<1>3. CASE ~(Len(v) = 1 /\ v[1] \in DOMAIN Number)
  <2>1. p = <<c>> \o v \o <<c>>
    BY <1>3 DEF Literal
  <2>2. c \in T
    BY <1>1, Signs DEF Base
  <2> HIDE DEF p, c
  <2>3. /\ p \in Seq(T) /\ Len(v) \in Nat /\ Len(p) = Len(v) + 2 /\ p[1] = c
        /\ SubSeq(p, 2, Len(p) - 1) = v
    BY <2>1, <2>2, Enclosed
  <2> DEFINE l == Len(v)
  <2>4. ASSUME NEW j \in 2 .. Len(p) - 1 PROVE p[j] # c
    <3> DEFINE i == j - 1
    <3>1. l \in Nat /\ Len(p) = l + 2 /\ DOMAIN v = 1 .. l
      BY <2>3, LenProperties
    <3> HIDE DEF l
    <3>2. i \in 1 .. l /\ 2 + i - 1 = j /\ 2 \in 1 .. l + 2 + 1
      BY <3>1
    <3>3. SubSeq(p, 2, Len(p) - 1)[i] = p[2 + i - 1]
      <4>1. i \in 1 .. (Len(p) - 1) - 2 + 1
        BY <3>1, <3>2
      <4> QED BY <2>3, <4>1, SubSeqProperties
    <3>4. v[i] = p[j]
      BY <2>3, <3>2, <3>3
    <3> QED BY <3>1, <3>2, <3>4 DEF c
  <2>5. Unquoted(p)
    BY <2>3, <2>4 DEF Unquoted
  <2> QED BY <2>5 DEF p
<1> QED BY <1>2, <1>3

(* A text in two parts.                                                    *)
LEMMA Halves ==
  ASSUME NEW S, NEW s \in Seq(S), NEW t \in Seq(S)
  PROVE  /\ s \o t \in Seq(S) /\ Len(s \o t) = Len(s) + Len(t) /\ Len(s) \in Nat /\ Len(t) \in Nat
         /\ At(s \o t, 1, s) /\ At(s \o t, Len(s) + 1, t)
<1> DEFINE u == s \o t
<1>1. u \in Seq(S) /\ Len(u) = Len(s) + Len(t) /\ Len(s) \in Nat /\ Len(t) \in Nat
  BY ConcatProperties, LenProperties
<1>2. At(u, 1, u)
  <2>1. 1 \in Nat \ {0} /\ 1 + Len(u) <= Len(u) + 1
    BY <1>1
  <2>2. \A i \in 1 .. Len(u) : 1 + i - 1 = i
    OBVIOUS
  <2> HIDE DEF u
  <2> QED BY <2>1, <2>2 DEF At
<1>3. Len(u) \in Nat
  BY <1>1
<1>4. At(u, 1, s) /\ At(u, 1 + Len(s), t)
  <2> HIDE DEF u
  <2>1. At(u, 1, s \o t)
    BY <1>2 DEF u
  <2> QED BY <1>3, <2>1, AtConcat
<1>5. 1 + Len(s) = Len(s) + 1
  BY <1>1
<1> QED BY <1>1, <1>4, <1>5

(* A statement begins with words.                                          *)
LEMMA Words ==
  ASSUME NEW T, Base(T), NEW v \in Keyword, NEW w \in Keyword, NEW t \in Seq(T), IsWord(t), NEW look
  PROVE  LET P == <<Word(v, look), Word(w, look), t>>
         IN  /\ P \in Seq(Good(T)) /\ Len(P) = 3 /\ Len(P[1]) = 1 /\ Reads(P[1], v)
             /\ Reads(Tok(P[1]), v) /\ Reads(Tok(P[2]), w) /\ Tok(P[3]) = t
<1> DEFINE p == Word(v, look)
           q == Word(w, look)
           P == <<p, q, t>>
<1>1. Fits(T, p, p) /\ Reads(p, v) /\ Len(p) = 1
  BY KeywordIs
<1>2. Fits(T, q, q) /\ Reads(q, w)
  BY KeywordIs
<1>3. Fits(T, t, t)
  BY WordIs
<1> HIDE DEF p, q
<1>4. /\ p \in Good(T) /\ Tok(p) = p /\ q \in Good(T) /\ Tok(q) = q
      /\ t \in Good(T) /\ Tok(t) = t
  BY <1>1, <1>2, <1>3, FitsGood
<1>5. P \in Seq(Good(T)) /\ Len(P) = 3 /\ P[1] = p /\ P[2] = q /\ P[3] = t
  BY <1>4, OneTwoThree
<1> HIDE DEF P
<1>6. /\ P \in Seq(Good(T)) /\ Len(P) = 3 /\ Len(P[1]) = 1 /\ Reads(P[1], v)
      /\ Reads(Tok(P[1]), v) /\ Reads(Tok(P[2]), w) /\ Tok(P[3]) = t
  BY <1>1, <1>2, <1>4, <1>5
<1> QED BY <1>6 DEF P, p, q

(* Tokens at known places.                                                 *)
LEMMA ThreeRead ==
  ASSUME NEW toks, NEW a, NEW P, ReadAs(toks, a, P, 3)
  PROVE  /\ a \in Nat \ {0} /\ Len(toks) \in Nat /\ a + 2 <= Len(toks)
         /\ a <= Len(toks) /\ a + 1 <= Len(toks)
         /\ toks[a] = Tok(P[1]) /\ toks[a + 1] = Tok(P[2]) /\ toks[a + 2] = Tok(P[3])
<1>1. /\ a \in Nat \ {0} /\ Len(toks) \in Nat
      /\ \A i \in 0 .. 2 : a + i <= Len(toks) /\ toks[a + i] = Tok(P[i + 1])
  BY DEF ReadAs
<1>2. 0 \in 0 .. 2 /\ 1 \in 0 .. 2 /\ 2 \in 0 .. 2 /\ 0 + 1 = 1 /\ 1 + 1 = 2 /\ 2 + 1 = 3
  OBVIOUS
<1>3. a + 0 <= Len(toks) /\ a + 1 <= Len(toks) /\ a + 2 <= Len(toks)
      /\ toks[a + 0] = Tok(P[0 + 1]) /\ toks[a + 1] = Tok(P[1 + 1]) /\ toks[a + 2] = Tok(P[2 + 1])
  BY <1>1, <1>2
<1>4. a + 0 = a
  BY ONLY <1>1
<1> QED BY <1>1, <1>2, <1>3, <1>4

-----------------------------------------------------------------------------
(* DELETE.                                                                 *)
Deleting(T, q, look) ==
  /\ q = [table |-> q.table, where |-> q.where] /\ q.table \in Seq(T) /\ IsWord(q.table)
  /\ Clauses(T, q.where.col, q.where.col, [where |-> q.where, limit |-> -1], look)
  /\ Meant(q.where.col, q.where) = q.where

(* DELETE is read back.                                                    *)
LEMMA DeleteWritten ==
  ASSUME NEW T, NEW q, NEW look, Deleting(T, q, look)
  PROVE  Written(T, look, Parsed("delete", q), "DELETE")
<1> DEFINE s == Parsed("delete", q)
           all == Pieces(s, look)
           z == [where |-> q.where, limit |-> -1]
           t == q.table
           A == <<Word("DELETE", look), Word("FROM", look), t>>
           W == WhereLimit(q.where.col, z, look)
           S == Texts(T)
<1>1. /\ t \in Seq(T) /\ IsWord(t) /\ Clauses(T, q.where.col, q.where.col, z, look)
      /\ q = [table |-> t, where |-> q.where] /\ Meant(q.where.col, q.where) = q.where
      /\ Base(T) /\ z.where = q.where
  BY DEF Deleting, Clauses
<1>2. all = A \o W
  <2>1. s.kind = "delete" /\ s.stmt = q
    BY DEF Parsed
  <2> HIDE DEF s
  <2>2. Pieces(s, look) = DeletePieces(s.stmt, look)
    BY <2>1 DEF Pieces
  <2> QED BY <2>1, <2>2 DEF DeletePieces
<1>3. /\ A \in Seq(Good(T)) /\ Len(A) = 3 /\ Len(A[1]) = 1 /\ Reads(A[1], "DELETE")
      /\ Reads(Tok(A[1]), "DELETE") /\ Reads(Tok(A[2]), "FROM") /\ Tok(A[3]) = t
  <2>1. "DELETE" \in Keyword /\ "FROM" \in Keyword
    BY DEF Keyword
  <2> QED BY <1>1, <2>1, Words
<1> HIDE DEF A, z, t
<1>4. Flows(T, W) /\ Len(W) \in Nat
  BY <1>1, ClausesFlow
<1> HIDE DEF W, all, S
<1>5. Flows(T, A) /\ Flows(T, all) /\ A \in Seq(S) /\ W \in Seq(S)
  <2>1. Flows(T, A)
    BY <1>3, FlowsGood
  <2> QED BY <1>2, <1>4, <2>1, FlowsBoth DEF Flows, S
<1>6. Len(all) = 3 + Len(W) /\ At(all, 1, A) /\ At(all, 4, W)
  <2>1. /\ Len(A \o W) = Len(A) + Len(W) /\ At(A \o W, 1, A) /\ At(A \o W, Len(A) + 1, W)
    BY ONLY <1>5, Halves
  <2>2. Len(A) + 1 = 4 /\ Len(A) = 3
    BY <1>3
  <2> HIDE DEF all
  <2> QED BY <1>2, <2>1, <2>2
<1>7. all[1] = A[1] /\ Len(all) >= 1 /\ Len(all) \in Nat
  <2>1. 1 + 1 - 1 = 1 /\ 1 \in 1 .. 3
    OBVIOUS
  <2> QED BY <1>3, <1>4, <1>6, <2>1 DEF At
<1>8. ASSUME NEW toks, TokensOf(toks, all) PROVE Chosen(toks, "DELETE") = s
  <2>1. ReadAs(toks, 1, A, 3) /\ Len(toks) = Len(all)
    <3>1. TokensOf(toks, all) /\ At(all, 1, A) /\ Len(A) = 3 /\ 3 \in Nat
      BY <1>3, <1>6, <1>8
    <3> QED BY ONLY <3>1, TokenIs
  <2>2. 3 <= Len(toks) /\ Len(toks) \in Nat /\ toks[1] = Tok(A[1]) /\ toks[2] = Tok(A[2])
      /\ toks[3] = t
    BY <1>3, <2>1, ThreeRead
  <2>3. Is(toks, 1, "DELETE") /\ Is(toks, 2, "FROM") /\ Len(toks) > 2
    BY <1>3, <2>2, IsReads
  <2>4. where_at(toks, 4) = q.where
    <3>1. EndsWith(toks, all, 4, W)
      BY <1>4, <1>6, <1>8 DEF EndsWith
    <3>2. ClausesMeant(toks, 4, q.where.col, z)
      BY <1>1, <3>1, ClausesRead DEF W
    <3> QED BY <1>1, <3>2 DEF ClausesMeant
  <2>5. exec_delete(toks) = Parsed("delete", [table |-> toks[3], where |-> where_at(toks, 4)])
    BY <2>3 DEF exec_delete
  <2>6. exec_delete(toks) = s
    BY <1>1, <2>2, <2>4, <2>5
  <2> QED BY <2>6 DEF Chosen
<1> HIDE DEF s
<1>9. Gives(all, "DELETE", s)
  BY <1>8 DEF Gives
<1>10. Written(T, look, s, "DELETE")
  BY <1>3, <1>5, <1>7, <1>9 DEF Written, all
<1> QED BY <1>10 DEF s

-----------------------------------------------------------------------------
(* CREATE TABLE.                                                           *)
OneSign(c) == <<c>>

(* One sign as pieces.                                                     *)
LEMMA OneSignIs ==
  ASSUME NEW T, Base(T), NEW c \in OtherSigns
  PROVE  /\ <<OneSign(c)>> \in Seq(Good(T)) /\ Len(<<OneSign(c)>>) = 1
         /\ <<OneSign(c)>>[1] = OneSign(c) /\ Reads(Tok(OneSign(c)), c)
<1>1. Fits(T, OneSign(c), OneSign(c)) /\ Reads(OneSign(c), c)
  BY SignIs DEF OneSign
<1>2. OneSign(c) \in Good(T) /\ Tok(OneSign(c)) = OneSign(c)
  BY <1>1, FitsGood
<1> QED BY <1>1, <1>2, OneTwoThree

(* A list in parentheses: where it is, and the signs around it.            *)
LEMMA ParensAre ==
  ASSUME NEW T, Base(T), NEW L \in Seq(Good(T))
  PROVE  LET P == <<<<"(">>>> \o L \o <<<<")">>>>
         IN  /\ P \in Seq(Good(T)) /\ Len(P) = Len(L) + 2 /\ Len(L) \in Nat
             /\ At(P, 2, L) /\ Reads(Tok(P[1]), "(") /\ Reads(Tok(P[Len(L) + 2]), ")")
<1> DEFINE O == <<OneSign("(")>>
           C == <<OneSign(")")>>
           Q == O \o L
           P == Q \o C
           S == Good(T)
           l == Len(L)
<1>1. "(" \in OtherSigns /\ ")" \in OtherSigns
  BY DEF OtherSigns
<1>2. /\ O \in Seq(S) /\ Len(O) = 1 /\ Reads(Tok(O[1]), "(")
      /\ C \in Seq(S) /\ Len(C) = 1 /\ Reads(Tok(C[1]), ")")
  BY <1>1, OneSignIs
<1> HIDE DEF O, C, S
<1>3. L \in Seq(S)
  BY DEF S
<1>4. Q \in Seq(S) /\ Len(Q) = l + 1 /\ l \in Nat /\ At(Q, 1, O) /\ At(Q, 2, L)
  <2>1. Q \in Seq(S) /\ Len(Q) = 1 + l /\ l \in Nat /\ At(Q, 1, O) /\ At(Q, 1 + 1, L)
    BY <1>2, <1>3, Halves
  <2>2. 1 + 1 = 2 /\ 1 + l = l + 1
    BY <2>1
  <2> QED BY <2>1, <2>2
<1> HIDE DEF Q, l
<1>5. P \in Seq(S) /\ Len(P) = l + 2 /\ At(P, 1, Q) /\ At(P, l + 2, C)
  <2>1. P \in Seq(S) /\ Len(P) = (l + 1) + 1 /\ At(P, 1, Q) /\ At(P, (l + 1) + 1, C)
    BY <1>2, <1>4, Halves
  <2>2. (l + 1) + 1 = l + 2
    BY <1>4
  <2> QED BY <2>1, <2>2
<1> HIDE DEF P
<1>6. At(P, 2, L) /\ At(P, 1, O)
  <2>1. Len(P) \in Nat /\ Len(Q) \in Nat /\ Len(L) \in Nat /\ Len(O) \in Nat
    BY <1>2, <1>4, <1>5 DEF l
  <2>2. At(P, 1 + 2 - 1, L) /\ At(P, 1 + 1 - 1, O)
    BY <1>4, <1>5, <2>1, AtWithin
  <2>3. 1 + 2 - 1 = 2 /\ 1 + 1 - 1 = 1
    OBVIOUS
  <2> QED BY <2>2, <2>3
<1>7. P[1] = O[1] /\ P[l + 2] = C[1]
  <2>1. P[1 + 1 - 1] = O[1] /\ P[(l + 2) + 1 - 1] = C[1]
    <3>1. 1 \in 1 .. Len(O) /\ 1 \in 1 .. Len(C)
      BY <1>2
    <3> QED BY <1>5, <1>6, <3>1 DEF At
  <2>2. 1 + 1 - 1 = 1 /\ (l + 2) + 1 - 1 = l + 2
    BY <1>4
  <2> QED BY <2>1, <2>2
<1>8. P = <<<<"(">>>> \o L \o <<<<")">>>>
  BY DEF P, Q, O, C, OneSign
<1>9. P \in Seq(Good(T)) /\ Len(P) = Len(L) + 2 /\ Len(L) \in Nat /\ At(P, 2, L)
      /\ Reads(Tok(P[1]), "(") /\ Reads(Tok(P[Len(L) + 2]), ")")
  BY <1>2, <1>4, <1>5, <1>6, <1>7 DEF S, l
<1> QED BY <1>8, <1>9

-----------------------------------------------------------------------------
(* The signs around a list among all tokens.                               *)
ParensOf(L) == <<<<"(">>>> \o L \o <<<<")">>>>

(* A list in parentheses, in the tokens.                                   *)
LEMMA ParensAt ==
  ASSUME NEW T, Base(T), NEW L \in Seq(Good(T)), NEW toks, NEW all, TokensOf(toks, all),
         NEW a, At(all, a, ParensOf(L))
  PROVE  /\ a \in Nat \ {0} /\ Len(L) \in Nat /\ Len(all) \in Nat /\ Len(toks) = Len(all)
         /\ Is(toks, a, "(") /\ At(all, a + 1, L) /\ a + 1 + Len(L) <= Len(all)
         /\ Reads(toks[a + 1 + Len(L)], ")") /\ Len(ParensOf(L)) = Len(L) + 2
<1> DEFINE P == ParensOf(L)
           l == Len(L)
           n == Len(toks)
<1>1. /\ P \in Seq(Good(T)) /\ Len(P) = l + 2 /\ l \in Nat
      /\ At(P, 2, L) /\ Reads(Tok(P[1]), "(") /\ Reads(Tok(P[l + 2]), ")")
  BY ParensAre DEF ParensOf
<1> HIDE DEF P, l, n
<1>2. /\ a \in Nat \ {0} /\ n \in Nat /\ a + (l + 2) <= n + 1
      /\ \A i \in 0 .. l + 1 : a + i <= n /\ toks[a + i] = Tok(P[i + 1])
  <2>1. TokensOf(toks, all) /\ At(all, a, P) /\ Len(P) = l + 2 /\ l + 2 \in Nat
    BY <1>1 DEF P
  <2>2. ReadAs(toks, a, P, l + 2)
    BY ONLY <2>1, TokenIs
  <2>3. (l + 2) - 1 = l + 1
    BY <1>1
  <2> QED BY <2>2, <2>3 DEF ReadAs, n
<1>3. a <= n /\ toks[a] = Tok(P[1])
  <2>1. 0 \in 0 .. l + 1 /\ a + 0 = a /\ 0 + 1 = 1
    BY <1>1, <1>2
  <2>2. a + 0 <= n /\ toks[a + 0] = Tok(P[0 + 1])
    BY <1>2, <2>1
  <2> QED BY <2>1, <2>2
<1>4. Is(toks, a, "(")
  BY <1>1, <1>3, IsReads DEF n
<1>5. a + 1 + l <= n /\ toks[a + 1 + l] = Tok(P[l + 2])
  <2>1. l + 1 \in 0 .. l + 1 /\ a + (l + 1) = a + 1 + l /\ (l + 1) + 1 = l + 2
    BY <1>1, <1>2
  <2>2. a + (l + 1) <= n /\ toks[a + (l + 1)] = Tok(P[(l + 1) + 1])
    BY <1>2, <2>1
  <2> QED BY <2>1, <2>2
<1>6. n = Len(all) /\ Len(all) \in Nat
  BY DEF TokensOf, n
<1>7. At(all, a + 1, L)
  <2>1. At(all, a, P) /\ At(P, 2, L) /\ Len(all) \in Nat /\ Len(P) \in Nat /\ Len(L) \in Nat
    BY <1>1, <1>6 DEF P, l
  <2>2. At(all, a + 2 - 1, L)
    BY ONLY <2>1, AtWithin
  <2>3. a + 2 - 1 = a + 1
    BY <1>2
  <2> QED BY <2>2, <2>3
<1> QED BY <1>1, <1>2, <1>4, <1>5, <1>6, <1>7 DEF P, l, n

Creating(T, q) ==
  /\ Base(T) /\ q = [table |-> q.table, cols |-> q.cols] /\ q.table \in Seq(T) /\ IsWord(q.table)
  /\ q.cols \in Seq({q.cols[i] : i \in DOMAIN q.cols})
  /\ \A k \in 1 .. Len(q.cols) :
       IsColumn(q.cols[k]) /\ q.cols[k].name \in Seq(T) /\ q.cols[k].max_len \in Nat

(* CREATE TABLE is read back.                                              *)
LEMMA CreateWritten ==
  ASSUME NEW T, NEW q, Creating(T, q), NEW look
  PROVE  Written(T, look, Parsed("create", q), "CREATE")
<1> DEFINE s == Parsed("create", q)
           all == Pieces(s, look)
           t == q.table
           cols == q.cols
           V == {q.cols[i] : i \in DOMAIN q.cols}
           A == <<Word("CREATE", look), Word("TABLE", look), t>>
           L == Listed([i \in DOMAIN cols |-> Column(cols[i], look)])
           P == ParensOf(L)
           S == Good(T)
<1>1. /\ Base(T) /\ q = [table |-> t, cols |-> cols] /\ t \in Seq(T) /\ IsWord(t) /\ cols \in Seq(V)
      /\ \A k \in 1 .. Len(cols) :
           IsColumn(cols[k]) /\ cols[k].name \in Seq(T) /\ cols[k].max_len \in Nat
  BY DEF Creating
<1>2. all = A \o P
  <2>1. s.kind = "create" /\ s.stmt = q
    BY DEF Parsed
  <2> HIDE DEF s
  <2>2. Pieces(s, look) = CreatePieces(s.stmt, look)
    BY <2>1 DEF Pieces
  <2>3. P = Parens([i \in DOMAIN q.cols |-> Column(q.cols[i], look)])
    BY DEF ParensOf, Parens
  <2> HIDE DEF P
  <2> QED BY <2>1, <2>2, <2>3 DEF CreatePieces
<1>3. /\ A \in Seq(Good(T)) /\ Len(A) = 3 /\ Len(A[1]) = 1 /\ Reads(A[1], "CREATE")
      /\ Reads(Tok(A[1]), "CREATE") /\ Reads(Tok(A[2]), "TABLE") /\ Tok(A[3]) = t
  <2>1. "CREATE" \in Keyword /\ "TABLE" \in Keyword
    BY DEF Keyword
  <2> QED BY <1>1, <2>1, Words
<1> HIDE DEF A, t, cols, V, s, all
<1>4. L \in Seq(Good(T))
  BY <1>1, ColumnsGood
<1>5. L = Listed([i \in DOMAIN cols |-> Column(cols[i], look)])
  OBVIOUS
<1> HIDE DEF L, S
<1>6. P \in Seq(S) /\ A \in Seq(S) /\ Len(P) = Len(L) + 2 /\ Len(L) \in Nat
  BY <1>1, <1>3, <1>4, ParensAre DEF ParensOf, S
<1> HIDE DEF P
<1>7. all \in Seq(S) /\ Len(all) = 3 + Len(P) /\ At(all, 1, A) /\ At(all, 4, P)
  <2>1. /\ A \o P \in Seq(S) /\ Len(A \o P) = Len(A) + Len(P) /\ At(A \o P, 1, A)
        /\ At(A \o P, Len(A) + 1, P)
    BY ONLY <1>6, Halves
  <2>2. Len(A) + 1 = 4 /\ Len(A) = 3
    BY <1>3
  <2> QED BY <1>2, <2>1, <2>2
<1>8. all[1] = A[1] /\ Len(all) >= 1 /\ Len(all) \in Nat
  <2>1. 1 + 1 - 1 = 1 /\ 1 \in 1 .. 3
    OBVIOUS
  <2> QED BY <1>3, <1>6, <1>7, <2>1 DEF At
<1>9. ASSUME NEW toks, TokensOf(toks, all) PROVE Chosen(toks, "CREATE") = s
  <2>1. ReadAs(toks, 1, A, 3)
    <3>1. TokensOf(toks, all) /\ At(all, 1, A) /\ Len(A) = 3 /\ 3 \in Nat
      BY <1>3, <1>7, <1>9
    <3> QED BY ONLY <3>1, TokenIs
  <2>2. 3 <= Len(toks) /\ Len(toks) \in Nat /\ toks[1] = Tok(A[1]) /\ toks[2] = Tok(A[2])
      /\ toks[3] = t
    BY <1>3, <2>1, ThreeRead
  <2>3. Is(toks, 1, "CREATE") /\ Is(toks, 2, "TABLE")
    BY <1>3, <2>2, IsReads
  <2>4. /\ Is(toks, 4, "(") /\ At(all, 5, L) /\ 5 + Len(L) <= Len(all)
            /\ Reads(toks[5 + Len(L)], ")")
    <3>1. Base(T) /\ L \in Seq(Good(T)) /\ TokensOf(toks, all) /\ At(all, 4, ParensOf(L))
      BY <1>1, <1>4, <1>7, <1>9 DEF P
    <3>2. /\ Is(toks, 4, "(") /\ At(all, 4 + 1, L) /\ 4 + 1 + Len(L) <= Len(all)
          /\ Reads(toks[4 + 1 + Len(L)], ")")
      BY ONLY <3>1, ParensAt
    <3>3. 4 + 1 = 5
      OBVIOUS
    <3> QED BY <3>2, <3>3
  <2>5. columns(toks, 5) = cols
    <3>1. ColumnsOf(T, toks, all, 5, cols, look, L)
      BY <1>1, <1>5, <1>9, <2>4 DEF ColumnsOf
    <3> QED BY <1>1, <3>1, ColumnsRead
  <2>6. \A c \in DOMAIN cols : cols[c].type # "unknown" /\ cols[c].max_len # NaN
    <3>1. \A c \in DOMAIN cols : c \in 1 .. Len(cols)
      BY <1>1, LenProperties
    <3>2. \A c \in DOMAIN cols : cols[c].type # "unknown"
      BY <1>1, <3>1 DEF IsColumn
    <3>3. NaN \notin Int
      BY CharactersAssumption
    <3>4. \A c \in DOMAIN cols : cols[c].max_len # NaN
      BY <1>1, <3>1, <3>3
    <3> QED BY <3>2, <3>4
  <2>7. exec_create(toks) = Parsed("create", [table |-> toks[3], cols |-> columns(toks, 5)])
    BY <2>3, <2>4, <2>5, <2>6 DEF exec_create
  <2>8. exec_create(toks) = s
    BY <1>1, <2>2, <2>5, <2>7 DEF s
  <2> QED BY <2>8 DEF Chosen
<1>10. Gives(all, "CREATE", s)
  BY <1>9 DEF Gives
<1>11. Flows(T, all)
  BY <1>7, FlowsGood DEF S
<1>12. Written(T, look, s, "CREATE")
  BY <1>3, <1>8, <1>10, <1>11 DEF Written, all
<1> QED BY <1>12 DEF s

-----------------------------------------------------------------------------
(* Texts that are read as x, in a list that close ends.                    *)
Shown(T, texts, x, close) ==
  /\ texts \in Seq(Good(T)) /\ Len(texts) = Len(x) /\ close # ","
  /\ \A k \in 1 .. Len(x) : Tok(texts[k]) = x[k] /\ ~Reads(x[k], close)

(* A list of texts that stand for the values x is read as x.               *)
LEMMA ShownRead ==
  ASSUME NEW T, Base(T), NEW texts, NEW V, NEW x \in Seq(V), NEW close, Shown(T, texts, x, close),
         NEW toks, NEW all, TokensOf(toks, all), NEW a, NEW L, L = Listed(Single(texts)),
         At(all, a, L), a + Len(L) <= Len(all), Reads(toks[a + Len(L)], close)
  PROVE  list(toks, a, close).items = x /\ list(toks, a, close).next = a + Len(L)
<1>1. texts \in Seq(Good(T)) /\ Len(texts) = Len(x) /\ Len(x) \in Nat /\ DOMAIN texts = 1 .. Len(x)
      /\ close # "," /\ \A k \in 1 .. Len(x) : Tok(texts[k]) = x[k] /\ ~Reads(x[k], close)
  BY LenProperties DEF Shown
<1>2. ListOf(toks, all, a, texts, x, Len(x), close)
  BY <1>1 DEF ListOf
<1> QED BY <1>2, ListRead

(* So is one in parentheses.                                               *)
LEMMA ParensRead ==
  ASSUME NEW T, Base(T), NEW texts, NEW V, NEW x \in Seq(V), Shown(T, texts, x, ")"),
         NEW toks, NEW all, TokensOf(toks, all), NEW a, NEW P, P = ParensOf(Listed(Single(texts))),
         At(all, a, P)
  PROVE  /\ Is(toks, a, "(") /\ list(toks, a + 1, ")").items = x
         /\ list(toks, a + 1, ")").next + 1 = a + Len(P)
<1> DEFINE L == Listed(Single(texts))
<1>1. L \in Seq(Good(T))
  BY CommaGood, TextsListed DEF Shown
<1>2. P = ParensOf(L) /\ L = Listed(Single(texts))
  OBVIOUS
<1> HIDE DEF L
<1>3. /\ a \in Nat \ {0} /\ Len(L) \in Nat /\ Is(toks, a, "(") /\ At(all, a + 1, L)
      /\ a + 1 + Len(L) <= Len(all) /\ Reads(toks[a + 1 + Len(L)], ")") /\ Len(P) = Len(L) + 2
  BY <1>1, <1>2, ParensAt
<1>4. list(toks, a + 1, ")").items = x /\ list(toks, a + 1, ")").next = a + 1 + Len(L)
  <2> DEFINE b == a + 1
  <2>1. At(all, b, L) /\ b + Len(L) <= Len(all) /\ Reads(toks[b + Len(L)], ")")
    BY <1>3
  <2> HIDE DEF b
  <2>2. list(toks, b, ")").items = x /\ list(toks, b, ")").next = b + Len(L)
    BY <1>2, <2>1, ShownRead
  <2> QED BY <2>2 DEF b
<1>5. a + 1 + Len(L) + 1 = a + Len(P)
  BY <1>3
<1> QED BY <1>3, <1>4, <1>5

(* The columns of INSERT, if it has any, and its values.                   *)
ColumnsText(cols) == IF cols = <<>> THEN <<>> ELSE ParensOf(Listed(Single(cols)))
ValuesText(vals, look) == ParensOf(Listed(Single([i \in DOMAIN vals |-> Literal(vals[i], look)])))

Inserting(T, q, look) ==
  /\ Base(T) /\ IsLook(look)
  /\ q = [table |-> q.table, cols |-> q.cols, vals |-> q.vals] /\ q.table \in Seq(T)
      /\ IsWord(q.table)
  /\ q.cols \in Seq(Seq(T)) /\ \A k \in 1 .. Len(q.cols) : IsWord(q.cols[k])
  /\ q.vals \in Seq(Seq(T))
  /\ \A k \in 1 .. Len(q.vals) : ~Reads(q.vals[k], ")") /\ Unquoted(Literal(q.vals[k], look))

(* The columns of an INSERT stand for themselves.                          *)
LEMMA ColumnsShown ==
  ASSUME NEW T, NEW q, NEW look, Inserting(T, q, look)
  PROVE  Shown(T, q.cols, q.cols, ")")
<1> DEFINE cols == q.cols
           m == Len(cols)
<1>1. Base(T) /\ cols \in Seq(Seq(T)) /\ m \in Nat /\ DOMAIN cols = 1 .. m
      /\ \A k \in 1 .. m : IsWord(cols[k]) /\ cols[k] \in Seq(T)
  BY LenProperties, ElementOfSeq DEF Inserting
<1> HIDE DEF cols, m
<1>2. ")" \in Sign \ {"."} /\ ")" # ","
  BY DEF Sign, WordEnd
<1>3. \A k \in 1 .. m : Fits(T, cols[k], cols[k]) /\ ~Reads(cols[k], ")")
  BY <1>1, <1>2, WordIs
<1>4. \A k \in 1 .. m : cols[k] \in Good(T) /\ Tok(cols[k]) = cols[k]
  BY <1>3, FitsGood
<1>5. cols \in Seq(Good(T))
  <2>1. [k \in 1 .. m |-> cols[k]] \in Seq(Good(T))
    BY <1>1, <1>4, IsASeq
  <2>2. cols = [k \in 1 .. m |-> cols[k]]
    BY <1>1, LenProperties DEF m
  <2> QED BY <2>1, <2>2
<1>6. Shown(T, cols, cols, ")")
  BY <1>2, <1>3, <1>4, <1>5 DEF Shown, m
<1> QED BY <1>6 DEF cols

(* The literals of an INSERT stand for its values.                         *)
LEMMA ValuesShown ==
  ASSUME NEW T, NEW q, NEW look, Inserting(T, q, look)
  PROVE  Shown(T, [i \in DOMAIN q.vals |-> Literal(q.vals[i], look)], q.vals, ")")
<1> DEFINE x == q.vals
           m == Len(x)
           texts == [i \in DOMAIN x |-> Literal(x[i], look)]
<1>1. Base(T) /\ IsLook(look) /\ x \in Seq(Seq(T)) /\ m \in Nat /\ DOMAIN x = 1 .. m
      /\ \A k \in 1 .. m : x[k] \in Seq(T) /\ ~Reads(x[k], ")") /\ Unquoted(Literal(x[k], look))
  BY LenProperties, ElementOfSeq DEF Inserting
<1> HIDE DEF x, m
<1>2. DOMAIN texts = 1 .. m /\ \A k \in 1 .. m : texts[k] = Literal(x[k], look)
  BY <1>1
<1>3. \A k \in 1 .. m : Fits(T, Literal(x[k], look), x[k])
  <2>1. SUFFICES ASSUME NEW k \in 1 .. m PROVE Fits(T, Literal(x[k], look), x[k])
    OBVIOUS
  <2>2. /\ x[k] \in Seq(T) /\ Base(T) /\ IsLook(look)
        /\ Literal(x[k], look)[1] \in Quotes =>
             \A j \in 2 .. Len(Literal(x[k], look)) - 1 :
                 Literal(x[k], look)[j] # Literal(x[k], look)[1]
    BY <1>1 DEF Unquoted
  <2> QED BY ONLY <2>2, LiteralIs
<1>4. \A k \in 1 .. m : texts[k] \in Good(T) /\ Tok(texts[k]) = x[k]
  <2> HIDE DEF texts
  <2> QED BY <1>2, <1>3, FitsGood
<1>5. texts \in Seq(Good(T)) /\ Len(texts) = m
  <2>1. texts = [k \in 1 .. m |-> texts[k]]
    BY <1>1
  <2> HIDE DEF texts
  <2>2. [k \in 1 .. m |-> texts[k]] \in Seq(Good(T))
    BY <1>1, <1>4, IsASeq
  <2>3. texts \in Seq(Good(T))
    BY <2>1, <2>2
  <2>4. Len(texts) = m
    BY <1>1, <1>2, <2>3, LenProperties
  <2> QED BY <2>3, <2>4
<1> HIDE DEF texts
<1>6. ")" # ","
  OBVIOUS
<1>7. Shown(T, texts, x, ")")
  BY <1>1, <1>4, <1>5, <1>6 DEF Shown, m
<1> QED BY <1>7 DEF texts, x

-----------------------------------------------------------------------------
(* Parts in front of others stay where they are.                           *)
LEMMA InFront ==
  ASSUME NEW S, NEW s \in Seq(S), NEW t \in Seq(S), NEW a, NEW p, Len(p) \in Nat, At(s, a, p)
  PROVE  At(s \o t, a, p)
BY AtLeft

(* One keyword as pieces.                                                  *)
LEMMA OneKeyword ==
  ASSUME NEW T, Base(T), NEW w \in Keyword, NEW look
  PROVE  LET P == <<Word(w, look)>>
         IN  P \in Seq(Good(T)) /\ Len(P) = 1 /\ Reads(Tok(P[1]), w) /\ Reads(P[1], w)
             /\ Len(P[1]) = 1
<1> DEFINE p == Word(w, look)
           P == <<p>>
<1>1. Fits(T, p, p) /\ Reads(p, w) /\ Len(p) = 1
  BY KeywordIs
<1> HIDE DEF p
<1>2. p \in Good(T) /\ Tok(p) = p
  BY <1>1, FitsGood
<1>3. P \in Seq(Good(T)) /\ Len(P) = 1 /\ P[1] = p
  BY <1>2, OneTwoThree
<1> HIDE DEF P
<1>4. P \in Seq(Good(T)) /\ Len(P) = 1 /\ Reads(Tok(P[1]), w) /\ Reads(P[1], w) /\ Len(P[1]) = 1
  BY <1>1, <1>2, <1>3
<1> QED BY <1>4 DEF P, p

(* One piece is found where it stands.                                     *)
LEMMA OneRead ==
  ASSUME NEW toks, NEW all, TokensOf(toks, all), NEW a, NEW P, Len(P) = 1, At(all, a, P), NEW w,
         Reads(Tok(P[1]), w)
  PROVE  Is(toks, a, w) /\ a \in Nat \ {0} /\ a <= Len(toks) /\ toks[a] = Tok(P[1])
<1>1. TokensOf(toks, all) /\ At(all, a, P) /\ Len(P) = 1 /\ 1 \in Nat
  OBVIOUS
<1>2. ReadAs(toks, a, P, 1)
  BY ONLY <1>1, TokenIs
<1>3. a \in Nat \ {0} /\ \A i \in 0 .. 0 : a + i <= Len(toks) /\ toks[a + i] = Tok(P[i + 1])
  BY <1>2 DEF ReadAs
<1>4. 0 \in 0 .. 0 /\ a + 0 = a /\ 0 + 1 = 1
  BY ONLY <1>3
<1>5. a + 0 <= Len(toks) /\ toks[a + 0] = Tok(P[0 + 1])
  BY ONLY <1>3, <1>4
<1>6. a <= Len(toks) /\ toks[a] = Tok(P[1])
  BY <1>4, <1>5
<1> QED BY <1>3, <1>6, IsReads

-----------------------------------------------------------------------------
(* INSERT.                                                                 *)
LEMMA InsertPiecesAre ==
  ASSUME NEW q, NEW look
  PROVE  Pieces(Parsed("insert", q), look)
           = <<Word("INSERT", look), Word("INTO", look), q.table>> \o ColumnsText(q.cols)
               \o <<Word("VALUES", look)>> \o ValuesText(q.vals, look)
<1> DEFINE s == Parsed("insert", q)
<1>1. s.kind = "insert" /\ s.stmt = q
  BY DEF Parsed
<1> HIDE DEF s
<1>2. Pieces(s, look) = InsertPieces(s.stmt, look)
  BY <1>1 DEF Pieces
<1>3. ColumnsText(q.cols) = IF q.cols = <<>> THEN <<>> ELSE Parens(Single(q.cols))
  BY DEF ColumnsText, ParensOf, Parens
<1>4. ValuesText(q.vals, look) = Parens(Single([i \in DOMAIN q.vals |-> Literal(q.vals[i], look)]))
  BY DEF ValuesText, ParensOf, Parens
<1>5. InsertPieces(q, look)
        = <<Word("INSERT", look), Word("INTO", look), q.table>> \o ColumnsText(q.cols)
               \o <<Word("VALUES", look)>> \o ValuesText(q.vals, look)
  BY <1>3, <1>4, Zenon DEF InsertPieces
<1> QED BY <1>1, <1>2, <1>5 DEF s

(* Where the parts of INSERT are.                                          *)
InsertAt(T, q, look, all, b) ==
  LET A == <<Word("INSERT", look), Word("INTO", look), q.table>>
      V == <<Word("VALUES", look)>>
      N == ColumnsText(q.cols)
      P == ValuesText(q.vals, look)
  IN  /\ all \in Seq(Good(T)) /\ At(all, 1, A) /\ At(all, 4, N) /\ b = 4 + Len(N) /\ Len(N) \in Nat
      /\ At(all, b, V) /\ At(all, b + 1, P)

(* Where the parts of an INSERT start.                                     *)
LEMMA InsertParts ==
  ASSUME NEW T, NEW q, NEW look, Inserting(T, q, look)
  PROVE  \E b : InsertAt(T, q, look, Pieces(Parsed("insert", q), look), b)
<1> DEFINE A == <<Word("INSERT", look), Word("INTO", look), q.table>>
           N == ColumnsText(q.cols)
           V == <<Word("VALUES", look)>>
           P == ValuesText(q.vals, look)
           B == A \o N
           C == B \o V
           all == C \o P
           S == Good(T)
           b == 4 + Len(N)
<1>1. all = Pieces(Parsed("insert", q), look)
  BY InsertPiecesAre
<1>2. Base(T) /\ q.table \in Seq(T) /\ IsWord(q.table)
  BY DEF Inserting
<1>3. A \in Seq(S) /\ Len(A) = 3
  <2>1. "INSERT" \in Keyword /\ "INTO" \in Keyword
    BY DEF Keyword
  <2> QED BY <1>2, <2>1, Words
<1>4. V \in Seq(S) /\ Len(V) = 1
  <2>1. "VALUES" \in Keyword
    BY DEF Keyword
  <2> QED BY <1>2, <2>1, OneKeyword
<1>5. N \in Seq(S)
  <2>1. CASE q.cols = <<>>
    BY <2>1 DEF ColumnsText
  <2>2. CASE q.cols # <<>>
    <3>1. N = ParensOf(Listed(Single(q.cols)))
      BY <2>2 DEF ColumnsText
    <3>2. Listed(Single(q.cols)) \in Seq(Good(T))
      BY <1>2, ColumnsShown, CommaGood, TextsListed DEF Shown
    <3> QED BY <1>2, <3>1, <3>2, ParensAre DEF ParensOf
  <2> QED BY <2>1, <2>2
<1>6. P \in Seq(S)
  <2> DEFINE texts == [i \in DOMAIN q.vals |-> Literal(q.vals[i], look)]
  <2>1. P = ParensOf(Listed(Single(texts))) /\ Shown(T, texts, q.vals, ")")
    BY ValuesShown DEF ValuesText
  <2> HIDE DEF texts, P
  <2>2. Listed(Single(texts)) \in Seq(Good(T))
    BY <1>2, <2>1, CommaGood, TextsListed DEF Shown
  <2> QED BY <1>2, <2>1, <2>2, ParensAre DEF ParensOf
<1> HIDE DEF A, N, V, P, S
<1>7. B \in Seq(S) /\ Len(B) = 3 + Len(N) /\ Len(N) \in Nat /\ At(B, 1, A) /\ At(B, 4, N)
  <2>1. /\ A \o N \in Seq(S) /\ Len(A \o N) = Len(A) + Len(N) /\ Len(N) \in Nat
        /\ At(A \o N, 1, A) /\ At(A \o N, Len(A) + 1, N)
    BY ONLY <1>3, <1>5, Halves
  <2>2. Len(A) = 3 /\ Len(A) + 1 = 4
    BY <1>3
  <2> QED BY <2>1, <2>2
<1> HIDE DEF B
<1>8. C \in Seq(S) /\ Len(C) = b /\ At(C, 1, A) /\ At(C, 4, N) /\ At(C, b, V)
  <2>1. C \in Seq(S) /\ Len(C) = Len(B) + Len(V) /\ At(C, Len(B) + 1, V)
    BY <1>4, <1>7, Halves
  <2>2. Len(B) + 1 = b /\ Len(B) + Len(V) = b
    BY <1>4, <1>7
  <2>3. At(C, 1, A) /\ At(C, 4, N)
    <3>1. Len(A) \in Nat
      BY <1>3
    <3> QED BY <1>4, <1>7, <3>1, InFront
  <2> QED BY <2>1, <2>2, <2>3
<1> HIDE DEF C, b
<1>9. all \in Seq(S) /\ At(all, b + 1, P) /\ At(all, 1, A) /\ At(all, 4, N) /\ At(all, b, V)
  <2>1. all \in Seq(S) /\ At(all, Len(C) + 1, P)
    BY <1>6, <1>8, Halves
  <2>2. Len(A) \in Nat /\ Len(V) \in Nat
    BY <1>3, <1>4
  <2>3. At(all, 1, A) /\ At(all, 4, N) /\ At(all, b, V)
    BY <1>6, <1>7, <1>8, <2>2, InFront
  <2> QED BY <1>8, <2>1, <2>3
<1> HIDE DEF all
<1>10. InsertAt(T, q, look, all, b)
  BY <1>7, <1>9 DEF InsertAt, A, N, V, P, S, b
<1> QED BY <1>1, <1>10

(* INSERT is read back.                                                    *)
LEMMA InsertWritten ==
  ASSUME NEW T, NEW q, NEW look, Inserting(T, q, look)
  PROVE  Written(T, look, Parsed("insert", q), "INSERT")
<1> DEFINE s == Parsed("insert", q)
           all == Pieces(s, look)
           t == q.table
           cols == q.cols
           vals == q.vals
           A == <<Word("INSERT", look), Word("INTO", look), t>>
           N == ColumnsText(cols)
           V == <<Word("VALUES", look)>>
           P == ValuesText(vals, look)
           texts == [i \in DOMAIN vals |-> Literal(vals[i], look)]
           S == Good(T)
<1>1. /\ Base(T) /\ q = [table |-> t, cols |-> cols, vals |-> vals] /\ t \in Seq(T) /\ IsWord(t)
      /\ cols \in Seq(Seq(T)) /\ vals \in Seq(Seq(T))
  BY DEF Inserting
<1>2. PICK b : InsertAt(T, q, look, all, b)
  BY InsertParts
<1>3. /\ all \in Seq(S) /\ At(all, 1, A) /\ At(all, 4, N) /\ b = 4 + Len(N) /\ Len(N) \in Nat
      /\ At(all, b, V) /\ At(all, b + 1, P)
  BY <1>2 DEF InsertAt
<1>4. /\ Len(A) = 3 /\ Len(A[1]) = 1 /\ Reads(A[1], "INSERT") /\ Reads(Tok(A[1]), "INSERT")
      /\ Reads(Tok(A[2]), "INTO") /\ Tok(A[3]) = t
  <2>1. /\ Base(T) /\ "INSERT" \in Keyword /\ "INTO" \in Keyword
        /\ q.table \in Seq(T) /\ IsWord(q.table)
    BY <1>1 DEF Keyword
  <2>2. LET W == <<Word("INSERT", look), Word("INTO", look), q.table>>
        IN  /\ W \in Seq(Good(T)) /\ Len(W) = 3 /\ Len(W[1]) = 1 /\ Reads(W[1], "INSERT")
            /\ Reads(Tok(W[1]), "INSERT") /\ Reads(Tok(W[2]), "INTO") /\ Tok(W[3]) = q.table
    BY ONLY <2>1, Words
  <2> QED BY ONLY <2>2
<1>5. Len(V) = 1 /\ Reads(Tok(V[1]), "VALUES")
  <2>1. "VALUES" \in Keyword
    BY DEF Keyword
  <2> QED BY <1>1, <2>1, OneKeyword
<1>6. /\ Shown(T, cols, cols, ")") /\ Shown(T, texts, vals, ")")
      /\ N = IF cols = <<>> THEN <<>> ELSE ParensOf(Listed(Single(cols)))
      /\ P = ParensOf(Listed(Single(texts)))
  BY ColumnsShown, ValuesShown DEF ColumnsText, ValuesText
<1>7. Len(<<>>) = 0
  OBVIOUS
<1> HIDE DEF A, N, V, P, S, all, s, t, cols, vals, texts
<1>8. all[1] = A[1] /\ Len(all) >= 1 /\ Len(all) \in Nat
  <2>1. 1 + 1 - 1 = 1 /\ 1 \in 1 .. 3 /\ Len(all) \in Nat
    BY <1>3, LenProperties
  <2> QED BY <1>3, <1>4, <2>1 DEF At
<1>9. ASSUME NEW toks, TokensOf(toks, all) PROVE Chosen(toks, "INSERT") = s
  <2>1. ReadAs(toks, 1, A, 3)
    <3>1. TokensOf(toks, all) /\ At(all, 1, A) /\ Len(A) = 3 /\ 3 \in Nat
      BY <1>3, <1>4, <1>9
    <3> QED BY ONLY <3>1, TokenIs
  <2>2. 3 <= Len(toks) /\ Len(toks) \in Nat /\ toks[1] = Tok(A[1]) /\ toks[2] = Tok(A[2])
      /\ toks[3] = t
    BY <1>4, <2>1, ThreeRead
  <2>3. Is(toks, 1, "INSERT") /\ Is(toks, 2, "INTO")
    BY <1>4, <2>2, IsReads
  <2>4. Is(toks, b, "VALUES") /\ toks[b] = Tok(V[1])
    <3>1. TokensOf(toks, all) /\ Len(V) = 1 /\ At(all, b, V) /\ Reads(Tok(V[1]), "VALUES")
      BY <1>3, <1>5, <1>9
    <3> QED BY ONLY <3>1, OneRead
  <2>5. Is(toks, b + 1, "(") /\ list(toks, b + 1 + 1, ")").items = vals
    <3>1. /\ Base(T) /\ vals \in Seq(Seq(T)) /\ Shown(T, texts, vals, ")") /\ TokensOf(toks, all)
          /\ P = ParensOf(Listed(Single(texts))) /\ At(all, b + 1, P)
      BY <1>1, <1>3, <1>6, <1>9
    <3> QED BY ONLY <3>1, ParensRead
  <2> DEFINE named == list(toks, 5, ")")
             values == IF Is(toks, 4, "(") THEN named.next + 1 ELSE 4
             read == IF Is(toks, 4, "(") THEN named.items ELSE <<>>
  <2>6. values = b /\ read = cols
    <3>1. CASE cols = <<>>
      <4>1. b = 4
        BY <1>3, <1>6, <1>7, <3>1
      <4>2. ~Is(toks, 4, "(")
        <5>1. Reads(toks[4], "VALUES")
          BY <1>5, <2>4, <4>1
        <5>2. "VALUES" # "("
          OBVIOUS
        <5> QED BY <5>1, <5>2, ReadsOne, IsReads
      <4> HIDE DEF named
      <4> QED BY <3>1, <4>1, <4>2
    <3>2. CASE cols # <<>>
      <4>1. /\ Base(T) /\ cols \in Seq(Seq(T)) /\ Shown(T, cols, cols, ")") /\ TokensOf(toks, all)
            /\ N = ParensOf(Listed(Single(cols))) /\ At(all, 4, N)
        BY <1>1, <1>3, <1>6, <1>9, <3>2
      <4>2. /\ Is(toks, 4, "(") /\ list(toks, 4 + 1, ")").items = cols
            /\ list(toks, 4 + 1, ")").next + 1 = 4 + Len(N)
        BY ONLY <4>1, ParensRead
      <4>3. 4 + 1 = 5
        OBVIOUS
      <4>4. named.items = cols /\ named.next + 1 = b
        BY <1>3, <4>2, <4>3
      <4> HIDE DEF named
      <4> QED BY <4>2, <4>4
    <3> QED BY <3>1, <3>2
  <2>7. b + 1 + 1 = b + 2
    BY <1>3
  <2>8. exec_insert(toks)
          = IF /\ Is(toks, 1, "INSERT") /\ Is(toks, 2, "INTO")
               /\ Is(toks, values, "VALUES") /\ Is(toks, values + 1, "(")
            THEN Parsed("insert", [table |-> toks[3], cols |-> read,
                                   vals |-> list(toks, values + 2, ")").items])
            ELSE Failed
    BY Zenon DEF exec_insert
  <2> HIDE DEF values, read, named
  <2>9. exec_insert(toks) = Parsed("insert", [table |-> t, cols |-> cols, vals |-> vals])
    BY <2>2, <2>3, <2>4, <2>5, <2>6, <2>7, <2>8
  <2>10. exec_insert(toks) = s
    BY <1>1, <2>9 DEF s
  <2>11. Chosen(toks, "INSERT") = exec_insert(toks)
    BY DEF Chosen
  <2> QED BY <2>10, <2>11
<1>10. Gives(all, "INSERT", s)
  BY <1>9 DEF Gives
<1>11. Flows(T, all)
  BY <1>3, FlowsGood DEF S
<1>12. Written(T, look, s, "INSERT")
  BY <1>4, <1>8, <1>10, <1>11 DEF Written, all
<1> QED BY <1>12 DEF s

-----------------------------------------------------------------------------
(* Good pieces that are read as none of the words of W.                    *)
Free(T, W) == {p \in Good(T) : \A w \in W : ~Reads(Tok(p), w)}

(* A list of pieces none of which is read as one of some words holds none  *)
(* of these words.                                                         *)
LEMMA FreeListed ==
  ASSUME NEW T, Base(T), NEW W, "," \notin W, NEW texts \in Seq(Free(T, W))
  PROVE  Listed(Single(texts)) \in Seq(Free(T, W))
<1>1. Comma \in Free(T, W)
  <2>1. Comma \in Good(T) /\ Tok(Comma) = Comma
    BY CommaGood
  <2>2. Reads(Comma, ",")
    BY CommaIs
  <2>3. \A w \in W : ~Reads(Comma, w)
    BY <2>2, ReadsOne
  <2> QED BY <2>1, <2>3 DEF Free
<1> QED BY <1>1, TextsListed

(* What it is to hold none of them.                                        *)
LEMMA FreeIs ==
  ASSUME NEW T, NEW W, NEW ps \in Seq(Free(T, W))
  PROVE  ps \in Seq(Good(T)) /\ Len(ps) \in Nat /\ \A w \in W : Without(ps, w)
<1>1. Free(T, W) \subseteq Good(T)
  BY DEF Free
<1>2. ps \in Seq(Good(T))
  BY <1>1, SeqMonotonic
<1>3. \A i \in 1 .. Len(ps) : ps[i] \in Free(T, W)
  BY ElementOfSeq
<1> QED BY <1>2, <1>3, LenProperties DEF Free, Without

(* A text in three parts.                                                  *)
LEMMA Thirds ==
  ASSUME NEW S, NEW s \in Seq(S), NEW t \in Seq(S), NEW u \in Seq(S)
  PROVE  LET x == (s \o t) \o u
         IN  /\ x \in Seq(S) /\ Len(x) = Len(s) + Len(t) + Len(u)
             /\ Len(s) \in Nat /\ Len(t) \in Nat /\ Len(u) \in Nat
             /\ At(x, 1, s) /\ At(x, Len(s) + 1, t) /\ At(x, Len(s) + Len(t) + 1, u)
<1> DEFINE y == s \o t
           x == y \o u
<1>1. /\ y \in Seq(S) /\ Len(y) = Len(s) + Len(t) /\ Len(s) \in Nat /\ Len(t) \in Nat
      /\ At(y, 1, s) /\ At(y, Len(s) + 1, t)
  BY Halves
<1> HIDE DEF y
<1>2. x \in Seq(S) /\ Len(x) = Len(y) + Len(u) /\ Len(u) \in Nat /\ At(x, Len(y) + 1, u)
  BY <1>1, Halves
<1>3. At(x, 1, s) /\ At(x, Len(s) + 1, t)
  BY <1>1, InFront
<1> HIDE DEF x
<1>4. /\ x \in Seq(S) /\ Len(x) = Len(s) + Len(t) + Len(u)
      /\ Len(s) \in Nat /\ Len(t) \in Nat /\ Len(u) \in Nat
      /\ At(x, 1, s) /\ At(x, Len(s) + 1, t) /\ At(x, Len(s) + Len(t) + 1, u)
  BY <1>1, <1>2, <1>3
<1> QED BY <1>4 DEF x, y

-----------------------------------------------------------------------------
(* The list after SELECT, of texts that are read as x.                     *)
Picked(T, texts, x) == Shown(T, texts, x, "FROM") /\ \A k \in 1 .. Len(x) : ~Reads(x[k], "*")

(* Nor do the columns of a SELECT, if none is called that.                 *)
LEMMA PickedFree ==
  ASSUME NEW T, NEW texts, NEW V, NEW x \in Seq(V), NEW W,
         Shown(T, texts, x, "FROM"), \A k \in 1 .. Len(x) : \A w \in W : ~Reads(x[k], w)
  PROVE  texts \in Seq(Free(T, W))
<1> DEFINE m == Len(x)
<1>1. /\ texts \in Seq(Good(T)) /\ Len(texts) = m /\ m \in Nat
      /\ \A k \in 1 .. m : Tok(texts[k]) = x[k]
  BY LenProperties DEF Shown
<1>2. DOMAIN texts = 1 .. m /\ \A k \in 1 .. m : texts[k] \in Good(T)
  BY <1>1, LenProperties, ElementOfSeq
<1>3. \A k \in 1 .. m : \A w \in W : ~Reads(x[k], w)
  OBVIOUS
<1> HIDE DEF m
<1>4. \A k \in 1 .. m : texts[k] \in Free(T, W)
  BY <1>1, <1>2, <1>3 DEF Free
<1>5. [k \in 1 .. m |-> texts[k]] \in Seq(Free(T, W))
  BY <1>1, <1>4, IsASeq
<1>6. texts = [k \in 1 .. m |-> texts[k]]
  BY <1>1, <1>2
<1> QED BY <1>5, <1>6

(* Nor does the whole of what is selected, a star or a list.               *)
LEMMA SelectedFree ==
  ASSUME NEW T, Base(T), NEW W, "," \notin W, "*" \notin W, NEW texts \in Seq(Free(T, W))
  PROVE  Selected(texts) \in Seq(Free(T, W))
<1>1. CASE texts = <<>>
  <2> DEFINE P == <<OneSign("*")>>
  <2>1. "*" \in OtherSigns
    BY DEF OtherSigns
  <2>2. P \in Seq(Good(T)) /\ Len(P) = 1 /\ P[1] = OneSign("*") /\ Reads(Tok(OneSign("*")), "*")
    BY <2>1, OneSignIs
  <2> HIDE DEF P
  <2>3. OneSign("*") \in Good(T)
    <3>0. Len(P) = 1
      BY <2>2
    <3>1. 1 \in 1 .. Len(P)
      BY ONLY <3>0
    <3> QED BY <2>2, <3>1, ElementOfSeq
  <2>4. OneSign("*") \in Free(T, W)
    BY <2>2, <2>3, ReadsOne DEF Free
  <2>5. P \in Seq(Free(T, W))
    BY <2>4, OneTwoThree DEF P
  <2>6. Selected(texts) = P
    BY <1>1 DEF Selected, OneSign, P
  <2> QED BY <2>5, <2>6
<1>2. CASE texts # <<>>
  BY <1>2, FreeListed DEF Selected
<1> QED BY <1>1, <1>2

(* The columns of a SELECT are read back, and a star as all of them.       *)
LEMMA SelectedRead ==
  ASSUME NEW T, Base(T), NEW texts, NEW V, NEW x \in Seq(V), Picked(T, texts, x),
         NEW toks, NEW all, TokensOf(toks, all), NEW N, N = Selected(texts), At(all, 2, N),
         2 + Len(N) <= Len(all), Reads(toks[2 + Len(N)], "FROM")
  PROVE  selected(toks).items = x /\ selected(toks).next = 2 + Len(N)
<1>1. /\ texts \in Seq(Good(T)) /\ Len(texts) = Len(x) /\ Len(x) \in Nat
      /\ Shown(T, texts, x, "FROM") /\ \A k \in 1 .. Len(x) : ~Reads(x[k], "*")
  BY LenProperties DEF Picked, Shown
<1>2. CASE texts = <<>>
  <2> DEFINE P == <<OneSign("*")>>
  <2>1. "*" \in OtherSigns
    BY DEF OtherSigns
  <2>2. P \in Seq(Good(T)) /\ Len(P) = 1 /\ P[1] = OneSign("*") /\ Reads(Tok(OneSign("*")), "*")
    BY <2>1, OneSignIs
  <2>3. N = P
    BY <1>2 DEF Selected, OneSign
  <2> HIDE DEF P
  <2>4. Is(toks, 2, "*")
    <3>1. TokensOf(toks, all) /\ Len(N) = 1 /\ At(all, 2, N) /\ Reads(Tok(N[1]), "*")
      BY <2>2, <2>3
    <3> QED BY ONLY <3>1, OneRead
  <2>5. selected(toks) = [items |-> <<>>, next |-> 3]
    BY <2>4 DEF selected
  <2>6. x = <<>>
    <3>1. Len(x) = 0
      BY <1>1, <1>2
    <3> QED BY <3>1, EmptySeq
  <2>7. 2 + Len(N) = 3
    <3>1. Len(N) = 1
      BY <2>2, <2>3
    <3> QED BY ONLY <3>1
  <2> QED BY <2>5, <2>6, <2>7
<1>3. CASE texts # <<>>
  <2>1. N = Listed(Single(texts))
    BY <1>3 DEF Selected
  <2>2. list(toks, 2, "FROM").items = x /\ list(toks, 2, "FROM").next = 2 + Len(N)
    BY <1>1, <2>1, ShownRead
  <2>3. ~Is(toks, 2, "*")
    <3> DEFINE W == {"*"}
    <3>1. "," \notin W
      OBVIOUS
    <3>2. \A k \in 1 .. Len(x) : \A w \in W : ~Reads(x[k], w)
      BY <1>1
    <3> HIDE DEF W
    <3>3. N \in Seq(Free(T, W))
      BY <1>1, <2>1, <3>1, <3>2, PickedFree, FreeListed
    <3>4. Len(N) \in Nat /\ Without(N, "*")
      BY <3>3, FreeIs DEF W
    <3>5. CASE Len(N) = 0
      <4>1. 2 + Len(N) = 2
        BY <3>5
      <4>2. Reads(toks[2], "FROM") /\ "FROM" # "*"
        BY <4>1
      <4> QED BY <4>2, ReadsOne, IsReads
    <3>6. CASE Len(N) > 0
      <4>1. 1 \in 1 .. Len(N) /\ 2 + 1 - 1 = 2
        BY <3>4, <3>6
      <4>2. toks[2 + 1 - 1] = Tok(N[1])
        BY <3>4, <4>1, TokenAt
      <4>3. ~Reads(toks[2], "*")
        BY <3>4, <4>1, <4>2 DEF Without
      <4> QED BY <4>3, IsReads
    <3> QED BY <3>4, <3>5, <3>6
  <2> QED BY <2>2, <2>3 DEF selected
<1> QED BY <1>2, <1>3

-----------------------------------------------------------------------------
(* SELECT, the list, FROM and the table.                                   *)
FromHead(texts, t, look) ==
  (<<Word("SELECT", look)>> \o Selected(texts)) \o <<Word("FROM", look), t>>
Heading(T, texts, x, t, look) ==
  /\ Base(T) /\ Picked(T, texts, x) /\ t \in Seq(T) /\ IsWord(t) /\ x \in Seq(Seq(T))

(* The pieces of FROM.                                                     *)
LEMMA FromTable ==
  ASSUME NEW T, Base(T), NEW t \in Seq(T), IsWord(t), NEW look, NEW W,
         \A w \in W : w # "FROM" /\ ~Reads(t, w)
  PROVE  LET F == <<Word("FROM", look), t>>
         IN  F \in Seq(Free(T, W)) /\ Len(F) = 2 /\ Reads(Tok(F[1]), "FROM") /\ Tok(F[2]) = t
<1> DEFINE p == Word("FROM", look)
           F == <<p, t>>
<1>1. "FROM" \in Keyword
  BY DEF Keyword
<1>2. Fits(T, p, p) /\ Reads(p, "FROM")
  BY <1>1, KeywordIs
<1>3. Fits(T, t, t)
  BY WordIs
<1> HIDE DEF p
<1>4. p \in Good(T) /\ Tok(p) = p /\ t \in Good(T) /\ Tok(t) = t
  BY <1>2, <1>3, FitsGood
<1>5. p \in Free(T, W) /\ t \in Free(T, W)
  BY <1>2, <1>4, ReadsOne DEF Free
<1>6. F \in Seq(Free(T, W)) /\ Len(F) = 2 /\ F[1] = p /\ F[2] = t
  BY <1>5, OneTwoThree
<1> HIDE DEF F
<1>7. F \in Seq(Free(T, W)) /\ Len(F) = 2 /\ Reads(Tok(F[1]), "FROM") /\ Tok(F[2]) = t
  BY <1>2, <1>4, <1>6
<1> QED BY <1>7 DEF F, p

HeadAt(T, H, N, F, look, W) ==
  /\ H \in Seq(Free(T, W)) /\ Len(H) = 3 + Len(N) /\ Len(N) \in Nat
  /\ At(H, 1, <<Word("SELECT", look)>>) /\ At(H, 2, N) /\ At(H, 2 + Len(N), F)

(* The pieces of a SELECT up to its table.                                 *)
LEMMA HeadIs ==
  ASSUME NEW T, NEW texts, NEW x, NEW t, NEW look, Heading(T, texts, x, t, look), NEW W,
         W \subseteq {"JOIN"}, \A w \in W : ~Reads(t, w) /\ \A k \in 1 .. Len(x) : ~Reads(x[k], w)
  PROVE  HeadAt(T, FromHead(texts, t, look), Selected(texts), <<Word("FROM", look), t>>, look, W)
<1> DEFINE A == <<Word("SELECT", look)>>
           N == Selected(texts)
           F == <<Word("FROM", look), t>>
           S == Free(T, W)
           H == FromHead(texts, t, look)
<1>0. \A w \in W : w # "FROM" /\ w # "SELECT" /\ w # "," /\ w # "*"
  OBVIOUS
<1>1. A \in Seq(S) /\ Len(A) = 1
  <2> DEFINE p == Word("SELECT", look)
  <2>1. "SELECT" \in Keyword
    BY DEF Keyword
  <2>2. Fits(T, p, p) /\ Reads(p, "SELECT")
    BY <2>1, KeywordIs DEF Heading
  <2> HIDE DEF p
  <2>3. p \in S
    <3>1. p \in Good(T) /\ Tok(p) = p
      BY <2>2, FitsGood
    <3>2. \A w \in W : ~Reads(p, w)
      BY <1>0, <2>2, ReadsOne
    <3> QED BY <3>1, <3>2 DEF Free
  <2> HIDE DEF S
  <2>4. <<p>> \in Seq(S) /\ Len(<<p>>) = 1
    BY <2>3, OneTwoThree
  <2> QED BY <2>4 DEF p
<1>2. F \in Seq(S) /\ Len(F) = 2
  BY <1>0, FromTable DEF Heading
<1>3. N \in Seq(S)
  <2>1. x \in Seq(Seq(T)) /\ Shown(T, texts, x, "FROM") /\ Base(T)
    BY DEF Heading, Picked
  <2>2. texts \in Seq(S)
    BY <2>1, PickedFree
  <2>3. "," \notin W /\ "*" \notin W
    BY <1>0
  <2> QED BY <2>1, <2>2, <2>3, SelectedFree
<1>4. H = (A \o N) \o F
  BY DEF FromHead
<1> HIDE DEF A, N, F, S, H
<1>5. /\ H \in Seq(S) /\ Len(H) = Len(A) + Len(N) + Len(F) /\ Len(N) \in Nat
      /\ At(H, 1, A) /\ At(H, Len(A) + 1, N) /\ At(H, Len(A) + Len(N) + 1, F)
  <2>1. LET z == (A \o N) \o F
        IN  /\ z \in Seq(S) /\ Len(z) = Len(A) + Len(N) + Len(F)
            /\ Len(A) \in Nat /\ Len(N) \in Nat /\ Len(F) \in Nat
            /\ At(z, 1, A) /\ At(z, Len(A) + 1, N) /\ At(z, Len(A) + Len(N) + 1, F)
    BY ONLY <1>1, <1>2, <1>3, Thirds
  <2> QED BY <1>4, <2>1
<1>6. Len(A) + 1 = 2 /\ Len(A) + Len(N) + 1 = 2 + Len(N) /\ Len(A) + Len(N) + Len(F) = 3 + Len(N)
  BY <1>1, <1>2, <1>5
<1> QED BY <1>5, <1>6 DEF HeadAt, A, N, F, S, H

-----------------------------------------------------------------------------
(* What is read of SELECT ... FROM and the table.                          *)
HeadRead(toks, x, t, f) ==
  /\ f \in Nat /\ f + 1 <= Len(toks) /\ Len(toks) \in Nat
  /\ Is(toks, 1, "SELECT") /\ Is(toks, f, "FROM") /\ toks[f + 1] = t
  /\ selected(toks).items = x /\ selected(toks).next = f

(* They are read back.                                                     *)
LEMMA HeadIsRead ==
  ASSUME NEW T, NEW texts, NEW x, NEW t, NEW look, Heading(T, texts, x, t, look), NEW W,
         HeadAt(T, FromHead(texts, t, look), Selected(texts), <<Word("FROM", look), t>>, look, W),
         NEW toks, NEW all, TokensOf(toks, all), At(all, 1, FromHead(texts, t, look))
  PROVE  HeadRead(toks, x, t, 2 + Len(Selected(texts)))
<1> DEFINE A == <<Word("SELECT", look)>>
           N == Selected(texts)
           F == <<Word("FROM", look), t>>
           H == FromHead(texts, t, look)
           f == 2 + Len(N)
<1>1. /\ Base(T) /\ Picked(T, texts, x) /\ t \in Seq(T) /\ IsWord(t) /\ x \in Seq(Seq(T))
  BY DEF Heading
<1>2. Len(A) = 1 /\ Reads(Tok(A[1]), "SELECT")
  <2>1. "SELECT" \in Keyword /\ Base(T)
    BY <1>1 DEF Keyword
  <2> QED BY <2>1, OneKeyword
<1>3. Len(F) = 2 /\ Reads(Tok(F[1]), "FROM") /\ Tok(F[2]) = t
  <2> DEFINE E == {}
  <2>1. \A w \in E : w # "FROM" /\ ~Reads(t, w)
    OBVIOUS
  <2> HIDE DEF E
  <2> QED BY <1>1, <2>1, FromTable
<1>4. /\ H \in Seq(Free(T, W)) /\ Len(H) = 3 + Len(N) + 0 /\ Len(N) \in Nat
      /\ At(H, 1, A) /\ At(H, 2, N) /\ At(H, f, F)
  BY DEF HeadAt
<1> HIDE DEF A, N, F, H, f
<1>5. Len(N) \in Nat /\ f = 2 + Len(N)
  BY <1>4 DEF f
<1>6. Len(all) \in Nat /\ Len(toks) = Len(all) /\ Len(H) \in Nat /\ At(all, 1, H)
  BY <1>4, LenProperties DEF TokensOf, H
<1>7. At(all, 1, A) /\ At(all, 2, N) /\ At(all, f, F)
  <2>1. Len(A) \in Nat /\ Len(F) \in Nat
    BY <1>2, <1>3
  <2>2. At(all, 1 + 1 - 1, A) /\ At(all, 1 + 2 - 1, N) /\ At(all, 1 + f - 1, F)
    BY <1>4, <1>5, <1>6, <2>1, AtWithin
  <2>3. 1 + 1 - 1 = 1 /\ 1 + 2 - 1 = 2 /\ 1 + f - 1 = f
    BY ONLY <1>5
  <2> QED BY <2>2, <2>3
<1>8. Is(toks, 1, "SELECT")
  <2>1. TokensOf(toks, all) /\ Len(A) = 1 /\ At(all, 1, A) /\ Reads(Tok(A[1]), "SELECT")
    BY <1>2, <1>7
  <2> QED BY ONLY <2>1, OneRead
<1>9. f + 1 <= Len(toks) /\ f <= Len(toks) /\ toks[f] = Tok(F[1]) /\ toks[f + 1] = Tok(F[2])
  <2>1. TokensOf(toks, all) /\ At(all, f, F) /\ Len(F) = 2 /\ 2 \in Nat
    BY <1>3, <1>7
  <2>2. ReadAs(toks, f, F, 2)
    BY ONLY <2>1, TokenIs
  <2>3. \A i \in 0 .. 1 : f + i <= Len(toks) /\ toks[f + i] = Tok(F[i + 1])
    BY <2>2 DEF ReadAs
  <2>4. 0 \in 0 .. 1 /\ 1 \in 0 .. 1 /\ 0 + 1 = 1 /\ 1 + 1 = 2
    OBVIOUS
  <2>5. f + 0 = f
    BY ONLY <1>5
  <2>6. f + 0 <= Len(toks) /\ f + 1 <= Len(toks) /\ toks[f + 0] = Tok(F[0 + 1])
        /\ toks[f + 1] = Tok(F[1 + 1])
    BY <2>3, <2>4
  <2> QED BY <2>4, <2>5, <2>6
<1>10. Is(toks, f, "FROM") /\ toks[f + 1] = t
  BY <1>3, <1>9, IsReads
<1>11. selected(toks).items = x /\ selected(toks).next = f
  <2>1. /\ Base(T) /\ x \in Seq(Seq(T)) /\ Picked(T, texts, x) /\ TokensOf(toks, all)
        /\ N = Selected(texts) /\ At(all, 2, N)
    BY <1>1, <1>7 DEF N
  <2>2. 2 + Len(N) <= Len(all) /\ Reads(toks[2 + Len(N)], "FROM")
    BY <1>3, <1>5, <1>6, <1>9
  <2>3. selected(toks).items = x /\ selected(toks).next = 2 + Len(N)
    BY ONLY <2>1, <2>2, SelectedRead
  <2> QED BY <1>5, <2>3
<1>12. HeadRead(toks, x, t, f)
  BY <1>5, <1>6, <1>8, <1>9, <1>10, <1>11 DEF HeadRead
<1> QED BY <1>12 DEF f, N

(* The first piece of the head.                                            *)
LEMMA HeadFirst ==
  ASSUME NEW T, Base(T), NEW H, NEW N, NEW F, NEW look, NEW W, HeadAt(T, H, N, F, look, W)
  PROVE  Len(H) \in Nat /\ Len(H) >= 3 /\ Len(H[1]) = 1 /\ Reads(H[1], "SELECT")
<1> DEFINE A == <<Word("SELECT", look)>>
<1>1. Len(A) = 1 /\ Reads(A[1], "SELECT") /\ Len(A[1]) = 1
  <2>1. "SELECT" \in Keyword
    BY DEF Keyword
  <2> QED BY <2>1, OneKeyword
<1>2. Len(H) = 3 + Len(N) /\ Len(N) \in Nat /\ At(H, 1, A)
  BY DEF HeadAt
<1> HIDE DEF A
<1>3. H[1] = A[1]
  <2>1. 1 \in 1 .. Len(A) /\ 1 + 1 - 1 = 1
    BY <1>1
  <2>2. H[1 + 1 - 1] = A[1]
    BY <1>2, <2>1 DEF At
  <2> QED BY <2>1, <2>2
<1>4. Len(H) \in Nat /\ Len(H) >= 3
  BY <1>2
<1> QED BY <1>1, <1>3, <1>4

(* A token reads JOIN, or none does.                                       *)
LEMMA NoJoin ==
  ASSUME NEW toks, NEW all, TokensOf(toks, all), Without(all, "JOIN")
  PROVE  ~\E i \in DOMAIN toks : Is(toks, i, "JOIN")
<1>1. \A i \in DOMAIN toks : i \in 1 .. Len(all) /\ toks[i] = Tok(all[i])
  BY DEF TokensOf
<1> QED BY <1>1, IsReads DEF Without

-----------------------------------------------------------------------------
(* SELECT.                                                                 *)
Selecting(T, q, look) ==
  /\ q = [table |-> q.table, cols |-> q.cols, where |-> q.where, limit |-> q.limit]
  /\ Heading(T, q.cols, q.cols, q.table, look)
  /\ Clauses(T, q.where.col, q.where.col, q, look) /\ Meant(q.where.col, q.where) = q.where
  /\ q.limit \in Int
  /\ ~Reads(q.table, "JOIN") /\ \A k \in 1 .. Len(q.cols) : ~Reads(q.cols[k], "JOIN")
  /\ q.where.active => ~Reads(q.where.col, "JOIN") /\ ~Reads(q.where.val, "JOIN")

(* A statement of two parts of which the first is as it has to be.         *)
LEMMA TwoParts ==
  ASSUME NEW T, NEW H, NEW W, Flows(T, H), Flows(T, W)
  PROVE  /\ Flows(T, H \o W) /\ Len(H \o W) = Len(H) + Len(W) /\ Len(H) \in Nat /\ Len(W) \in Nat
         /\ At(H \o W, 1, H) /\ At(H \o W, Len(H) + 1, W)
         /\ \A w : Without(H, w) /\ Without(W, w) => Without(H \o W, w)
<1> DEFINE S == Texts(T)
<1>1. H \in Seq(S) /\ W \in Seq(S)
  BY DEF Flows
<1>2. Flows(T, H \o W)
  BY FlowsBoth
<1> HIDE DEF S
<1>3. /\ Len(H \o W) = Len(H) + Len(W) /\ Len(H) \in Nat /\ Len(W) \in Nat
      /\ At(H \o W, 1, H) /\ At(H \o W, Len(H) + 1, W)
  BY ONLY <1>1, Halves
<1>4. \A w : Without(H, w) /\ Without(W, w) => Without(H \o W, w)
  BY <1>1, WithoutBoth
<1> QED BY <1>2, <1>3, <1>4

(* SELECT from one table is read back.                                     *)
LEMMA SelectWritten ==
  ASSUME NEW T, NEW q, NEW look, Selecting(T, q, look)
  PROVE  Written(T, look, Parsed("select", q), "SELECT")
<1> DEFINE s == Parsed("select", q)
           all == Pieces(s, look)
           t == q.table
           x == q.cols
           wh == q.where
           lim == q.limit
           H == FromHead(x, t, look)
           N == Selected(x)
           F == <<Word("FROM", look), t>>
           W == WhereLimit(wh.col, q, look)
           J == {"JOIN"}
<1>1. /\ q = [table |-> t, cols |-> x, where |-> wh, limit |-> lim]
      /\ Heading(T, x, x, t, look) /\ Clauses(T, wh.col, wh.col, q, look)
      /\ Meant(wh.col, wh) = wh /\ lim \in Int
      /\ ~Reads(t, "JOIN") /\ (\A k \in 1 .. Len(x) : ~Reads(x[k], "JOIN"))
      /\ (wh.active => ~Reads(wh.col, "JOIN") /\ ~Reads(wh.val, "JOIN")) /\ Base(T)
  BY DEF Selecting, Heading
<1>2. all = H \o W
  <2>1. s.kind = "select" /\ s.stmt = q
    BY DEF Parsed
  <2> HIDE DEF s
  <2>2. Pieces(s, look) = SelectPieces(s.stmt, look)
    BY <2>1 DEF Pieces
  <2> QED BY <2>1, <2>2, Zenon DEF SelectPieces, FromHead
<1>3. HeadAt(T, H, N, F, look, J)
  <2>1. J \subseteq {"JOIN"} /\ \A w \in J : ~Reads(t, w) /\ \A k \in 1 .. Len(x) : ~Reads(x[k], w)
    BY <1>1
  <2>2. Heading(T, x, x, t, look)
    BY <1>1
  <2> HIDE DEF J, t, x
  <2>3. HeadAt(T, FromHead(x, t, look), Selected(x), <<Word("FROM", look), t>>, look, J)
    BY ONLY <2>1, <2>2, HeadIs
  <2> QED BY <2>3
<1>4. Flows(T, W) /\ Without(W, "JOIN")
  <2>1. /\ Clauses(T, wh.col, wh.col, q, look)
        /\ q.where.active => ~Reads(wh.col, "JOIN") /\ ~Reads(q.where.val, "JOIN")
    BY <1>1
  <2> DEFINE c == wh.col
  <2>2. Clauses(T, c, c, q, look)
      /\ (q.where.active => ~Reads(c, "JOIN") /\ ~Reads(q.where.val, "JOIN"))
    BY <2>1
  <2> HIDE DEF c
  <2>3. Flows(T, WhereLimit(c, q, look)) /\ Without(WhereLimit(c, q, look), "JOIN")
    BY ONLY <2>2, ClausesFlow
  <2> QED BY <2>3 DEF c
<1>5. Flows(T, H) /\ Without(H, "JOIN") /\ Len(H) = 3 + Len(N) /\ Len(N) \in Nat
  <2>1. H \in Seq(Free(T, J)) /\ Len(H) = 3 + Len(N) /\ Len(N) \in Nat
    BY <1>3 DEF HeadAt
  <2>2. "JOIN" \in J
    OBVIOUS
  <2> HIDE DEF H, J
  <2> QED BY <2>1, <2>2, FreeIs, FlowsGood
<1>6. Len(H) >= 3 /\ Len(H[1]) = 1 /\ Reads(H[1], "SELECT")
  <2> HIDE DEF H, N, F, J
  <2> QED BY <1>1, <1>3, HeadFirst
<1> HIDE DEF W
<1>7. /\ Flows(T, all) /\ Len(all) = Len(H) + Len(W) /\ Len(W) \in Nat
      /\ At(all, 1, H) /\ At(all, Len(H) + 1, W) /\ Without(all, "JOIN")
  <2> HIDE DEF H, N, all
  <2>1. Flows(T, H) /\ Flows(T, W) /\ Without(H, "JOIN") /\ Without(W, "JOIN")
    BY <1>4, <1>5
  <2>2. /\ Flows(T, H \o W) /\ Len(H \o W) = Len(H) + Len(W) /\ Len(H) \in Nat /\ Len(W) \in Nat
        /\ At(H \o W, 1, H) /\ At(H \o W, Len(H) + 1, W) /\ Without(H \o W, "JOIN")
    BY ONLY <2>1, TwoParts
  <2> QED BY <1>2, <2>2
<1> DEFINE f == 2 + Len(N)
<1>8. f \in Nat /\ Len(H) + 1 = f + 2 /\ f + 2 + Len(W) = Len(all) + 1 /\ Len(all) >= 1
  <2> DEFINE n == Len(N)
             h == Len(H)
             w == Len(W)
             a == Len(all)
  <2>1. h = 3 + n /\ n \in Nat /\ a = h + w /\ w \in Nat
    BY <1>5, <1>7
  <2> HIDE DEF n, h, w, a
  <2>2. 2 + n \in Nat /\ h + 1 = 2 + n + 2 /\ 2 + n + 2 + w = a + 1 /\ a >= 1
    BY ONLY <2>1
  <2> QED BY <2>2 DEF n, h, w, a
<1>9. all[1] = H[1]
  <2>1. 1 \in 1 .. Len(H) /\ 1 + 1 - 1 = 1
    BY <1>5, <1>6
  <2>2. all[1 + 1 - 1] = H[1]
    BY <1>7, <2>1 DEF At
  <2> QED BY <2>1, <2>2
<1> HIDE DEF s, all
<1>10. ASSUME NEW toks, TokensOf(toks, all) PROVE Chosen(toks, "SELECT") = s
  <2>1. HeadRead(toks, x, t, f)
    <3>1. /\ Heading(T, x, x, t, look)
              /\ HeadAt(T, FromHead(x, t, look), Selected(x), <<Word("FROM", look), t>>, look, J)
          /\ TokensOf(toks, all) /\ At(all, 1, FromHead(x, t, look))
      BY <1>1, <1>3, <1>7, <1>10
    <3> HIDE DEF x, t, J
    <3>2. HeadRead(toks, x, t, 2 + Len(Selected(x)))
      BY ONLY <3>1, HeadIsRead
    <3> QED BY <3>2
  <2>2. /\ Is(toks, 1, "SELECT") /\ Is(toks, f, "FROM") /\ toks[f + 1] = t
        /\ selected(toks).items = x /\ selected(toks).next = f
    BY <2>1 DEF HeadRead
  <2>3. ClausesMeant(toks, f + 2, wh.col, q)
    <3>1. EndsWith(toks, all, f + 2, W)
      BY <1>7, <1>8, <1>10 DEF EndsWith
    <3> DEFINE c == wh.col
               a == f + 2
    <3>2. Clauses(T, c, c, q, look) /\ EndsWith(toks, all, a, WhereLimit(c, q, look))
      BY <1>1, <3>1 DEF W
    <3> HIDE DEF c, a
    <3>3. ClausesMeant(toks, a, c, q)
      BY ONLY <3>2, ClausesRead
    <3> QED BY <3>3 DEF c, a
  <2>4. where_at(toks, f + 2) = wh /\ limit_at(toks, after_where(toks, f + 2)) = lim
    BY <1>1, <2>3 DEF ClausesMeant
  <2>5. lim # NaN
    BY <1>1, CharactersAssumption
  <2>6. exec_select(toks)
          = LET g == selected(toks).next
                l == limit_at(toks, after_where(toks, g + 2))
            IN  IF Is(toks, 1, "SELECT") /\ Is(toks, g, "FROM") /\ l # NaN
                THEN Parsed("select", [table |-> toks[g + 1], cols |-> selected(toks).items,
                                       where |-> where_at(toks, g + 2), limit |-> l])
                ELSE Failed
    BY Zenon DEF exec_select
  <2> HIDE DEF f, x, t, wh, lim
  <2>7. exec_select(toks) = Parsed("select", [table |-> t, cols |-> x, where |-> wh, limit |-> lim])
    BY <2>2, <2>4, <2>5, <2>6
  <2>8. exec_select(toks) = s
    BY <1>1, <2>7 DEF s
  <2>9. ~\E i \in DOMAIN toks : Is(toks, i, "JOIN")
    BY <1>7, <1>10, NoJoin
  <2>10. Chosen(toks, "SELECT") = exec_select(toks)
    <3>1. "SELECT" # "CREATE" /\ "SELECT" # "INSERT" /\ "SELECT" # "DELETE"
      OBVIOUS
    <3> QED BY <2>9, <3>1 DEF Chosen
  <2> QED BY <2>8, <2>10
<1>11. Gives(all, "SELECT", s)
  BY <1>10 DEF Gives
<1>12. Written(T, look, s, "SELECT")
  BY <1>6, <1>7, <1>8, <1>9, <1>11 DEF Written, all
<1> QED BY <1>12 DEF s

-----------------------------------------------------------------------------
(* JOIN, the table and the condition of ON.                                *)
LEMMA Six ==
  ASSUME NEW S, NEW x1 \in S, NEW x2 \in S, NEW x3 \in S, NEW x4 \in S, NEW x5 \in S, NEW x6 \in S
  PROVE  LET P == <<x1, x2, x3, x4, x5, x6>>
         IN  /\ P \in Seq(S) /\ Len(P) = 6 /\ P[1] = x1 /\ P[2] = x2 /\ P[3] = x3 /\ P[4] = x4
             /\ P[5] = x5 /\ P[6] = x6
OBVIOUS

JoinText(r, a, b, look) == <<Word("JOIN", look), r, Word("ON", look), a, <<"=">>, b>>
IsJoin(T, P, r, a, b) ==
  /\ P \in Seq(Good(T)) /\ Len(P) = 6 /\ Reads(Tok(P[1]), "JOIN") /\ Tok(P[2]) = r
  /\ Reads(Tok(P[3]), "ON") /\ Tok(P[4]) = a /\ Reads(Tok(P[5]), "=") /\ Tok(P[6]) = b

(* What the pieces of JOIN are.                                            *)
LEMMA JoinTextIs ==
  ASSUME NEW T, Base(T), NEW r \in Seq(T), IsWord(r), NEW a \in Seq(T), IsWord(a),
         NEW b \in Seq(T), IsWord(b), NEW look
  PROVE  IsJoin(T, JoinText(r, a, b, look), r, a, b)
<1> DEFINE p1 == Word("JOIN", look)
           p3 == Word("ON", look)
           p5 == OneSign("=")
           S == Good(T)
           P == JoinText(r, a, b, look)
<1>1. Fits(T, p1, p1) /\ Reads(p1, "JOIN") /\ Fits(T, p3, p3) /\ Reads(p3, "ON")
  <2>1. "JOIN" \in Keyword /\ "ON" \in Keyword
    BY DEF Keyword
  <2> QED BY <2>1, KeywordIs
<1>2. Fits(T, p5, p5) /\ Reads(p5, "=")
  <2>1. "=" \in OtherSigns
    BY DEF OtherSigns
  <2> QED BY <2>1, SignIs DEF OneSign
<1>3. Fits(T, r, r) /\ Fits(T, a, a) /\ Fits(T, b, b)
  BY WordIs
<1>4. P = <<p1, r, p3, a, p5, b>>
  BY DEF JoinText, OneSign
<1> HIDE DEF p1, p3, p5, S, P
<1>5. /\ p1 \in S /\ Tok(p1) = p1 /\ p3 \in S /\ Tok(p3) = p3 /\ p5 \in S /\ Tok(p5) = p5
      /\ r \in S /\ Tok(r) = r /\ a \in S /\ Tok(a) = a /\ b \in S /\ Tok(b) = b
  BY <1>1, <1>2, <1>3, FitsGood DEF S
<1>6. /\ P \in Seq(S) /\ Len(P) = 6 /\ P[1] = p1 /\ P[2] = r /\ P[3] = p3 /\ P[4] = a
      /\ P[5] = p5 /\ P[6] = b
  BY <1>4, <1>5, Six
<1>7. IsJoin(T, P, r, a, b)
  BY <1>1, <1>2, <1>5, <1>6 DEF IsJoin, S
<1> QED BY <1>7 DEF P

JoinRead(toks, j, r, a, b) ==
  /\ j \in Nat /\ j + 5 <= Len(toks) /\ Is(toks, j, "JOIN") /\ toks[j + 1] = r
  /\ Is(toks, j + 2, "ON") /\ toks[j + 3] = a /\ Is(toks, j + 4, "=") /\ toks[j + 5] = b

(* JOIN is found and read back.                                            *)
LEMMA JoinIsRead ==
  ASSUME NEW T, NEW P, NEW r, NEW a, NEW b, IsJoin(T, P, r, a, b),
         NEW toks, NEW all, TokensOf(toks, all), NEW j, At(all, j, P)
  PROVE  JoinRead(toks, j, r, a, b)
<1>1. /\ Len(P) = 6 /\ Reads(Tok(P[1]), "JOIN") /\ Tok(P[2]) = r
      /\ Reads(Tok(P[3]), "ON") /\ Tok(P[4]) = a /\ Reads(Tok(P[5]), "=") /\ Tok(P[6]) = b
  BY DEF IsJoin
<1>2. /\ j \in Nat \ {0} /\ Len(toks) \in Nat
      /\ \A i \in 0 .. 5 : j + i <= Len(toks) /\ toks[j + i] = Tok(P[i + 1])
  <2>1. Len(P) = 6 /\ 6 \in Nat /\ TokensOf(toks, all) /\ At(all, j, P)
    BY <1>1
  <2>2. ReadAs(toks, j, P, 6)
    BY ONLY <2>1, TokenIs
  <2> QED BY ONLY <2>2 DEF ReadAs
<1>3. /\ j <= Len(toks) /\ toks[j] = Tok(P[1]) /\ toks[j + 1] = Tok(P[2])
      /\ j + 2 <= Len(toks) /\ toks[j + 2] = Tok(P[3]) /\ toks[j + 3] = Tok(P[4])
      /\ j + 4 <= Len(toks) /\ toks[j + 4] = Tok(P[5]) /\ j + 5 <= Len(toks)
          /\ toks[j + 5] = Tok(P[6])
  <2>1. /\ 0 \in 0 .. 5 /\ 1 \in 0 .. 5 /\ 2 \in 0 .. 5 /\ 3 \in 0 .. 5 /\ 4 \in 0 .. 5
            /\ 5 \in 0 .. 5
        /\ 0 + 1 = 1 /\ 1 + 1 = 2 /\ 2 + 1 = 3 /\ 3 + 1 = 4 /\ 4 + 1 = 5 /\ 5 + 1 = 6
    OBVIOUS
  <2>2. j + 0 = j
    BY ONLY <1>2
  <2>3. /\ j + 0 <= Len(toks) /\ toks[j + 0] = Tok(P[0 + 1]) /\ toks[j + 1] = Tok(P[1 + 1])
        /\ j + 2 <= Len(toks) /\ toks[j + 2] = Tok(P[2 + 1]) /\ toks[j + 3] = Tok(P[3 + 1])
        /\ j + 4 <= Len(toks) /\ toks[j + 4] = Tok(P[4 + 1])
        /\ j + 5 <= Len(toks) /\ toks[j + 5] = Tok(P[5 + 1])
    BY <1>2, <2>1
  <2> QED BY <2>1, <2>2, <2>3
<1>4. Is(toks, j, "JOIN") /\ Is(toks, j + 2, "ON") /\ Is(toks, j + 4, "=")
  BY <1>1, <1>3, IsReads
<1> QED BY <1>1, <1>2, <1>3, <1>4 DEF JoinRead

(* INNER, or nothing.                                                      *)
InnerText(look) == IF look.inner THEN <<Word("INNER", look)>> ELSE <<>>
IsInner(T, I) ==
  /\ I \in Seq(Good(T))
  /\ \/ Len(I) = 0 /\ I = <<>>
     \/ Len(I) = 1 /\ Reads(Tok(I[1]), "INNER")

(* INNER before JOIN, or nothing.                                          *)
LEMMA InnerIs ==
  ASSUME NEW T, Base(T), NEW look
  PROVE  IsInner(T, InnerText(look))
<1>1. CASE look.inner
  <2> DEFINE P == <<Word("INNER", look)>>
  <2>1. "INNER" \in Keyword
    BY DEF Keyword
  <2>2. P \in Seq(Good(T)) /\ Len(P) = 1 /\ Reads(Tok(P[1]), "INNER")
    BY <2>1, OneKeyword
  <2>3. InnerText(look) = P
    BY <1>1 DEF InnerText
  <2> HIDE DEF P
  <2> QED BY <2>2, <2>3 DEF IsInner
<1>2. CASE ~look.inner
  <2>1. InnerText(look) = <<>>
    BY <1>2 DEF InnerText
  <2> QED BY <2>1 DEF IsInner
<1> QED BY <1>1, <1>2

(* INNER before JOIN is skipped.                                           *)
LEMMA InnerRead ==
  ASSUME NEW T, NEW I, IsInner(T, I), NEW toks, NEW all, TokensOf(toks, all), NEW g \in Nat,
         At(all, g, I), Is(toks, g + Len(I), "JOIN")
  PROVE  Skip(toks, g, "INNER") = g + Len(I)
<1>1. CASE Len(I) = 0
  <2>1. g + Len(I) = g
    BY <1>1
  <2>2. Reads(toks[g], "JOIN") /\ "JOIN" # "INNER"
    BY <2>1, IsReads
  <2>3. ~Is(toks, g, "INNER")
    BY <2>2, ReadsOne, IsReads
  <2> QED BY <2>1, <2>3 DEF Skip
<1>2. CASE Len(I) = 1 /\ Reads(Tok(I[1]), "INNER")
  <2>1. TokensOf(toks, all) /\ Len(I) = 1 /\ At(all, g, I) /\ Reads(Tok(I[1]), "INNER")
    BY <1>2
  <2>2. Is(toks, g, "INNER")
    BY ONLY <2>1, OneRead
  <2>3. g + Len(I) = g + 1
    BY <1>2
  <2> QED BY <2>2, <2>3 DEF Skip
<1> QED BY <1>1, <1>2 DEF IsInner

-----------------------------------------------------------------------------
(* A join.                                                                 *)
Refs(cols) == [i \in DOMAIN cols |-> Reference(cols[i])]
Joining(T, q, look) ==
  /\ q = [left |-> q.left, right |-> q.right, on |-> <<q.on[1], q.on[2]>>,
          cols |-> q.cols, where |-> q.where, limit |-> q.limit]
  /\ Heading(T, Refs(q.cols), Refs(q.cols), q.left, look)
  /\ [i \in DOMAIN Refs(q.cols) |-> split_ref(Refs(q.cols)[i])] = q.cols
  /\ q.right \in Seq(T) /\ IsWord(q.right)
  /\ \A i \in {1, 2} : /\ Reference(q.on[i]) \in Seq(T) /\ IsWord(Reference(q.on[i]))
                       /\ split_ref(Reference(q.on[i])) = q.on[i]
  /\ Clauses(T, Reference(q.where.col), Reference(q.where.col), q, look)
  /\ [Meant(Reference(q.where.col), q.where) EXCEPT !.col = split_ref(@)] = q.where
  /\ q.limit \in Int

JoinAt(T, q, look, all, j, a) ==
  LET H == FromHead(Refs(q.cols), q.left, look)
      f == 2 + Len(Selected(Refs(q.cols)))
      I == InnerText(look)
      P == JoinText(q.right, Reference(q.on[1]), Reference(q.on[2]), look)
      W == WhereLimit(Reference(q.where.col), q, look)
  IN  /\ Flows(T, all) /\ Len(all) >= 1 /\ Len(all[1]) = 1 /\ Reads(all[1], "SELECT")
      /\ f \in Nat /\ j = f + 2 + Len(I) /\ Len(I) \in Nat /\ a = j + 6
      /\ At(all, 1, H) /\ At(all, f + 2, I) /\ At(all, j, P) /\ At(all, a, W)
      /\ a + Len(W) = Len(all) + 1

(* The pieces of a SELECT from two tables, grouped into its parts.         *)
LEMMA JoinPiecesAre ==
  ASSUME NEW q, NEW look
  PROVE  Pieces(Parsed("join", q), look)
           = ((FromHead(Refs(q.cols), q.left, look) \o InnerText(look))
                \o JoinText(q.right, Reference(q.on[1]), Reference(q.on[2]), look))
               \o WhereLimit(Reference(q.where.col), q, look)
<1> DEFINE s == Parsed("join", q)
<1>1. s.kind = "join" /\ s.stmt = q
  BY DEF Parsed
<1> HIDE DEF s
<1>2. Pieces(s, look) = JoinPieces(s.stmt, look)
  BY <1>1 DEF Pieces
<1>3. JoinPieces(q, look)
        = ((FromHead(Refs(q.cols), q.left, look) \o InnerText(look))
             \o JoinText(q.right, Reference(q.on[1]), Reference(q.on[2]), look))
            \o WhereLimit(Reference(q.where.col), q, look)
  BY Zenon DEF JoinPieces, FromHead, Refs, InnerText, JoinText
<1> QED BY <1>1, <1>2, <1>3 DEF s

-----------------------------------------------------------------------------

(* Where the parts of a SELECT from two tables start.                      *)
LEMMA JoinParts ==
  ASSUME NEW T, NEW q, NEW look, Joining(T, q, look)
  PROVE  \E j, a : JoinAt(T, q, look, Pieces(Parsed("join", q), look), j, a)
<1> DEFINE x == Refs(q.cols)
           t == q.left
           H == FromHead(x, t, look)
           N == Selected(x)
           F == <<Word("FROM", look), t>>
           I == InnerText(look)
           P == JoinText(q.right, Reference(q.on[1]), Reference(q.on[2]), look)
           c == Reference(q.where.col)
           W == WhereLimit(c, q, look)
           G == (H \o I) \o P
           all == G \o W
           E == {}
           S == Good(T)
           n == Len(N)
           i == Len(I)
           j == 2 + n + 2 + i
           a == j + 6
<1>1. all = Pieces(Parsed("join", q), look)
  BY JoinPiecesAre
<1>2. /\ Base(T) /\ Heading(T, x, x, t, look) /\ q.right \in Seq(T) /\ IsWord(q.right)
      /\ Reference(q.on[1]) \in Seq(T) /\ IsWord(Reference(q.on[1]))
      /\ Reference(q.on[2]) \in Seq(T) /\ IsWord(Reference(q.on[2]))
      /\ Clauses(T, c, c, q, look)
  BY DEF Joining, Heading
<1>3. HeadAt(T, H, N, F, look, E)
  <2>1. /\ E \subseteq {"JOIN"} /\ \A w \in E : ~Reads(t, w)
            /\ \A k \in 1 .. Len(x) : ~Reads(x[k], w)
        /\ Heading(T, x, x, t, look)
    BY <1>2
  <2> HIDE DEF E, t, x
  <2>2. HeadAt(T, FromHead(x, t, look), Selected(x), <<Word("FROM", look), t>>, look, E)
    BY ONLY <2>1, HeadIs
  <2> QED BY <2>2
<1>4. Flows(T, W) /\ Len(W) \in Nat
  <2>1. Clauses(T, c, c, q, look)
    BY <1>2
  <2> HIDE DEF c
  <2>2. Flows(T, WhereLimit(c, q, look)) /\ Len(WhereLimit(c, q, look)) \in Nat
    BY ONLY <2>1, ClausesFlow
  <2> QED BY <2>2
<1>5. H \in Seq(S) /\ Len(H) = 3 + n /\ n \in Nat
  <2>1. H \in Seq(Free(T, E)) /\ Len(H) = 3 + n /\ n \in Nat
    BY <1>3 DEF HeadAt
  <2> HIDE DEF H, E, n
  <2> QED BY <2>1, FreeIs
<1>6. Len(H[1]) = 1 /\ Reads(H[1], "SELECT") /\ Len(H) >= 3
  <2> HIDE DEF H, N, F, E
  <2> QED BY <1>2, <1>3, HeadFirst
<1>7. IsInner(T, I) /\ I \in Seq(S) /\ i \in Nat
  <2>1. IsInner(T, I)
    BY <1>2, InnerIs
  <2> HIDE DEF I
  <2> QED BY <2>1, LenProperties DEF IsInner
<1>8. P \in Seq(S) /\ Len(P) = 6
  <2>1. IsJoin(T, P, q.right, Reference(q.on[1]), Reference(q.on[2]))
    BY <1>2, JoinTextIs
  <2> QED BY <2>1 DEF IsJoin
<1> HIDE DEF H, N, F, I, P, W, S, E, c, x, t
<1>9. /\ G \in Seq(S) /\ Len(G) = Len(H) + i + Len(P)
      /\ At(G, 1, H) /\ At(G, Len(H) + 1, I) /\ At(G, Len(H) + i + 1, P)
  <2>1. LET z == (H \o I) \o P
        IN  /\ z \in Seq(S) /\ Len(z) = Len(H) + Len(I) + Len(P)
            /\ Len(H) \in Nat /\ Len(I) \in Nat /\ Len(P) \in Nat
            /\ At(z, 1, H) /\ At(z, Len(H) + 1, I) /\ At(z, Len(H) + Len(I) + 1, P)
    BY ONLY <1>5, <1>7, <1>8, Thirds
  <2> QED BY <2>1
<1> HIDE DEF G
<1>10. Flows(T, G)
  BY <1>9, FlowsGood DEF S
<1>11. /\ Flows(T, all) /\ Len(all) = Len(G) + Len(W) /\ Len(G) \in Nat
       /\ At(all, 1, G) /\ At(all, Len(G) + 1, W)
  BY <1>4, <1>10, TwoParts
<1> HIDE DEF all
<1> DEFINE h == Len(H)
           g == Len(G)
           w == Len(W)
           m == Len(all)
<1>12. /\ h = 3 + n /\ g = h + i + 6 /\ n \in Nat /\ i \in Nat /\ w \in Nat /\ m = g + w
  BY <1>4, <1>5, <1>7, <1>8, <1>9, <1>11
<1> HIDE DEF h, g, w, m, n, i, j, a
<1>13. /\ h + 1 = 2 + n + 2 /\ h + i + 1 = j /\ g + 1 = a /\ a + w = m + 1 /\ m >= 1
           /\ 2 + n \in Nat
       /\ m \in Nat /\ g \in Nat /\ h \in Nat
  BY ONLY <1>12 DEF j, a
<1>14. At(all, 1, H) /\ At(all, 2 + n + 2, I) /\ At(all, j, P) /\ At(all, a, W)
  <2>1. /\ m \in Nat /\ g \in Nat /\ Len(H) \in Nat /\ Len(I) \in Nat /\ Len(P) \in Nat
    BY <1>8, <1>12, <1>13 DEF h, i
  <2>2. At(G, 1, H) /\ At(G, 2 + n + 2, I) /\ At(G, j, P)
    BY <1>9, <1>13 DEF h, i
  <2>3. At(all, 1 + 1 - 1, H) /\ At(all, 1 + (2 + n + 2) - 1, I) /\ At(all, 1 + j - 1, P)
    BY <1>11, <2>1, <2>2, AtWithin DEF m, g
  <2>4. 1 + 1 - 1 = 1 /\ 1 + (2 + n + 2) - 1 = 2 + n + 2 /\ 1 + j - 1 = j
    BY ONLY <1>12 DEF j
  <2> QED BY <1>11, <1>13, <2>3, <2>4 DEF g
<1>15. all[1] = H[1]
  <2>1. 1 \in 1 .. Len(H) /\ 1 + 1 - 1 = 1
    BY <1>12, <1>13 DEF h
  <2>2. all[1 + 1 - 1] = H[1]
    BY <1>14, <2>1 DEF At
  <2> QED BY <2>1, <2>2
<1>16. a = j + 6 /\ j = 2 + n + 2 + i
  BY DEF a, j
<1>17. Len(all) >= 1 /\ a + Len(W) = Len(all) + 1
  BY <1>13 DEF w, m
<1>18. JoinAt(T, q, look, all, j, a)
  BY <1>6, <1>11, <1>12, <1>13, <1>14, <1>15, <1>16, <1>17 DEF JoinAt, H, I, P, W, N, c, x, t, n, i
<1> QED BY <1>1, <1>18

(* SELECT from two tables is read back.                                    *)
LEMMA JoinWritten ==
  ASSUME NEW T, NEW q, NEW look, Joining(T, q, look)
  PROVE  Written(T, look, Parsed("join", q), "SELECT")
<1> DEFINE s == Parsed("join", q)
           all == Pieces(s, look)
           x == Refs(q.cols)
           t == q.left
           r == q.right
           u == Reference(q.on[1])
           v == Reference(q.on[2])
           wh == q.where
           lim == q.limit
           c == Reference(wh.col)
           H == FromHead(x, t, look)
           N == Selected(x)
           F == <<Word("FROM", look), t>>
           I == InnerText(look)
           P == JoinText(r, u, v, look)
           W == WhereLimit(c, q, look)
           f == 2 + Len(N)
           E == {}
<1>1. /\ q = [left |-> t, right |-> r, on |-> <<q.on[1], q.on[2]>>,
              cols |-> q.cols, where |-> wh, limit |-> lim]
      /\ Heading(T, x, x, t, look) /\ [i \in DOMAIN x |-> split_ref(x[i])] = q.cols
      /\ r \in Seq(T) /\ IsWord(r) /\ u \in Seq(T) /\ IsWord(u) /\ v \in Seq(T) /\ IsWord(v)
      /\ split_ref(u) = q.on[1] /\ split_ref(v) = q.on[2]
      /\ Clauses(T, c, c, q, look) /\ [Meant(c, wh) EXCEPT !.col = split_ref(@)] = wh
      /\ lim \in Int /\ Base(T)
  BY DEF Joining, Heading
<1>2. PICK j, a : JoinAt(T, q, look, all, j, a)
  BY JoinParts
<1>3. /\ Flows(T, all) /\ Len(all) >= 1 /\ Len(all[1]) = 1 /\ Reads(all[1], "SELECT")
      /\ f \in Nat /\ j = f + 2 + Len(I) /\ Len(I) \in Nat /\ a = j + 6
      /\ At(all, 1, H) /\ At(all, f + 2, I) /\ At(all, j, P) /\ At(all, a, W)
      /\ a + Len(W) = Len(all) + 1
  BY <1>2 DEF JoinAt
<1>4. HeadAt(T, H, N, F, look, E)
  <2>1. /\ E \subseteq {"JOIN"} /\ \A w \in E : ~Reads(t, w)
            /\ \A k \in 1 .. Len(x) : ~Reads(x[k], w)
        /\ Heading(T, x, x, t, look)
    BY <1>1
  <2> HIDE DEF E, t, x
  <2>2. HeadAt(T, FromHead(x, t, look), Selected(x), <<Word("FROM", look), t>>, look, E)
    BY ONLY <2>1, HeadIs
  <2> QED BY <2>2
<1>5. IsInner(T, I) /\ IsJoin(T, P, r, u, v)
  <2> HIDE DEF r, u, v
  <2> QED BY <1>1, InnerIs, JoinTextIs
<1> HIDE DEF s, all, E
<1>6. ASSUME NEW toks, TokensOf(toks, all) PROVE Chosen(toks, "SELECT") = s
  <2>1. HeadRead(toks, x, t, f)
    <3>1. /\ Heading(T, x, x, t, look)
          /\ HeadAt(T, FromHead(x, t, look), Selected(x), <<Word("FROM", look), t>>, look, E)
          /\ TokensOf(toks, all) /\ At(all, 1, FromHead(x, t, look))
      BY <1>1, <1>3, <1>4, <1>6
    <3> HIDE DEF x, t
    <3>2. HeadRead(toks, x, t, 2 + Len(Selected(x)))
      BY ONLY <3>1, HeadIsRead
    <3> QED BY <3>2
  <2>2. /\ Is(toks, 1, "SELECT") /\ Is(toks, f, "FROM") /\ toks[f + 1] = t
        /\ selected(toks).items = x /\ selected(toks).next = f
    BY <2>1 DEF HeadRead
  <2> HIDE DEF f, H, N, I, P, W, r, u, v, x, t, wh, lim, c
  <2>3. JoinRead(toks, j, r, u, v)
    <3>1. IsJoin(T, P, r, u, v) /\ TokensOf(toks, all) /\ At(all, j, P)
      BY <1>3, <1>5, <1>6
    <3> QED BY ONLY <3>1, JoinIsRead
  <2>4. /\ Is(toks, j, "JOIN") /\ toks[j + 1] = r
        /\ Is(toks, j + 2, "ON") /\ toks[j + 3] = u /\ Is(toks, j + 4, "=") /\ toks[j + 5] = v
    BY <2>3 DEF JoinRead
  <2>5. Skip(toks, f + 2, "INNER") = j
    <3> DEFINE g == f + 2
    <3>1. /\ IsInner(T, I) /\ TokensOf(toks, all) /\ g \in Nat /\ At(all, g, I)
          /\ Is(toks, g + Len(I), "JOIN")
      BY <1>3, <1>5, <1>6, <2>4
    <3>2. j = g + Len(I)
      BY <1>3
    <3> HIDE DEF g
    <3>3. Skip(toks, g, "INNER") = g + Len(I)
      BY ONLY <3>1, InnerRead
    <3> QED BY <3>2, <3>3 DEF g
  <2>6. ClausesMeant(toks, j + 6, c, q)
    <3>1. Clauses(T, c, c, q, look) /\ EndsWith(toks, all, a, WhereLimit(c, q, look))
      BY <1>1, <1>3, <1>6 DEF EndsWith, W
    <3>2. ClausesMeant(toks, a, c, q)
      BY ONLY <3>1, ClausesRead
    <3> QED BY <1>3, <3>2
  <2>7. where_at(toks, j + 6) = Meant(c, wh) /\ limit_at(toks, after_where(toks, j + 6)) = lim
    BY <2>6 DEF ClausesMeant, wh, lim
  <2>8. lim # NaN
    BY <1>1, CharactersAssumption
  <2>9. exec_join(toks)
          = LET sel == selected(toks)
                g == sel.next
                k == Skip(toks, g + 2, "INNER")
                l == limit_at(toks, after_where(toks, k + 6))
            IN  IF /\ Is(toks, 1, "SELECT") /\ Is(toks, g, "FROM") /\ Is(toks, k, "JOIN")
                   /\ Is(toks, k + 2, "ON") /\ Is(toks, k + 4, "=") /\ l # NaN
                THEN Parsed("join", [left |-> toks[g + 1], right |-> toks[k + 1],
                                     on |-> <<split_ref(toks[k + 3]), split_ref(toks[k + 5])>>,
                                     cols |-> [i \in DOMAIN sel.items |-> split_ref(sel.items[i])],
                                     limit |-> l,
                                     where |-> [where_at(toks, k + 6) EXCEPT !.col = split_ref(@)]])
                ELSE Failed
    BY Zenon DEF exec_join
  <2>10. exec_join(toks)
           = Parsed("join", [left |-> t, right |-> r, on |-> <<split_ref(u), split_ref(v)>>,
                             cols |-> [i \in DOMAIN x |-> split_ref(x[i])], limit |-> lim,
                             where |-> [Meant(c, wh) EXCEPT !.col = split_ref(@)]])
    BY <2>2, <2>4, <2>5, <2>7, <2>8, <2>9
  <2>11. exec_join(toks) = s
    BY <1>1, <2>10 DEF s
  <2>12. \E i \in DOMAIN toks : Is(toks, i, "JOIN")
    <3>1. DOMAIN toks = 1 .. Len(toks)
      BY <1>6 DEF TokensOf
    <3>2. j \in DOMAIN toks
      BY <1>3, <2>3, <3>1 DEF JoinRead
    <3> QED BY <2>4, <3>2
  <2>13. Chosen(toks, "SELECT") = exec_join(toks)
    <3>1. "SELECT" # "CREATE" /\ "SELECT" # "INSERT" /\ "SELECT" # "DELETE"
      OBVIOUS
    <3> QED BY <2>12, <3>1 DEF Chosen
  <2> QED BY <2>11, <2>13
<1>7. Gives(all, "SELECT", s)
  BY <1>6 DEF Gives
<1>8. Written(T, look, s, "SELECT")
  BY <1>3, <1>7 DEF Written, all
<1> QED BY <1>8 DEF s

-----------------------------------------------------------------------------
(* The characters of a statement with the words W.                         *)
LettersOf(W) == UNION {{w[i] : i \in DOMAIN w} : w \in W}
Alphabet(W) == Sign \cup Keyword \cup DOMAIN Upper \cup DOMAIN Number \cup DOMAIN Code
    \cup LettersOf(W)

(* The alphabet of a statement: what all statements are written with, and  *)
(* the letters of its own words.                                           *)
LEMMA AlphabetIs ==
  ASSUME NEW W
  PROVE  /\ Base(Alphabet(W)) /\ \A w \in W : IsWord(w) => w \in Seq(Alphabet(W))
         /\ \A v \in Seq(DOMAIN Code) : v \in Seq(Alphabet(W))
<1> DEFINE T == Alphabet(W)
<1>1. Base(T) /\ LettersOf(W) \subseteq T
  BY DEF Base, Alphabet
<1>2. DOMAIN Code \subseteq T
  BY DEF Alphabet
<1> HIDE DEF T
<1>3. ASSUME NEW w \in W, IsWord(w) PROVE w \in Seq(T)
  <2> DEFINE L == {w[i] : i \in DOMAIN w}
  <2>1. w \in Seq(L)
    BY <1>3 DEF IsWord
  <2>2. L \subseteq LettersOf(W)
    BY DEF LettersOf
  <2> HIDE DEF L
  <2>3. L \subseteq T
    BY <1>1, <2>2
  <2> QED BY <2>1, <2>3, SeqMonotonic
<1>4. \A v \in Seq(DOMAIN Code) : v \in Seq(T)
  BY <1>2, SeqMonotonic
<1> QED BY <1>1, <1>3, <1>4 DEF T

(* A look that suits a statement does not have its quote in the values.    *)
LEMMA SuitsValues ==
  ASSUME NEW look, NEW s, Suits(look, s)
  PROVE  \A v \in ValuesIn(s) : \A i \in DOMAIN v : v[i] # look.quote
BY Zenon DEF Suits

(* In a look that suits a statement the value it compares with does not    *)
(* hold the quote it is written in.                                        *)
LEMMA ValueFree ==
  ASSUME NEW look, NEW kind, kind # "create", kind # "insert", NEW q, Suits(look, Parsed(kind, q))
  PROVE  \A i \in DOMAIN q.where.val : q.where.val[i] # look.quote
<1>1. Parsed(kind, q).kind = kind /\ Parsed(kind, q).stmt = q
  BY DEF Parsed
<1>2. ValuesIn(Parsed(kind, q)) = {q.where.val}
  BY <1>1 DEF ValuesIn
<1> QED BY <1>2, SuitsValues

(* The condition of a statement on one table, or on two.                   *)
LEMMA ConditionIs ==
  ASSUME NEW T, Base(T), NEW look, IsLook(look), NEW wh, Engine!IsWhere(wh),
         NEW col \in Seq(T), IsWord(col), \A i \in DOMAIN wh.val : wh.val[i] # look.quote
  PROVE  /\ Condition(T, col, col, wh, look) /\ wh.active = TRUE
         /\ Meant(col, wh) = [col |-> col, op |-> wh.op, val |-> wh.val, active |-> TRUE]
<1>1. /\ wh.op \in {"=", "!=", "<", ">=", ">", "<="} /\ wh.val \in Seq(DOMAIN Code)
      /\ wh = [col |-> wh.col, op |-> wh.op, val |-> wh.val, active |-> TRUE]
  BY DEF Engine!IsWhere
<1>2. wh.active = TRUE
  <2> DEFINE a == wh.col
             b == wh.op
             c == wh.val
  <2>1. wh = [col |-> a, op |-> b, val |-> c, active |-> TRUE]
    BY <1>1
  <2> HIDE DEF a, b, c
  <2> QED BY <2>1
<1>3. wh.val \in Seq(T)
  <2>1. DOMAIN Code \subseteq T
    BY DEF Base
  <2> QED BY <1>1, <2>1, SeqMonotonic
<1>4. Fits(T, col, col)
  BY WordIs
<1>5. Unquoted(Literal(wh.val, look))
  BY <1>3, LiteralUnquoted
<1>6. Condition(T, col, col, wh, look)
  BY <1>1, <1>2, <1>3, <1>4, <1>5 DEF Condition
<1> QED BY <1>2, <1>6 DEF Meant

(* No WHERE means no condition.                                            *)
LEMMA NoCondition ==
  ASSUME NEW T, NEW look, NEW wh, wh.active = FALSE, NEW col
  PROVE  /\ Condition(T, col, col, wh, look)
         /\ Meant(col, wh) = [col |-> <<>>, op |-> "", val |-> <<>>, active |-> FALSE]
BY DEF Condition, Meant

(* A condition on the column of one table is what its WHERE means.         *)
LEMMA OnOneTable ==
  ASSUME NEW T, Base(T), NEW look, IsLook(look), NEW wh, IsCondition(wh),
         IsWord(wh.col) => wh.col \in Seq(T), \A i \in DOMAIN wh.val : wh.val[i] # look.quote
  PROVE  Condition(T, wh.col, wh.col, wh, look) /\ Meant(wh.col, wh) = wh
<1>1. CASE wh = Engine!Everything
  <2>1. wh = [col |-> <<>>, op |-> "", val |-> <<>>, active |-> FALSE]
    BY <1>1 DEF Engine!Everything
  <2>2. wh.active = FALSE
    BY <2>1
  <2> QED BY <2>1, <2>2, NoCondition
<1>2. CASE Engine!IsWhere(wh) /\ IsWord(wh.col)
  <2> DEFINE c == wh.col
  <2>1. c \in Seq(T) /\ IsWord(c)
    BY <1>2
  <2>2. wh = [col |-> c, op |-> wh.op, val |-> wh.val, active |-> TRUE]
    BY <1>2 DEF Engine!IsWhere
  <2> HIDE DEF c
  <2>3. /\ Condition(T, c, c, wh, look)
        /\ Meant(c, wh) = [col |-> c, op |-> wh.op, val |-> wh.val, active |-> TRUE]
    BY <1>2, <2>1, ConditionIs
  <2> QED BY <2>2, <2>3 DEF c
<1> QED BY <1>1, <1>2 DEF IsCondition

(* The column of a condition, cut at its dot.                              *)
LEMMA ColumnCut ==
  ASSUME NEW M, NEW a, NEW b, NEW v, NEW z, M = [col |-> a, op |-> b, val |-> v, active |-> z],
         NEW r, split_ref(a) = r
  PROVE  [M EXCEPT !.col = split_ref(@)] = [col |-> r, op |-> b, val |-> v, active |-> z]
OBVIOUS

(* A condition on a column of two tables is what its WHERE means.          *)
LEMMA OnTwoTables ==
  ASSUME NEW T, Base(T), NEW look, IsLook(look), NEW wh,
         IF wh.active THEN Engine!IsWhere(wh) /\ IsReference(wh.col)
         ELSE wh = [Engine!Everything EXCEPT !.col = [table |-> <<>>, name |-> <<>>]],
         IsReference(wh.col) => wh.col.table \in Seq(T) /\ wh.col.name \in Seq(T),
         \A i \in DOMAIN wh.val : wh.val[i] # look.quote
  PROVE  LET c == Reference(wh.col)
         IN  Condition(T, c, c, wh, look) /\ [Meant(c, wh) EXCEPT !.col = split_ref(@)] = wh
<1> DEFINE c == Reference(wh.col)
<1>1. CASE wh.active
  <2>1. Engine!IsWhere(wh) /\ IsReference(wh.col)
    BY <1>1
  <2>2. c \in Seq(T) /\ IsWord(c) /\ split_ref(c) = wh.col
    BY <2>1, ReferenceIs
  <2>3. wh = [col |-> wh.col, op |-> wh.op, val |-> wh.val, active |-> TRUE]
    BY <2>1 DEF Engine!IsWhere
  <2> HIDE DEF c
  <2>4. /\ Condition(T, c, c, wh, look)
        /\ Meant(c, wh) = [col |-> c, op |-> wh.op, val |-> wh.val, active |-> TRUE]
    BY <2>1, <2>2, ConditionIs
  <2> DEFINE M == Meant(c, wh)
             r == wh.col
             b == wh.op
             v == wh.val
             z == TRUE
  <2>5. M = [col |-> c, op |-> b, val |-> v, active |-> z] /\ split_ref(c) = r
    BY <2>2, <2>4
  <2>6. wh = [col |-> r, op |-> b, val |-> v, active |-> z]
    BY <2>3
  <2> HIDE DEF M, r, b, v, z
  <2>7. [M EXCEPT !.col = split_ref(@)] = [col |-> r, op |-> b, val |-> v, active |-> z]
    BY ONLY <2>5, ColumnCut
  <2> QED BY <2>4, <2>6, <2>7 DEF M, c
<1>2. CASE ~wh.active
  <2>1. wh = [Engine!Everything EXCEPT !.col = [table |-> <<>>, name |-> <<>>]]
    BY <1>2
  <2>2. wh = [col |-> [table |-> <<>>, name |-> <<>>], op |-> "", val |-> <<>>, active |-> FALSE]
    BY <2>1 DEF Engine!Everything
  <2>3. wh.active = FALSE
    BY <2>2
  <2> HIDE DEF c
  <2>4. /\ Condition(T, c, c, wh, look)
        /\ Meant(c, wh) = [col |-> <<>>, op |-> "", val |-> <<>>, active |-> FALSE]
    BY <2>3, NoCondition
  <2>5. split_ref(<<>>) = [table |-> <<>>, name |-> <<>>]
    <3>1. {i \in 1 .. Len(<<>>) : <<>>[i] = "."} = {}
      BY EmptySeq
    <3> QED BY <3>1 DEF split_ref
  <2>6. [Meant(c, wh) EXCEPT !.col = split_ref(@)] = wh
    <3> DEFINE M == Meant(c, wh)
               e == <<>>
               r == [table |-> <<>>, name |-> <<>>]
               b == ""
               z == FALSE
    <3>1. M = [col |-> e, op |-> b, val |-> e, active |-> z] /\ split_ref(e) = r
      BY <2>4, <2>5
    <3>2. wh = [col |-> r, op |-> b, val |-> e, active |-> z]
      BY <2>2
    <3> HIDE DEF M, e, r, b, z
    <3>3. [M EXCEPT !.col = split_ref(@)] = [col |-> r, op |-> b, val |-> e, active |-> z]
      BY ONLY <3>1, ColumnCut
    <3> QED BY <3>2, <3>3 DEF M
  <2> QED BY <2>4, <2>6 DEF c
<1> QED BY <1>1, <1>2

-----------------------------------------------------------------------------
(* The statements of a session.                                            *)

(* Every CREATE TABLE of the session is executed as what it means.         *)
LEMMA CreateTyped ==
  ASSUME NEW n \in Name, NEW cols \in Schema[n], NEW look, IsLook(look),
         NEW s, s = Parsed("create", [table |-> n, cols |-> cols]), Suits(look, s)
  PROVE  Typed(<<>>, Lines(s, look), s)
<1> DEFINE q == [table |-> n, cols |-> cols]
           W == {n} \cup {cols[i].name : i \in DOMAIN cols}
           T == Alphabet(W)
<1>1. /\ IsWord(n) /\ Engine!IsSeq(cols)
      /\ \A i \in DOMAIN cols :
           /\ cols[i] = [name |-> cols[i].name, type |-> cols[i].type, max_len |-> cols[i].max_len]
           /\ IsWord(cols[i].name) /\ cols[i].max_len \in Nat
           /\ \/ cols[i].type = "INT" /\ cols[i].max_len = 4
              \/ cols[i].type = "TEXT" /\ cols[i].max_len \in {255} \cup DOMAIN Numeral
  BY TablesAssumption
<1>2. Base(T) /\ \A w \in W : IsWord(w) => w \in Seq(T)
  BY AlphabetIs
<1>3. n \in W /\ \A i \in DOMAIN cols : cols[i].name \in W
  OBVIOUS
<1> HIDE DEF W, T
<1>4. n \in Seq(T) /\ \A i \in DOMAIN cols : cols[i].name \in Seq(T)
  BY <1>1, <1>2, <1>3
<1>5. cols \in Seq({cols[i] : i \in DOMAIN cols}) /\ DOMAIN cols = 1 .. Len(cols)
  BY <1>1, LenProperties DEF Engine!IsSeq
<1>6. \A k \in 1 .. Len(cols) :
        IsColumn(cols[k]) /\ cols[k].name \in Seq(T) /\ cols[k].max_len \in Nat
  BY <1>1, <1>4, <1>5 DEF IsColumn
<1>7. q.table = n /\ q.cols = cols
  OBVIOUS
<1> HIDE DEF q
<1>8. Creating(T, q)
  <2>1. q = [table |-> q.table, cols |-> q.cols]
    BY <1>7 DEF q
  <2> QED BY <1>1, <1>2, <1>4, <1>5, <1>6, <1>7, <2>1 DEF Creating
<1>9. Written(T, look, s, "CREATE")
  BY <1>8, CreateWritten DEF q
<1> QED BY <1>2, <1>9, WrittenIsTyped DEF FirstWord

(* So is every INSERT,                                                     *)
LEMMA InsertTyped ==
  ASSUME NEW q \in Inserts, NEW look, IsLook(look),
         NEW s, s = Parsed("insert", q), Suits(look, s)
  PROVE  Typed(<<>>, Lines(s, look), s)
<1> DEFINE V == {q.cols[i] : i \in DOMAIN q.cols}
           W == {q.table} \cup V
           T == Alphabet(W)
<1>1. /\ q = [table |-> q.table, cols |-> q.cols, vals |-> q.vals]
      /\ q.table \in Name /\ IsColumns(q.cols)
      /\ q.vals \in Seq(Seq(DOMAIN Code)) /\ \A j \in DOMAIN q.vals : ~Reads(q.vals[j], ")")
  BY InsertsAssumption
<1>2. IsWord(q.table)
  BY <1>1, TablesAssumption
<1>3. q.cols \in Seq(V) /\ \A i \in DOMAIN q.cols : IsWord(q.cols[i])
  BY <1>1 DEF IsColumns, Engine!IsSeq
<1>4. /\ Base(T) /\ \A w \in W : IsWord(w) => w \in Seq(T)
      /\ \A v \in Seq(DOMAIN Code) : v \in Seq(T)
  BY AlphabetIs
<1>5. q.table \in W /\ \A i \in DOMAIN q.cols : q.cols[i] \in W
  OBVIOUS
<1>6. V \subseteq Seq(T)
  <2> HIDE DEF T, W
  <2> QED BY <1>3, <1>4, <1>5
<1> HIDE DEF V, W, T
<1>7. q.cols \in Seq(Seq(T))
  BY <1>3, <1>6, SeqMonotonic
<1>8. q.vals \in Seq(Seq(T))
  <2>1. Seq(DOMAIN Code) \subseteq Seq(T)
    BY <1>4
  <2> QED BY <1>1, <2>1, SeqMonotonic
<1>9. DOMAIN q.cols = 1 .. Len(q.cols) /\ DOMAIN q.vals = 1 .. Len(q.vals)
  BY <1>7, <1>8, LenProperties
<1>10. \A k \in DOMAIN q.vals : \A i \in DOMAIN q.vals[k] : q.vals[k][i] # look.quote
  <2>1. s.kind = "insert" /\ s.stmt = q
    BY DEF Parsed
  <2>2. ValuesIn(s) = {q.vals[i] : i \in DOMAIN q.vals}
    BY <2>1 DEF ValuesIn
  <2> QED BY <2>2, SuitsValues
<1>11. \A k \in 1 .. Len(q.vals) : Unquoted(Literal(q.vals[k], look))
  <2>1. ASSUME NEW k \in 1 .. Len(q.vals) PROVE Unquoted(Literal(q.vals[k], look))
    <3> DEFINE v == q.vals[k]
    <3>1. v \in Seq(T)
      BY <1>8, ElementOfSeq
    <3>2. \A i \in DOMAIN v : v[i] # look.quote
      BY <1>9, <1>10
    <3> HIDE DEF v
    <3>3. Unquoted(Literal(v, look))
      BY <1>4, <3>1, <3>2, LiteralUnquoted
    <3> QED BY <3>3 DEF v
  <2> QED BY <2>1
<1>12. Inserting(T, q, look)
  <2>1. q.table \in Seq(T)
    BY <1>2, <1>4, <1>5
  <2>2. \A k \in 1 .. Len(q.cols) : IsWord(q.cols[k])
    BY <1>3, <1>9
  <2>3. \A k \in 1 .. Len(q.vals) : ~Reads(q.vals[k], ")") /\ Unquoted(Literal(q.vals[k], look))
    BY <1>1, <1>9, <1>11
  <2> QED BY <1>1, <1>2, <1>4, <1>7, <1>8, <2>1, <2>2, <2>3 DEF Inserting
<1>13. Written(T, look, s, "INSERT")
  BY <1>12, InsertWritten
<1> QED BY <1>4, <1>13, WrittenIsTyped DEF FirstWord

(* every DELETE,                                                           *)
LEMMA DeleteTyped ==
  ASSUME NEW q \in Deletes, NEW look, IsLook(look),
         NEW s, s = Parsed("delete", q), Suits(look, s)
  PROVE  Typed(<<>>, Lines(s, look), s)
<1> DEFINE wh == q.where
           W == {q.table, wh.col}
           T == Alphabet(W)
<1>1. q = [table |-> q.table, where |-> q.where] /\ q.table \in Name /\ IsCondition(wh)
  BY DeletesAssumption
<1>2. IsWord(q.table)
  BY <1>1, TablesAssumption
<1>3. Base(T) /\ \A w \in W : IsWord(w) => w \in Seq(T)
  BY AlphabetIs
<1>4. q.table \in W /\ wh.col \in W
  OBVIOUS
<1>5. \A i \in DOMAIN q.where.val : q.where.val[i] # look.quote
  BY ValueFree
<1> HIDE DEF W, T
<1>6. q.table \in Seq(T) /\ (IsWord(wh.col) => wh.col \in Seq(T))
  BY <1>2, <1>3, <1>4
<1> HIDE DEF wh
<1>7. Condition(T, wh.col, wh.col, wh, look) /\ Meant(wh.col, wh) = wh
  BY <1>1, <1>3, <1>5, <1>6, OnOneTable DEF wh
<1>8. Clauses(T, wh.col, wh.col, [where |-> wh, limit |-> -1], look)
  BY <1>3, <1>7 DEF Clauses
<1>9. Deleting(T, q, look)
  BY <1>1, <1>2, <1>6, <1>7, <1>8 DEF Deleting, wh
<1>10. Written(T, look, s, "DELETE")
  BY <1>9, DeleteWritten
<1> QED BY <1>3, <1>10, WrittenIsTyped DEF FirstWord

(* The limits a session uses have a numeral.                               *)
LEMMA LimitOf ==
  ASSUME NEW limit, IsLimit(limit)
  PROVE  limit \in Int /\ (limit = -1 \/ (limit \in DOMAIN Numeral /\ limit # -1))
BY DEF IsLimit

(* every SELECT from one table                                             *)
LEMMA SelectTyped ==
  ASSUME NEW q \in Selects, NEW look, IsLook(look),
         NEW s, s = Parsed("select", q), Suits(look, s)
  PROVE  Typed(<<>>, Lines(s, look), s)
<1> DEFINE wh == q.where
           V == {q.cols[i] : i \in DOMAIN q.cols}
           W == {q.table, wh.col} \cup V
           T == Alphabet(W)
<1>1. /\ q = [table |-> q.table, cols |-> q.cols, where |-> q.where, limit |-> q.limit]
      /\ q.table \in Name /\ IsColumns(q.cols) /\ IsCondition(wh) /\ IsLimit(q.limit)
      /\ \A i \in DOMAIN q.cols : ~Reads(q.cols[i], "FROM")
      /\ \A t \in {q.table, wh.col, wh.val} \cup V : ~Reads(t, "JOIN")
  BY SelectsAssumption
<1>2. IsWord(q.table)
  BY <1>1, TablesAssumption
<1>3. q.cols \in Seq(V) /\ \A i \in DOMAIN q.cols : IsWord(q.cols[i])
  BY <1>1 DEF IsColumns, Engine!IsSeq
<1>4. Base(T) /\ \A w \in W : IsWord(w) => w \in Seq(T)
  BY AlphabetIs
<1>5. q.table \in W /\ wh.col \in W /\ V \subseteq W
  OBVIOUS
<1>6. \A i \in DOMAIN q.where.val : q.where.val[i] # look.quote
  BY ValueFree
<1>7. \A v \in V : IsWord(v)
  BY <1>3
<1> HIDE DEF W, T
<1>8. q.table \in Seq(T) /\ (IsWord(wh.col) => wh.col \in Seq(T))
  BY <1>2, <1>4, <1>5
<1>9. V \subseteq Seq(T)
  <2> HIDE DEF V
  <2> QED BY <1>4, <1>5, <1>7
<1>10. q.cols \in Seq(Seq(T)) /\ DOMAIN q.cols = 1 .. Len(q.cols)
  <2> HIDE DEF V
  <2> QED BY <1>3, <1>9, SeqMonotonic, LenProperties
<1>11. Picked(T, q.cols, q.cols)
  <2>1. ASSUME NEW k \in 1 .. Len(q.cols)
        PROVE  /\ q.cols[k] \in Good(T) /\ Tok(q.cols[k]) = q.cols[k]
               /\ ~Reads(q.cols[k], "FROM") /\ ~Reads(q.cols[k], "*")
    <3> DEFINE p == q.cols[k]
    <3>1. p \in Seq(T) /\ IsWord(p) /\ ~Reads(p, "FROM")
      BY <1>1, <1>3, <1>10, ElementOfSeq
    <3>2. "*" \in Sign \ {"."}
      BY Signs DEF Sign, Punctuation
    <3> HIDE DEF p
    <3>3. Fits(T, p, p) /\ ~Reads(p, "*")
      BY <3>1, <3>2, WordIs
    <3> QED BY <3>1, <3>3 DEF Fits, Good, p
  <2>2. q.cols \in Seq(Good(T))
    <3> DEFINE G == Good(T)
               x == q.cols
    <3>1. x \in Seq(Seq(T)) /\ \A k \in 1 .. Len(x) : x[k] \in G
      BY <1>10, <2>1
    <3> HIDE DEF G, x
    <3>2. x \in Seq(G)
      <4>1. Len(x) \in Nat /\ x = [k \in 1 .. Len(x) |-> x[k]]
        BY <3>1, LenProperties
      <4> QED BY ONLY <3>1, <4>1, IsASeq
    <3> QED BY <3>2 DEF G, x
  <2> QED BY <2>1, <2>2 DEF Picked, Shown
<1> HIDE DEF wh
<1>12. Condition(T, wh.col, wh.col, wh, look) /\ Meant(wh.col, wh) = wh
  BY <1>1, <1>4, <1>6, <1>8, OnOneTable DEF wh
<1>13. q.limit \in Int /\ (q.limit = -1 \/ (q.limit \in DOMAIN Numeral /\ q.limit # -1))
  BY <1>1, LimitOf
<1>14. Clauses(T, wh.col, wh.col, q, look)
  BY <1>4, <1>12, <1>13 DEF Clauses, wh
<1>15. Heading(T, q.cols, q.cols, q.table, look)
  BY <1>2, <1>4, <1>8, <1>10, <1>11 DEF Heading
<1>16. /\ ~Reads(q.table, "JOIN") /\ ~Reads(wh.col, "JOIN") /\ ~Reads(wh.val, "JOIN")
       /\ \A k \in 1 .. Len(q.cols) : ~Reads(q.cols[k], "JOIN")
  BY <1>1, <1>10
<1>17. Selecting(T, q, look)
  BY <1>1, <1>12, <1>13, <1>14, <1>15, <1>16 DEF Selecting, wh
<1>18. Written(T, look, s, "SELECT")
  BY <1>17, SelectWritten
<1> QED BY <1>4, <1>18, WrittenIsTyped DEF FirstWord

(* The words of a reference are written in the alphabet of its statement.  *)
LEMMA ReferenceWords ==
  ASSUME NEW W, NEW r, IsReference(r), r.table \in W, r.name \in W
  PROVE  LET T == Alphabet(W)
             p == Reference(r)
         IN  /\ r.table \in Seq(T) /\ r.name \in Seq(T)
             /\ p \in Seq(T) /\ IsWord(p) /\ split_ref(p) = r
<1> DEFINE T == Alphabet(W)
           p == Reference(r)
<1>1. Base(T) /\ \A w \in W : IsWord(w) => w \in Seq(T)
  BY AlphabetIs
<1> HIDE DEF T
<1>2. r.name \in Seq(T) /\ r.table \in Seq(T)
  <2>1. IsWord(r.name) /\ (r.table = <<>> \/ IsWord(r.table))
    BY DEF IsReference
  <2> QED BY <1>1, <2>1, EmptySeq
<1>3. p \in Seq(T) /\ IsWord(p) /\ split_ref(p) = r
  BY <1>1, <1>2, ReferenceIs
<1> QED BY <1>2, <1>3 DEF T

(* and every SELECT from two tables.                                       *)
LEMMA JoinTyped ==
  ASSUME NEW q \in Joins, NEW look, IsLook(look),
         NEW s, s = Parsed("join", q), Suits(look, s)
  PROVE  Typed(<<>>, Lines(s, look), s)
<1> DEFINE wh == q.where
           cols == q.cols
           c == Reference(wh.col)
           R == {q.on[1], q.on[2], wh.col} \cup {cols[i] : i \in DOMAIN cols}
           W == {q.left, q.right} \cup {r.table : r \in R} \cup {r.name : r \in R}
           T == Alphabet(W)
<1>1. /\ q = [left |-> q.left, right |-> q.right, on |-> <<q.on[1], q.on[2]>>,
              cols |-> q.cols, where |-> q.where, limit |-> q.limit]
      /\ {q.left, q.right} \subseteq Name /\ Engine!IsSeq(cols)
      /\ IsReference(q.on[1]) /\ IsReference(q.on[2])
      /\ \A i \in DOMAIN cols : IsReference(cols[i]) /\ ~Reads(Reference(cols[i]), "FROM")
      /\ IsLimit(q.limit)
  BY JoinsAssumption
<1>2. IF wh.active THEN Engine!IsWhere(wh) /\ IsReference(wh.col)
      ELSE wh = [Engine!Everything EXCEPT !.col = [table |-> <<>>, name |-> <<>>]]
  BY JoinsAssumption
<1>3. IsWord(q.left) /\ IsWord(q.right)
  BY <1>1, TablesAssumption
<1>4. Base(T) /\ \A w \in W : IsWord(w) => w \in Seq(T)
  BY AlphabetIs
<1>5. \A i \in DOMAIN q.where.val : q.where.val[i] # look.quote
  BY ValueFree
<1>6. q.left \in W /\ q.right \in W /\ \A r \in R : r.table \in W /\ r.name \in W
  <2> HIDE DEF R
  <2> QED OBVIOUS
<1>7. q.on[1] \in R /\ q.on[2] \in R /\ wh.col \in R /\ \A i \in DOMAIN cols : cols[i] \in R
  OBVIOUS
<1> HIDE DEF R, W
<1>8. ASSUME NEW r \in R, IsReference(r)
      PROVE  /\ r.table \in Seq(T) /\ r.name \in Seq(T)
             /\ Reference(r) \in Seq(T) /\ IsWord(Reference(r)) /\ split_ref(Reference(r)) = r
  <2>1. r.table \in W /\ r.name \in W
    BY <1>6
  <2> QED BY <1>8, <2>1, ReferenceWords
<1> HIDE DEF T
<1>9. q.left \in Seq(T) /\ q.right \in Seq(T)
  BY <1>3, <1>4, <1>6
<1>10. DOMAIN cols = 1 .. Len(cols) /\ Len(cols) \in Nat /\ cols = [i \in 1 .. Len(cols) |-> cols[i]]
  BY <1>1, LenProperties DEF Engine!IsSeq
<1> DEFINE refs == Refs(cols)
<1>11. /\ DOMAIN refs = 1 .. Len(cols)
       /\ \A k \in 1 .. Len(cols) : refs[k] = Reference(cols[k])
  BY <1>10 DEF Refs
<1>12. \A k \in 1 .. Len(cols) :
         /\ refs[k] \in Seq(T) /\ IsWord(refs[k]) /\ split_ref(refs[k]) = cols[k]
         /\ ~Reads(refs[k], "FROM")
  BY <1>1, <1>7, <1>8, <1>10, <1>11
<1>13. refs = [k \in 1 .. Len(cols) |-> refs[k]]
  BY <1>10 DEF Refs
<1> HIDE DEF refs
<1>14. refs \in Seq(Seq(T)) /\ Len(refs) = Len(cols)
  BY <1>10, <1>11, <1>12, <1>13, IsASeq, LenProperties
<1>15. Picked(T, refs, refs)
  <2>1. ASSUME NEW k \in 1 .. Len(refs)
        PROVE  /\ refs[k] \in Good(T) /\ Tok(refs[k]) = refs[k]
               /\ ~Reads(refs[k], "FROM") /\ ~Reads(refs[k], "*")
    <3> DEFINE p == refs[k]
    <3>1. p \in Seq(T) /\ IsWord(p) /\ ~Reads(p, "FROM")
      BY <1>12, <1>14
    <3>2. "*" \in Sign \ {"."}
      BY Signs DEF Sign, Punctuation
    <3> HIDE DEF p
    <3>3. Fits(T, p, p) /\ ~Reads(p, "*")
      BY <3>1, <3>2, WordIs
    <3> QED BY <3>1, <3>3 DEF Fits, Good, p
  <2> DEFINE n == Len(cols)
  <2>2. n \in Nat /\ refs = [k \in 1 .. n |-> refs[k]] /\ \A k \in 1 .. n : refs[k] \in Good(T)
    BY <1>10, <1>13, <1>14, <2>1
  <2> HIDE DEF n
  <2>3. [k \in 1 .. n |-> refs[k]] \in Seq(Good(T))
    BY <2>2, IsASeq
  <2> QED BY <2>1, <2>2, <2>3 DEF Picked, Shown
<1>16. Heading(T, refs, refs, q.left, look)
  BY <1>3, <1>4, <1>9, <1>14, <1>15 DEF Heading
<1>17. [i \in DOMAIN refs |-> split_ref(refs[i])] = cols
  BY <1>10, <1>11, <1>12
<1>18. \A i \in {1, 2} : /\ Reference(q.on[i]) \in Seq(T) /\ IsWord(Reference(q.on[i]))
                         /\ split_ref(Reference(q.on[i])) = q.on[i]
  BY <1>1, <1>7, <1>8
<1>19. IsReference(wh.col) => wh.col.table \in Seq(T) /\ wh.col.name \in Seq(T)
  BY <1>7, <1>8
<1> HIDE DEF wh
<1>20. Condition(T, c, c, wh, look) /\ [Meant(c, wh) EXCEPT !.col = split_ref(@)] = wh
  <2>1. \A i \in DOMAIN wh.val : wh.val[i] # look.quote
    BY <1>5 DEF wh
  <2> QED BY <1>2, <1>4, <1>19, <2>1, OnTwoTables
<1> HIDE DEF c
<1>21. q.limit \in Int /\ (q.limit = -1 \/ (q.limit \in DOMAIN Numeral /\ q.limit # -1))
  BY <1>1, LimitOf
<1>22. Clauses(T, c, c, q, look)
  BY <1>4, <1>20, <1>21 DEF Clauses, wh
<1> HIDE DEF cols
<1>23. Joining(T, q, look)
  BY <1>1, <1>3, <1>9, <1>16, <1>17, <1>18, <1>20, <1>21, <1>22 DEF Joining, wh, c, refs, cols
<1>24. Written(T, look, s, "SELECT")
  BY <1>23, JoinWritten
<1> QED BY <1>4, <1>24, WrittenIsTyped DEF FirstWord

(* Every statement of a session, typed in any legible look (case, blanks,  *)
(* quotes, semicolons, line breaks), is split by tokenize into the tokens  *)
(* it was written with, and parsed by exec_create, exec_insert,            *)
(* exec_delete and exec_select as it was meant.                            *)
THEOREM EveryStatementReadsBack ==
  ASSUME NEW s \in Statement, NEW look, Legible(look)
  PROVE  Typed(<<>>, Lines(s, look), s)
<1>1. IsLook(look) /\ Suits(look, s)
  BY DEF Legible
<1>2. CASE \E n \in Name : \E cols \in Schema[n] :
             s = Parsed("create", [table |-> n, cols |-> cols])
  BY <1>1, <1>2, CreateTyped
<1>3. CASE \E q \in Inserts : s = Parsed("insert", q)
  BY <1>1, <1>3, InsertTyped
<1>4. CASE \E q \in Deletes : s = Parsed("delete", q)
  BY <1>1, <1>4, DeleteTyped
<1>5. CASE \E q \in Selects : s = Parsed("select", q)
  BY <1>1, <1>5, SelectTyped
<1>6. CASE \E q \in Joins : s = Parsed("join", q)
  BY <1>1, <1>6, JoinTyped
<1> QED BY <1>2, <1>3, <1>4, <1>5, <1>6, StatementIs
=============================================================================
