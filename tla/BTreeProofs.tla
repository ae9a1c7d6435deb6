---------------------------- MODULE BTreeProofs -----------------------------
(***************************************************************************)
(* The B-tree keeps the shape of a search tree through every step of every *)
(* call, over any memory of pages that keeps what is written to it, and so *)
(* implements the dictionary that the table takes it for.                  *)
(*                                                                         *)
(* First nodes and trees as data: what the operations on one node do to    *)
(* it, what keeps the pages of a search tree together, and what the three  *)
(* ways in which the code changes them keep of it, which are the cells of  *)
(* one leaf, a new level above the root and a node divided in two.  Then   *)
(* the steps of the calls.  Last the memories the B-tree is checked over,  *)
(* which are memories as the theorems before them ask: the flat array, and *)
(* the buffer pool over the pager with room for three pages or more.  What *)
(* holds of the tree therefore holds over both, and over the pool no       *)
(* pointer of a call dangles and no write is lost.                         *)
(***************************************************************************)
EXTENDS BTreeOnArray, BTreeOnPool, Integers, SequenceTheorems, FiniteSetTheorems,
        WellFoundedInduction, TLAPS

-----------------------------------------------------------------------------
(* One node: the search for a key, and the cells after a change or a cut.  *)

(* Every nonempty set of natural numbers has a least element.              *)
LEMMA LeastNatural ==
  ASSUME NEW T \in SUBSET Nat, T # {}
  PROVE  \E x \in T : \A y \in T : x <= y
<1> DEFINE R == {ss \in Nat \X Nat : ss[1] < ss[2]}
<1>1. R = OpToRel(<, Nat)
  BY Zenon DEF OpToRel
<1>2. IsWellFoundedOn(R, Nat)
  BY <1>1, NatLessThanWellFounded, Zenon
<1>3. PICK x \in T : \A y \in T : ~(<<y, x>> \in R)
  <2> HIDE DEF R
  <2> QED BY <1>2, WFMin
<1>4. ASSUME NEW y \in T PROVE x <= y
  <2>1. <<y, x>> \in Nat \X Nat /\ <<y, x>> \notin R
    BY <1>3, <1>4
  <2> QED BY <2>1
<1> QED BY <1>4

-----------------------------------------------------------------------------
(* The keys of a node are numbers, and in order.                           *)
Keyed(n) == num_cells(n) \in Nat /\ \A i \in 0 .. num_cells(n) - 1 : get_key(n, i) \in Nat
Sorted(n) ==
  \A i, j \in 0 .. num_cells(n) - 1 : i < j => get_key(n, i) < get_key(n, j)

(* One round of the loop of leaf_node_find on window w, where f answers    *)
(* for the smaller ones.                                                   *)
Round(n, key, f, w) ==
  LET mid == (w[1] + w[2]) \div 2
  IN  IF w[1] = w[2] THEN w[1]
      ELSE IF key = get_key(n, mid) THEN mid
      ELSE IF key < get_key(n, mid) THEN f[<<w[1], mid>>]
      ELSE f[<<mid + 1, w[2]>>]

(* The binary search of leaf_node_find is defined on every node: were it   *)
(* not, there would be a shortest window it is not defined on.             *)
LEMMA SearchDefined ==
  ASSUME NEW n, Keyed(n), NEW key \in Nat
  PROVE  \E f : /\ f = [w \in Interval(n) |-> Round(n, key, f, w)]
                /\ leaf_node_find(n, key) = f[<<0, num_cells(n)>>]
<1> DEFINE N == num_cells(n)
           F(f) == [w \in Interval(n) |-> Round(n, key, f, w)]
           g == CHOOSE f : f = F(f)
           W(d) == {w \in Interval(n) : w[2] - w[1] <= d}
           Bad == {d \in Nat : ~ \E f : f = [w \in W(d) |-> Round(n, key, f, w)]}
<1>1. leaf_node_find(n, key) = g[<<0, num_cells(n)>>]
  BY DEF leaf_node_find, Round
<1>2. N \in Nat
  BY DEF Keyed
<1>3. Bad = {}
  <2>1. SUFFICES ASSUME Bad # {} PROVE FALSE
    OBVIOUS
  <2>2. PICK d \in Bad : \A e \in Bad : d <= e
    BY <2>1, LeastNatural
  <2>3. d # 0
    <3>1. SUFFICES ASSUME d = 0 PROVE FALSE
      OBVIOUS
    <3> DEFINE f == [w \in W(d) |-> w[1]]
    <3>2. ASSUME NEW w \in W(d) PROVE Round(n, key, f, w) = w[1]
      <4>1. w[1] \in Nat /\ w[2] \in Nat /\ w[1] <= w[2] /\ w[2] - w[1] <= 0
        BY <1>2, <3>1 DEF Interval
      <4>2. w[1] = w[2]
        BY <4>1
      <4> QED BY <4>2 DEF Round
    <3>3. f = [w \in W(d) |-> Round(n, key, f, w)]
      BY <3>2
    <3> QED BY <2>2, <3>3
  <2>4. PICK f : f = [w \in W(d - 1) |-> Round(n, key, f, w)]
    <3>1. d - 1 \in Nat /\ ~(d <= d - 1)
      BY <2>2, <2>3
    <3> QED BY <2>2, <3>1
  <2> DEFINE h == [w \in W(d) |-> Round(n, key, f, w)]
  <2>5. ASSUME NEW w \in W(d) PROVE Round(n, key, h, w) = Round(n, key, f, w)
    <3> DEFINE mid == (w[1] + w[2]) \div 2
    <3>1. CASE w[1] = w[2]
      BY <3>1 DEF Round
    <3>2. CASE w[1] # w[2]
      <4>1. /\ w[1] \in 0 .. N /\ w[2] \in 0 .. N /\ w[1] < w[2] /\ w[2] - w[1] <= d
            /\ d \in Nat /\ w = <<w[1], w[2]>>
        BY <1>2, <2>2, <2>5, <3>2 DEF Interval
      <4>2. mid \in Nat /\ w[1] <= mid /\ mid < w[2]
        BY <1>2, <4>1
      <4>3. <<w[1], mid>> \in W(d - 1) /\ <<mid + 1, w[2]>> \in W(d - 1)
        <5> HIDE DEF mid
        <5>1. w[1] \in Nat /\ w[2] \in Nat
          BY <1>2, <4>1
        <5> QED BY <1>2, <4>1, <4>2, <5>1 DEF Interval
      <4>4. <<w[1], mid>> \in W(d) /\ <<mid + 1, w[2]>> \in W(d)
        <5>1. W(d - 1) \subseteq W(d)
          BY <1>2, <4>1 DEF Interval
        <5> QED BY <4>3, <5>1
      <4>5. h[<<w[1], mid>>] = f[<<w[1], mid>>] /\ h[<<mid + 1, w[2]>>] = f[<<mid + 1, w[2]>>]
        <5> HIDE DEF mid
        <5> QED BY <2>4, <4>3, <4>4
      <4> QED BY <4>5 DEF Round
    <3> QED BY <3>1, <3>2
  <2>6. h = [w \in W(d) |-> Round(n, key, h, w)]
    BY <2>5
  <2> QED BY <2>2, <2>6
<1>4. PICK f : f = F(f)
  <2>1. W(N) = Interval(n)
    BY <1>2 DEF Interval
  <2>2. PICK f : f = [w \in W(N) |-> Round(n, key, f, w)]
    BY <1>2, <1>3
  <2> QED BY <2>1, <2>2
<1>5. g = F(g)
  BY <1>4
<1> QED BY <1>1, <1>5

(* leaf_node_find stops at a slot of the node or just behind the last; if  *)
(* the keys are in order, those before it are less than the key and those  *)
(* from there on are not.                                                  *)
LEMMA LeafNodeFind ==
  ASSUME NEW n, Keyed(n), NEW key \in Nat
  PROVE  /\ leaf_node_find(n, key) \in 0 .. num_cells(n)
         /\ Sorted(n) =>
              \A i \in 0 .. num_cells(n) - 1 :
                get_key(n, i) < key <=> i < leaf_node_find(n, key)
<1> DEFINE N == num_cells(n)
           Good(w, r) ==
             /\ r \in w[1] .. w[2]
             /\ /\ Sorted(n)
                /\ \A i \in 0 .. N - 1 : /\ i < w[1] => get_key(n, i) < key
                                         /\ i >= w[2] => key <= get_key(n, i)
                => \A i \in 0 .. N - 1 : get_key(n, i) < key <=> i < r
<1>1. N \in Nat /\ \A i \in 0 .. N - 1 : get_key(n, i) \in Nat
  BY DEF Keyed
<1>2. PICK f : /\ f = [w \in Interval(n) |-> Round(n, key, f, w)]
               /\ leaf_node_find(n, key) = f[<<0, N>>]
  BY SearchDefined
<1> DEFINE Bad == {d \in Nat : \E w \in Interval(n) : w[2] - w[1] = d /\ ~Good(w, f[w])}
<1>3. Bad = {}
  <2>1. SUFFICES ASSUME Bad # {} PROVE FALSE
    OBVIOUS
  <2>2. PICK d \in Bad : \A e \in Bad : d <= e
    BY <2>1, LeastNatural
  <2>3. PICK w \in Interval(n) : w[2] - w[1] = d /\ ~Good(w, f[w])
    BY <2>2
  <2> DEFINE mid == (w[1] + w[2]) \div 2
  <2>4. f[w] = Round(n, key, f, w)
    BY <1>2
  <2>5. /\ w[1] \in Nat /\ w[2] \in Nat /\ w[1] <= w[2] /\ w[2] <= N
    BY <1>1 DEF Interval
  <2>6. w[1] # w[2]
    <3>1. SUFFICES ASSUME w[1] = w[2] PROVE Good(w, w[1])
      BY <2>3, <2>4 DEF Round
    <3> QED BY <1>1, <2>5, <3>1
  <2>7. mid \in Nat /\ w[1] <= mid /\ mid < w[2] /\ mid \in 0 .. N - 1
    BY <1>1, <2>5, <2>6
  <2>8. get_key(n, mid) \in Nat
    BY <1>1, <2>7
  <2> DEFINE l == <<w[1], mid>>
             r == <<mid + 1, w[2]>>
  <2>9. Good(l, f[l]) /\ Good(r, f[r])
    <3> HIDE DEF mid, Good
    <3>1. l \in Interval(n) /\ l[2] - l[1] \in Nat /\ l[2] - l[1] < d
      BY <1>1, <2>3, <2>5, <2>7 DEF Interval
    <3>2. r \in Interval(n) /\ r[2] - r[1] \in Nat /\ r[2] - r[1] < d
      BY <1>1, <2>3, <2>5, <2>7 DEF Interval
    <3>3. \A v \in Interval(n) : v[2] - v[1] \in Nat /\ v[2] - v[1] < d => Good(v, f[v])
      BY <2>2
    <3> QED BY <3>1, <3>2, <3>3
  <2>10. CASE key = get_key(n, mid)
    <3>1. f[w] = mid
      BY <2>4, <2>6, <2>10 DEF Round
    <3>2. Good(w, mid)
      <4> HIDE DEF mid
      <4> QED BY <1>1, <2>5, <2>7, <2>10 DEF Sorted
    <3> QED BY <2>3, <3>1, <3>2
  <2>11. CASE key < get_key(n, mid)
    <3>1. f[w] = f[l]
      BY <2>4, <2>6, <2>8, <2>11 DEF Round
    <3>2. Good(w, f[l])
      <4> HIDE DEF mid
      <4>1. Sorted(n) => \A i \in 0 .. N - 1 : i >= mid => key <= get_key(n, i)
        BY <1>1, <2>7, <2>8, <2>11 DEF Sorted
      <4> QED BY <1>1, <2>5, <2>7, <2>9, <4>1
    <3> QED BY <2>3, <3>1, <3>2
  <2>12. CASE key > get_key(n, mid)
    <3>1. f[w] = f[r]
      BY <2>4, <2>6, <2>8, <2>12 DEF Round
    <3>2. Good(w, f[r])
      <4> HIDE DEF mid
      <4>1. Sorted(n) => \A i \in 0 .. N - 1 : i < mid + 1 => get_key(n, i) < key
        BY <1>1, <2>7, <2>8, <2>12 DEF Sorted
      <4> QED BY <1>1, <2>5, <2>7, <2>9, <4>1
    <3> QED BY <2>3, <3>1, <3>2
  <2> QED BY <2>8, <2>10, <2>11, <2>12
<1>4. <<0, N>> \in Interval(n)
  BY <1>1 DEF Interval
<1>5. Good(<<0, N>>, f[<<0, N>>])
  <2> HIDE DEF Good
  <2>1. N - 0 \in Nat
    BY <1>1
  <2> QED BY <1>3, <1>4, <2>1
<1> QED BY <1>1, <1>2, <1>5

-----------------------------------------------------------------------------
(* Nodes whose cells and links hold values of S.                           *)
CellOf(S) == [key : Nat, val : S]
NodeOf(S, L) ==
  [type : {"leaf", "internal"}, root : BOOLEAN, cells : Seq(CellOf(S)), link : L]

(* Node m is node n with one cell more.                                    *)
CellPut(n, m, slot, cell) ==
  /\ num_cells(m) = num_cells(n) + 1
  /\ \A i \in 0 .. num_cells(n) :
       m.cells[i + 1] = IF i < slot THEN n.cells[i + 1]
                        ELSE IF i = slot THEN cell ELSE n.cells[i]

(* Sequence t is sequence s with one element more.                         *)
ElementPut(s, t, i, e) ==
  /\ Len(t) = Len(s) + 1
  /\ \A j \in 1 .. Len(s) + 1 : t[j] = IF j < i THEN s[j] ELSE IF j = i THEN e ELSE s[j - 1]

(* Sequence t is the len elements of sequence s behind the first k.        *)
PartOf(s, t, k, len) == Len(t) = len /\ \A i \in 1 .. len : t[i] = s[k + i]

(* SubSeq returns what PartOf says.                                        *)
LEMMA SubSeqIs ==
  ASSUME NEW S, NEW s \in Seq(S), NEW k \in Nat, NEW l \in Nat, k <= l, l <= Len(s)
  PROVE  SubSeq(s, k + 1, l) \in Seq(S) /\ PartOf(s, SubSeq(s, k + 1, l), k, l - k)
<1> DEFINE t == SubSeq(s, k + 1, l)
           j == k + 1
<1>1. \A i \in j .. l : s[i] \in S
  BY ElementOfSeq
<1>2. j \in Int /\ l \in Int /\ j \in Nat
  OBVIOUS
<1>3. t = SubSeq(s, j, l)
  OBVIOUS
<1> HIDE DEF j, t
<1>4. /\ t \in Seq(S) /\ Len(t) = IF j <= l THEN l - j + 1 ELSE 0
      /\ \A i \in 1 .. l - j + 1 : t[i] = s[j + i - 1]
  BY ONLY <1>1, <1>2, <1>3, SubSeqProperties
<1>5. Len(t) = l - k
  BY <1>4 DEF j
<1>6. \A i \in 1 .. l - k : t[i] = s[k + i]
  <2>1. ASSUME NEW i \in 1 .. l - k PROVE t[i] = s[k + i]
    <3>1. i \in 1 .. l - j + 1 /\ j + i - 1 = k + i
      BY DEF j
    <3> QED BY <1>4, <3>1
  <2> QED BY <2>1
<1> QED BY <1>4, <1>5, <1>6 DEF PartOf, t

(* InsertAt on a sequence, element by element.                             *)
LEMMA InsertAtIs ==
  ASSUME NEW S, NEW s \in Seq(S), NEW i \in 1 .. Len(s) + 1, NEW e \in S
  PROVE  Seqs!InsertAt(s, i, e) \in Seq(S) /\ ElementPut(s, Seqs!InsertAt(s, i, e), i, e)
<1> DEFINE a == SubSeq(s, 1, i - 1)
           b == SubSeq(s, i, Len(s))
           m == a \o <<e>>
<1>1. Len(s) \in Nat /\ i \in Nat /\ i - 1 \in Int /\ Len(s) \in Int /\ i <= Len(s) + 1 /\ 1 <= i
  BY LenProperties
<1>2. \A j \in 1 .. Len(s) : s[j] \in S
  BY ElementOfSeq
<1>3. /\ a \in Seq(S) /\ Len(a) = i - 1 /\ \A j \in 1 .. i - 1 : a[j] = s[j]
  <2>1. \A j \in 1 .. i - 1 : s[j] \in S
    BY <1>1, <1>2
  <2>2. /\ a \in Seq(S) /\ Len(a) = IF 1 <= i - 1 THEN i - 1 - 1 + 1 ELSE 0
        /\ \A j \in 1 .. i - 1 - 1 + 1 : a[j] = s[1 + j - 1]
    BY ONLY <1>1, <2>1, SubSeqProperties, 1 \in Int
  <2> HIDE DEF a
  <2> QED BY <1>1, <2>2
<1>4. /\ b \in Seq(S) /\ Len(b) = Len(s) - i + 1
      /\ \A j \in 1 .. Len(s) - i + 1 : b[j] = s[i + j - 1]
  <2>1. \A j \in i .. Len(s) : s[j] \in S
    BY <1>1, <1>2
  <2>2. /\ b \in Seq(S) /\ Len(b) = IF i <= Len(s) THEN Len(s) - i + 1 ELSE 0
        /\ \A j \in 1 .. Len(s) - i + 1 : b[j] = s[i + j - 1]
    BY ONLY <1>1, <2>1, SubSeqProperties, i \in Int
  <2> HIDE DEF b
  <2> QED BY <1>1, <2>2
<1>5. <<e>> \in Seq(S) /\ Len(<<e>>) = 1 /\ <<e>>[1] = e
  OBVIOUS
<1> HIDE DEF a, b
<1>6. /\ m \in Seq(S) /\ Len(m) = i /\ m[i] = e /\ \A j \in 1 .. i - 1 : m[j] = s[j]
  <2>1. /\ m \in Seq(S) /\ Len(m) = Len(a) + 1
        /\ \A j \in 1 .. Len(a) + 1 : m[j] = IF j <= Len(a) THEN a[j] ELSE <<e>>[j - Len(a)]
    BY <1>3, <1>5, ConcatProperties
  <2> HIDE DEF m
  <2> QED BY <1>1, <1>3, <1>5, <2>1
<1> HIDE DEF m
<1>7. /\ m \o b \in Seq(S) /\ Len(m \o b) = Len(m) + Len(b)
      /\ \A j \in 1 .. Len(m) + Len(b) : (m \o b)[j] = IF j <= Len(m) THEN m[j] ELSE b[j - Len(m)]
  BY <1>4, <1>6, ConcatProperties
<1>8. Seqs!InsertAt(s, i, e) = m \o b
  BY DEF Seqs!InsertAt, m, a, b
<1>9. ASSUME NEW j \in 1 .. Len(s) + 1
      PROVE  (m \o b)[j] = IF j < i THEN s[j] ELSE IF j = i THEN e ELSE s[j - 1]
  <2>1. CASE j <= i
    <3>1. (m \o b)[j] = m[j]
      BY <1>1, <1>4, <1>6, <1>7, <2>1
    <3> QED BY <1>1, <1>6, <2>1, <3>1
  <2>2. CASE j > i
    <3>1. j - i \in 1 .. Len(s) - i + 1 /\ i + (j - i) - 1 = j - 1
      BY <1>1, <2>2
    <3> QED BY <1>1, <1>4, <1>6, <1>7, <2>2, <3>1
  <2>3. j <= i \/ j > i
    BY <1>1
  <2> QED BY ONLY <2>1, <2>2, <2>3
<1> QED BY <1>1, <1>4, <1>6, <1>7, <1>8, <1>9 DEF ElementPut

(* Nodes that are made of typed cells have keys that can be compared.      *)
LEMMA NodeParts ==
  ASSUME NEW S, NEW L, NEW n \in NodeOf(S, L)
  PROVE  /\ Keyed(n) /\ num_cells(n) \in Nat /\ Len(n.cells) = num_cells(n)
         /\ \A i \in 0 .. num_cells(n) - 1 :
              /\ n.cells[i + 1] \in CellOf(S) /\ get_key(n, i) \in Nat /\ get_value(n, i) \in S
              /\ n.cells[i + 1] = [key |-> get_key(n, i), val |-> get_value(n, i)]
<1>1. n.cells \in Seq(CellOf(S)) /\ Len(n.cells) \in Nat
  BY DEF NodeOf
<1>2. ASSUME NEW i \in 0 .. num_cells(n) - 1
      PROVE  /\ n.cells[i + 1] \in CellOf(S) /\ get_key(n, i) \in Nat /\ get_value(n, i) \in S
             /\ n.cells[i + 1] = [key |-> get_key(n, i), val |-> get_value(n, i)]
  <2>1. i + 1 \in 1 .. Len(n.cells)
    BY <1>1 DEF num_cells
  <2>2. n.cells[i + 1] \in CellOf(S)
    BY <1>1, <2>1, ElementOfSeq
  <2> QED BY <2>2 DEF CellOf, get_key, get_value
<1> QED BY <1>1, <1>2 DEF Keyed, num_cells

(* insert_cell puts the key where leaf_node_find says.                     *)
LEMMA InsertCell ==
  ASSUME NEW S, NEW L, NEW n \in NodeOf(S, L), NEW key \in Nat, NEW v \in S
  PROVE  /\ insert_cell(n, key, v) \in NodeOf(S, L)
         /\ insert_cell(n, key, v) = [n EXCEPT !.cells = insert_cell(n, key, v).cells]
         /\ CellPut(n, insert_cell(n, key, v), leaf_node_find(n, key), [key |-> key, val |-> v])
<1> DEFINE slot == leaf_node_find(n, key)
           cell == [key |-> key, val |-> v]
           c == Seqs!InsertAt(n.cells, slot + 1, cell)
           m == insert_cell(n, key, v)
<1>1. slot \in 0 .. num_cells(n) /\ num_cells(n) \in Nat /\ Len(n.cells) = num_cells(n)
  BY NodeParts, LeafNodeFind
<1>2. n.cells \in Seq(CellOf(S)) /\ cell \in CellOf(S)
  BY DEF NodeOf, CellOf
<1>3. m = [n EXCEPT !.cells = c]
  BY DEF insert_cell
<1> HIDE DEF m, cell, slot
<1>4. /\ c \in Seq(CellOf(S)) /\ Len(c) = Len(n.cells) + 1
      /\ \A j \in 1 .. Len(n.cells) + 1 :
           c[j] = IF j < slot + 1 THEN n.cells[j] ELSE IF j = slot + 1 THEN cell ELSE n.cells[j - 1]
  <2>1. slot + 1 \in 1 .. Len(n.cells) + 1
    BY <1>1
  <2>2. c \in Seq(CellOf(S)) /\ ElementPut(n.cells, c, slot + 1, cell)
    BY ONLY <1>2, <2>1, InsertAtIs
  <2> HIDE DEF c
  <2> QED BY <2>2 DEF ElementPut
<1> HIDE DEF c
<1>5. m \in NodeOf(S, L) /\ m.cells = c
  BY <1>3, <1>4 DEF NodeOf
<1>6. CellPut(n, m, slot, cell)
  <2>1. ASSUME NEW i \in 0 .. num_cells(n)
        PROVE  c[i + 1] = IF i < slot THEN n.cells[i + 1]
                          ELSE IF i = slot THEN cell ELSE n.cells[i]
    <3>1. i + 1 \in 1 .. Len(n.cells) + 1
      BY <1>1
    <3> QED BY <1>1, <1>4, <3>1
  <2> QED BY <1>1, <1>4, <1>5, <2>1 DEF CellPut, num_cells
<1> QED BY <1>3, <1>5, <1>6 DEF m, slot, cell

-----------------------------------------------------------------------------
(* Looking for a key.                                                      *)

(* A key is found in a node exactly if a cell has it, in that cell.        *)
LEMMA HoldsKey ==
  ASSUME NEW n, Keyed(n), Sorted(n), NEW key \in Nat
  PROVE  /\ Holds(n, key) <=> \E i \in 0 .. num_cells(n) - 1 : get_key(n, i) = key
         /\ \A i \in 0 .. num_cells(n) - 1 : get_key(n, i) = key => i = leaf_node_find(n, key)
<1> DEFINE N == num_cells(n)
           f == leaf_node_find(n, key)
<1>1. /\ N \in Nat /\ f \in 0 .. N
      /\ \A i \in 0 .. N - 1 : get_key(n, i) \in Nat
      /\ \A i \in 0 .. N - 1 : get_key(n, i) < key <=> i < f
  BY LeafNodeFind DEF Keyed
<1>2. ASSUME NEW i \in 0 .. N - 1, get_key(n, i) = key PROVE i = f
  <2>1. f <= i /\ i \in Nat /\ f \in Nat
    BY <1>1, <1>2
  <2>2. SUFFICES ASSUME f < i PROVE FALSE
    BY <2>1
  <2>3. f \in 0 .. N - 1 /\ get_key(n, f) < get_key(n, i)
    BY <1>1, <2>1, <2>2 DEF Sorted
  <2> QED BY <1>1, <1>2, <2>1, <2>3
<1>3. Holds(n, key) <=> f < N /\ get_key(n, f) = key
  BY DEF Holds
<1> HIDE DEF f
<1>4. f < N /\ get_key(n, f) = key => \E i \in 0 .. N - 1 : get_key(n, i) = key
  <2>1. f < N => f \in 0 .. N - 1
    BY <1>1
  <2> QED BY <2>1
<1>5. (\E i \in 0 .. N - 1 : get_key(n, i) = key) => f < N /\ get_key(n, f) = key
  BY <1>1, <1>2
<1> QED BY <1>2, <1>3, <1>4, <1>5 DEF f

(* child_slot is the slot between whose separators the key is.             *)
LEMMA ChildSlot ==
  ASSUME NEW n, Keyed(n), Sorted(n), NEW key \in Nat
  PROVE  /\ child_slot(n, key) \in 0 .. num_cells(n)
         /\ \A i \in 0 .. num_cells(n) - 1 : get_key(n, i) <= key <=> i < child_slot(n, key)
<1> DEFINE N == num_cells(n)
           beyond == {i \in 0 .. N - 1 : key < get_key(n, i)}
           c == child_slot(n, key)
<1>1. N \in Nat /\ \A i \in 0 .. N - 1 : get_key(n, i) \in Nat
  BY DEF Keyed
<1>2. CASE beyond = {}
  <2>1. c = N
    BY <1>2 DEF child_slot
  <2>2. \A i \in 0 .. N - 1 : get_key(n, i) <= key
    BY <1>1, <1>2
  <2> QED BY <1>1, <2>1, <2>2
<1>3. CASE beyond # {}
  <2>1. c = CHOOSE i \in beyond : \A j \in beyond : i <= j
    BY <1>3 DEF child_slot
  <2>2. \E i \in beyond : \A j \in beyond : i <= j
    <3>1. beyond \in SUBSET Nat
      BY <1>1
    <3> HIDE DEF beyond
    <3> QED BY <1>3, <3>1, LeastNatural
  <2>3. c \in beyond /\ \A j \in beyond : c <= j
    <3> HIDE DEF beyond, c
    <3> QED BY <2>1, <2>2
  <2>4. c \in 0 .. N - 1 /\ key < get_key(n, c)
    BY <2>3
  <2>5. ASSUME NEW i \in 0 .. N - 1, get_key(n, i) <= key PROVE i < c
    <3>1. SUFFICES ASSUME c <= i PROVE FALSE
      BY <1>1, <2>4, <2>5
    <3>2. c = i \/ get_key(n, c) < get_key(n, i)
      BY <1>1, <2>4, <3>1 DEF Sorted
    <3> QED BY <1>1, <2>4, <2>5, <3>2
  <2>6. ASSUME NEW i \in 0 .. N - 1, i < c PROVE get_key(n, i) <= key
    <3>1. i \notin beyond
      BY <1>1, <2>3, <2>4, <2>6
    <3> QED BY <1>1, <3>1
  <2> QED BY <1>1, <2>4, <2>5, <2>6
<1> QED BY <1>2, <1>3

-----------------------------------------------------------------------------
(* Leaves.                                                                 *)

(* Another value under the same key.                                       *)
LEMMA SetValue ==
  ASSUME NEW S, NEW L, NEW n \in NodeOf(S, L), NEW key \in Nat, NEW v \in S,
         Sorted(n), Holds(n, key)
  PROVE  LET m == set_value(n, key, v)
             f == leaf_node_find(n, key)
         IN  /\ m \in NodeOf(S, L) /\ m = [n EXCEPT !.cells = m.cells]
             /\ num_cells(m) = num_cells(n) /\ f \in 0 .. num_cells(n) - 1 /\ get_key(n, f) = key
             /\ \A i \in 0 .. num_cells(n) - 1 :
                  m.cells[i + 1] = IF i = f THEN [key |-> key, val |-> v] ELSE n.cells[i + 1]
<1> DEFINE m == set_value(n, key, v)
           f == leaf_node_find(n, key)
           c == [n.cells EXCEPT ![f + 1].val = v]
<1>1. /\ f \in 0 .. num_cells(n) - 1 /\ get_key(n, f) = key /\ num_cells(n) \in Nat
      /\ Len(n.cells) = num_cells(n) /\ n.cells \in Seq(CellOf(S))
      /\ n.cells[f + 1] \in CellOf(S) /\ n.cells[f + 1].key = key
  <2>1. f \in 0 .. num_cells(n) /\ num_cells(n) \in Nat
    BY NodeParts, LeafNodeFind
  <2>2. f < num_cells(n) /\ get_key(n, f) = key
    BY DEF Holds
  <2>3. f \in 0 .. num_cells(n) - 1
    BY <2>1, <2>2
  <2> HIDE DEF f
  <2> QED BY <2>1, <2>2, <2>3, NodeParts DEF NodeOf, get_key
<1>2. m = [n EXCEPT !.cells = c]
  BY DEF set_value
<1> HIDE DEF m, f
<1>3. [n.cells[f + 1] EXCEPT !.val = v] = [key |-> key, val |-> v]
  BY <1>1 DEF CellOf
<1>4. c = [n.cells EXCEPT ![f + 1] = [key |-> key, val |-> v]]
  BY <1>3
<1>5. [key |-> key, val |-> v] \in CellOf(S)
  BY DEF CellOf
<1>6. /\ c \in Seq(CellOf(S)) /\ Len(c) = Len(n.cells)
      /\ \A j \in 1 .. Len(n.cells) :
           c[j] = IF j = f + 1 THEN [key |-> key, val |-> v] ELSE n.cells[j]
  <2>1. f + 1 \in 1 .. Len(n.cells)
    BY <1>1
  <2> DEFINE e == [key |-> key, val |-> v]
  <2> HIDE DEF c, e
  <2>2. c = [n.cells EXCEPT ![f + 1] = e] /\ e \in CellOf(S)
    BY <1>4, <1>5 DEF e
  <2>3. /\ c \in Seq(CellOf(S)) /\ Len(c) = Len(n.cells)
        /\ \A j \in 1 .. Len(n.cells) : c[j] = IF j = f + 1 THEN e ELSE n.cells[j]
    BY ONLY <1>1, <2>1, <2>2, ExceptSeq
  <2> QED BY <2>3 DEF e
<1> HIDE DEF c
<1>7. m \in NodeOf(S, L) /\ m.cells = c
  BY <1>2, <1>6 DEF NodeOf
<1>8. ASSUME NEW i \in 0 .. num_cells(n) - 1
      PROVE  c[i + 1] = IF i = f THEN [key |-> key, val |-> v] ELSE n.cells[i + 1]
  <2>1. i + 1 \in 1 .. Len(n.cells) /\ (i + 1 = f + 1 <=> i = f)
    BY <1>1
  <2> QED BY <1>6, <2>1
<1> QED BY <1>1, <1>2, <1>6, <1>7, <1>8 DEF num_cells, m, f

(* Leaf n is cut into the leaves left and right, in front of key sep.      *)
LeafCut(n, left, right, new_id, sep) ==
  /\ left.type = "leaf" /\ right.type = "leaf"
  /\ left.link = new_id /\ right.link = n.link
  /\ num_cells(n) = num_cells(left) + num_cells(right)
  /\ num_cells(left) \in Nat \ {0} /\ num_cells(right) \in Nat \ {0}
  /\ sep = get_key(right, 0)
  /\ \A i \in 0 .. num_cells(left) - 1 : left.cells[i + 1] = n.cells[i + 1]
  /\ \A i \in 0 .. num_cells(right) - 1 :
       right.cells[i + 1] = n.cells[num_cells(left) + i + 1]

(* The two leaves that a full one is split into are its cells and the new  *)
(* one, in half.                                                           *)
LEMMA SplitLeafCut ==
  ASSUME NEW S, NEW L, NEW n \in NodeOf(S, L), n.type = "leaf", num_cells(n) = MaxCells,
         NEW key \in Nat, NEW v \in S, NEW new_id \in L, NoLeaf \in L
  PROVE  LET left  == split_left(n, key, v, new_id)
             right == split_right(n, key, v)
         IN  /\ left \in NodeOf(S, L) /\ left.root = n.root
             /\ right \in NodeOf(S, L) /\ right.root = FALSE
             /\ LeafCut(insert_cell(n, key, v), left, right, new_id, get_key(right, 0))
             /\ num_cells(left) \in MaxCells \div 2 .. MaxCells
             /\ num_cells(right) \in MaxCells \div 2 .. MaxCells
<1> DEFINE left == split_left(n, key, v, new_id)
           right == split_right(n, key, v)
           m == insert_cell(n, key, v)
           split == (MaxCells + 1) \div 2
           a == SubSeq(m.cells, 1, split)
           b == SubSeq(m.cells, split + 1, MaxCells + 1)
<1>1. /\ MaxCells \in Nat /\ MaxCells >= 2 /\ split \in Nat /\ split >= 1 /\ split <= MaxCells
      /\ MaxCells + 1 - split >= 1 /\ split >= MaxCells \div 2
      /\ MaxCells + 1 - split >= MaxCells \div 2 /\ MaxCells \div 2 \in Nat
  BY MaxCellsAssumption
<1> DEFINE cell == [key |-> key, val |-> v]
           slot == leaf_node_find(n, key)
<1>2. /\ m \in NodeOf(S, L) /\ m = [n EXCEPT !.cells = m.cells]
      /\ num_cells(m) = MaxCells + 1
  <2>1. /\ m \in NodeOf(S, L) /\ m = [n EXCEPT !.cells = m.cells]
        /\ CellPut(n, m, slot, cell)
    BY InsertCell
  <2> HIDE DEF m, slot, cell
  <2> QED BY <2>1 DEF CellPut
<1>3. m.link = n.link /\ m.root = n.root /\ m.type = "leaf"
  <2> HIDE DEF m
  <2> QED BY <1>2 DEF NodeOf
<1> HIDE DEF m, split
<1>4. /\ m.cells \in Seq(CellOf(S)) /\ Len(m.cells) = MaxCells + 1
      /\ \A i \in 1 .. MaxCells + 1 : m.cells[i] \in CellOf(S)
  <2>1. m.cells \in Seq(CellOf(S)) /\ Len(m.cells) = MaxCells + 1
    BY <1>2 DEF NodeOf, num_cells
  <2> QED BY <2>1, ElementOfSeq
<1>5. /\ a \in Seq(CellOf(S)) /\ Len(a) = split
      /\ \A i \in 1 .. split : a[i] = m.cells[i]
  <2>1. a = SubSeq(m.cells, 0 + 1, split) /\ 0 \in Nat /\ split \in Nat
        /\ 0 <= split /\ split <= Len(m.cells)
    BY <1>1, <1>4
  <2> HIDE DEF a
  <2>2. a \in Seq(CellOf(S)) /\ PartOf(m.cells, a, 0, split - 0)
    BY ONLY <1>4, <2>1, SubSeqIs
  <2> QED BY <1>1, <2>2 DEF PartOf
<1>6. /\ b \in Seq(CellOf(S)) /\ Len(b) = MaxCells + 1 - split
      /\ \A i \in 1 .. MaxCells + 1 - split : b[i] = m.cells[split + i]
  <2> DEFINE e == MaxCells + 1
  <2>1. b = SubSeq(m.cells, split + 1, e) /\ split \in Nat /\ e \in Nat
        /\ split <= e /\ e <= Len(m.cells)
    BY <1>1, <1>4
  <2> HIDE DEF b, e
  <2>2. b \in Seq(CellOf(S)) /\ PartOf(m.cells, b, split, e - split)
    BY ONLY <1>4, <2>1, SubSeqIs
  <2>3. e - split = MaxCells + 1 - split
    BY <1>1 DEF e
  <2> QED BY ONLY <2>2, <2>3 DEF PartOf
<1>7. left = [n EXCEPT !.cells = a, !.link = new_id]
  BY DEF split_left, m, split
<1>8. right = [type |-> "leaf", root |-> FALSE, cells |-> b, link |-> n.link]
  <2>1. right = [initialize_as_leaf(FALSE) EXCEPT !.cells = b, !.link = n.link]
    BY DEF split_right, m, split
  <2> HIDE DEF right, b
  <2> QED BY <2>1 DEF initialize_as_leaf
<1> HIDE DEF left, right, a, b
<1>9. /\ left \in NodeOf(S, L) /\ left.cells = a /\ left.link = new_id
      /\ left.type = "leaf" /\ left.root = n.root
  BY <1>5, <1>7 DEF NodeOf
<1>10. /\ right \in NodeOf(S, L) /\ right.cells = b /\ right.link = n.link
       /\ right.type = "leaf" /\ right.root = FALSE
  BY <1>6, <1>8 DEF NodeOf
<1>11. LeafCut(m, left, right, new_id, get_key(right, 0))
  <2>1. \A i \in 0 .. split - 1 : a[i + 1] = m.cells[i + 1]
    BY <1>1, <1>5
  <2>2. \A i \in 0 .. MaxCells + 1 - split - 1 : b[i + 1] = m.cells[split + i + 1]
    <3>1. ASSUME NEW i \in 0 .. MaxCells + 1 - split - 1 PROVE b[i + 1] = m.cells[split + i + 1]
      <4>1. i + 1 \in 1 .. MaxCells + 1 - split /\ split + (i + 1) = split + i + 1
        BY <1>1
      <4> QED BY <1>6, <4>1
    <3> QED BY <3>1
  <2>3. num_cells(left) = split /\ num_cells(right) = MaxCells + 1 - split
    BY <1>5, <1>6, <1>9, <1>10 DEF num_cells
  <2> QED BY <1>1, <1>2, <1>3, <1>9, <1>10, <2>1, <2>2, <2>3 DEF LeafCut
<1>12. /\ num_cells(left) \in MaxCells \div 2 .. MaxCells
       /\ num_cells(right) \in MaxCells \div 2 .. MaxCells
  BY <1>1, <1>5, <1>6, <1>9, <1>10 DEF num_cells
<1> QED BY <1>9, <1>10, <1>11, <1>12 DEF left, right, m

-----------------------------------------------------------------------------
(* Internal nodes, whose children are members of P.                        *)
InternalOf(P) == {n \in NodeOf(P, P) : n.type = "internal"}
(* The child in slot i; the last one is in the link field.                 *)
Child(n, i) == IF i = num_cells(n) THEN n.link ELSE get_value(n, i)

(* The keys and the children of a node.                                    *)
LEMMA KeysAndChildren ==
  ASSUME NEW P, NEW n \in InternalOf(P)
  PROVE  /\ Keys(n) \in Seq(Nat) /\ Len(Keys(n)) = num_cells(n)
         /\ Children(n) \in Seq(P) /\ Len(Children(n)) = num_cells(n) + 1
         /\ \A i \in 0 .. num_cells(n) - 1 : Keys(n)[i + 1] = get_key(n, i)
         /\ \A i \in 0 .. num_cells(n) : Children(n)[i + 1] = Child(n, i) /\ Child(n, i) \in P
<1> DEFINE N == num_cells(n)
           vals == [i \in 1 .. Len(n.cells) |-> n.cells[i].val]
<1>1. /\ n \in NodeOf(P, P) /\ N \in Nat /\ Len(n.cells) = N /\ n.link \in P
      /\ \A i \in 0 .. N - 1 : /\ n.cells[i + 1] \in CellOf(P) /\ get_key(n, i) \in Nat
                               /\ get_value(n, i) \in P
  BY NodeParts DEF InternalOf, NodeOf
<1>2. \A i \in 1 .. N : n.cells[i].key \in Nat /\ n.cells[i].val \in P
  <2>1. ASSUME NEW i \in 1 .. N PROVE n.cells[i] \in CellOf(P)
    <3>1. i - 1 \in 0 .. N - 1 /\ i - 1 + 1 = i
      BY <1>1
    <3> QED BY <1>1, <3>1
  <2> QED BY <2>1 DEF CellOf
<1>3. Keys(n) \in Seq(Nat) /\ Len(Keys(n)) = N
  BY <1>1, <1>2 DEF Keys
<1>4. \A i \in 0 .. N - 1 : Keys(n)[i + 1] = get_key(n, i)
  BY <1>1 DEF Keys, get_key
<1>5. vals \in Seq(P) /\ Len(vals) = N
  <2>1. vals \in [1 .. N -> P]
    BY <1>1, <1>2
  <2> HIDE DEF vals
  <2> QED BY <1>1, <2>1
<1>6. Children(n) = Append(vals, n.link)
  BY DEF Children
<1>7. \A i \in 0 .. N - 1 : vals[i + 1] = get_value(n, i)
  BY <1>1 DEF get_value
<1> HIDE DEF vals
<1>8. Children(n) \in Seq(P) /\ Len(Children(n)) = N + 1
  BY <1>1, <1>5, <1>6
<1>9. ASSUME NEW i \in 0 .. N PROVE Children(n)[i + 1] = Child(n, i) /\ Child(n, i) \in P
  <2>1. CASE i = N
    BY <1>1, <1>5, <1>6, <2>1 DEF Child
  <2>2. CASE i # N
    <3>1. i \in 0 .. N - 1 /\ i + 1 \in 1 .. Len(vals)
      BY <1>1, <1>5, <2>2
    <3>2. Children(n)[i + 1] = vals[i + 1]
      BY <1>1, <1>5, <1>6, <3>1
    <3> QED BY <1>1, <1>7, <2>2, <3>1, <3>2 DEF Child
  <2> QED BY <2>1, <2>2
<1> QED BY <1>3, <1>4, <1>8, <1>9

(* The node that Internal makes of keys and children.                      *)
InternalParts(n, root, keys, children) ==
  /\ n.root = root /\ num_cells(n) = Len(keys)
  /\ \A i \in 0 .. Len(keys) - 1 : get_key(n, i) = keys[i + 1]
  /\ \A i \in 0 .. Len(keys) : Child(n, i) = children[i + 1]

(* Internal makes the node of some keys and children.                      *)
LEMMA InternalIs ==
  ASSUME NEW P, NEW root \in BOOLEAN, NEW keys \in Seq(Nat), NEW children \in Seq(P),
         Len(children) = Len(keys) + 1
  PROVE  /\ Internal(root, keys, children) \in InternalOf(P)
         /\ InternalParts(Internal(root, keys, children), root, keys, children)
<1> DEFINE N == Len(keys)
           n == Internal(root, keys, children)
           cells == [i \in 1 .. N |-> [key |-> keys[i], val |-> children[i]]]
<1>1. N \in Nat /\ \A i \in 1 .. N : keys[i] \in Nat /\ children[i] \in P
  BY ElementOfSeq
<1>2. children[N + 1] \in P
  BY <1>1, ElementOfSeq
<1>3. cells \in Seq(CellOf(P)) /\ Len(cells) = N
  BY <1>1 DEF CellOf
<1>4. \A i \in 0 .. N - 1 : /\ cells[i + 1].key = keys[i + 1]
                            /\ cells[i + 1].val = children[i + 1]
  BY <1>1
<1>5. n = [type |-> "internal", root |-> root, cells |-> cells, link |-> children[N + 1]]
  BY DEF Internal
<1> HIDE DEF n, cells
<1>6. /\ n \in InternalOf(P) /\ n.root = root /\ n.cells = cells
      /\ n.link = children[N + 1]
  BY <1>2, <1>3, <1>5 DEF InternalOf, NodeOf
<1>7. \A i \in 0 .. N - 1 : get_key(n, i) = keys[i + 1] /\ get_value(n, i) = children[i + 1]
  BY <1>4, <1>6 DEF get_key, get_value
<1>8. num_cells(n) = N
  BY <1>3, <1>6 DEF num_cells
<1>9. ASSUME NEW i \in 0 .. N PROVE Child(n, i) = children[i + 1]
  <2>1. CASE i = N
    BY <1>6, <1>8, <2>1 DEF Child
  <2>2. CASE i # N
    <3>1. i \in 0 .. N - 1
      BY <1>1, <2>2
    <3> QED BY <1>7, <1>8, <2>2, <3>1 DEF Child
  <2> QED BY <2>1, <2>2
<1> QED BY <1>6, <1>7, <1>8, <1>9 DEF InternalParts, n

(* Node m is node n with child r, behind key sep, next to the child in     *)
(* slot.                                                                   *)
ChildPut(n, m, slot, sep, r) ==
  /\ num_cells(m) = num_cells(n) + 1
  /\ \A i \in 0 .. num_cells(n) :
       get_key(m, i) = IF i < slot THEN get_key(n, i)
                       ELSE IF i = slot THEN sep ELSE get_key(n, i - 1)
  /\ \A i \in 0 .. num_cells(n) + 1 :
       Child(m, i) = IF i <= slot THEN Child(n, i)
                     ELSE IF i = slot + 1 THEN r ELSE Child(n, i - 1)

(* insert_child adds a key and, one place behind it, a child.              *)
LEMMA InsertChild ==
  ASSUME NEW P, NEW n \in InternalOf(P), NEW slot \in 0 .. num_cells(n),
         NEW sep \in Nat, NEW r \in P
  PROVE  /\ insert_child(n, slot, sep, r) \in InternalOf(P)
         /\ insert_child(n, slot, sep, r).root = n.root
         /\ ChildPut(n, insert_child(n, slot, sep, r), slot, sep, r)
<1> DEFINE N == num_cells(n)
           m == insert_child(n, slot, sep, r)
           K == Seqs!InsertAt(Keys(n), slot + 1, sep)
           C == Seqs!InsertAt(Children(n), slot + 2, r)
<1>1. /\ N \in Nat /\ slot \in Nat /\ slot <= N /\ n.root \in BOOLEAN
      /\ Keys(n) \in Seq(Nat) /\ Len(Keys(n)) = N
      /\ Children(n) \in Seq(P) /\ Len(Children(n)) = N + 1
      /\ \A i \in 0 .. N - 1 : Keys(n)[i + 1] = get_key(n, i)
      /\ \A i \in 0 .. N : Children(n)[i + 1] = Child(n, i)
  BY KeysAndChildren, NodeParts DEF InternalOf, NodeOf
<1>2. K \in Seq(Nat) /\ ElementPut(Keys(n), K, slot + 1, sep)
  <2> DEFINE s == Keys(n)
             j == slot + 1
  <2>1. s \in Seq(Nat) /\ j \in 1 .. Len(s) + 1
    BY <1>1
  <2> HIDE DEF s, j
  <2>2. Seqs!InsertAt(s, j, sep) \in Seq(Nat) /\ ElementPut(s, Seqs!InsertAt(s, j, sep), j, sep)
    BY ONLY <2>1, sep \in Nat, InsertAtIs
  <2> QED BY <2>2 DEF s, j
<1>3. C \in Seq(P) /\ ElementPut(Children(n), C, slot + 2, r)
  <2> DEFINE s == Children(n)
             j == slot + 2
  <2>1. s \in Seq(P) /\ j \in 1 .. Len(s) + 1
    BY <1>1
  <2> HIDE DEF s, j
  <2>2. Seqs!InsertAt(s, j, r) \in Seq(P) /\ ElementPut(s, Seqs!InsertAt(s, j, r), j, r)
    BY ONLY <2>1, r \in P, InsertAtIs
  <2> QED BY <2>2 DEF s, j
<1>4. m = Internal(n.root, K, C)
  BY DEF insert_child
<1> HIDE DEF m, K, C
<1>5. Len(K) = N + 1 /\ Len(C) = N + 2
  BY <1>1, <1>2, <1>3 DEF ElementPut
<1>6. m \in InternalOf(P) /\ InternalParts(m, n.root, K, C)
  <2>1. Len(C) = Len(K) + 1
    BY <1>1, <1>5
  <2>2. n.root \in BOOLEAN /\ K \in Seq(Nat) /\ C \in Seq(P)
    BY <1>1, <1>2, <1>3
  <2> QED BY ONLY <1>4, <2>1, <2>2, InternalIs
<1>7. m.root = n.root /\ num_cells(m) = N + 1
  BY <1>5, <1>6 DEF InternalParts
<1>8. ASSUME NEW i \in 0 .. N
      PROVE  get_key(m, i) = IF i < slot THEN get_key(n, i)
                             ELSE IF i = slot THEN sep ELSE get_key(n, i - 1)
  <2>1. get_key(m, i) = K[i + 1]
    BY <1>1, <1>5, <1>6 DEF InternalParts
  <2>2. i + 1 \in 1 .. Len(Keys(n)) + 1
    BY <1>1
  <2>3. K[i + 1] = IF i < slot THEN Keys(n)[i + 1]
                   ELSE IF i = slot THEN sep ELSE Keys(n)[i]
    BY <1>1, <1>2, <2>2 DEF ElementPut
  <2>4. CASE i < slot
    <3>1. i \in 0 .. N - 1
      BY <1>1, <2>4
    <3> QED BY <1>1, <2>1, <2>3, <2>4, <3>1
  <2>5. CASE i = slot
    BY <1>1, <2>1, <2>3, <2>5
  <2>6. CASE i > slot
    <3>1. i - 1 \in 0 .. N - 1 /\ i - 1 + 1 = i /\ ~(i < slot) /\ i # slot
      BY <1>1, <2>6
    <3> QED BY <1>1, <2>1, <2>3, <3>1
  <2> QED BY <1>1, <2>4, <2>5, <2>6
<1>9. ASSUME NEW i \in 0 .. N + 1
      PROVE  Child(m, i) = IF i <= slot THEN Child(n, i)
                           ELSE IF i = slot + 1 THEN r ELSE Child(n, i - 1)
  <2>1. Child(m, i) = C[i + 1]
    BY <1>1, <1>5, <1>6 DEF InternalParts
  <2>2. i + 1 \in 1 .. Len(Children(n)) + 1
    BY <1>1
  <2>3. C[i + 1] = IF i <= slot THEN Children(n)[i + 1]
                   ELSE IF i = slot + 1 THEN r ELSE Children(n)[i]
    BY <1>1, <1>3, <2>2 DEF ElementPut
  <2>4. CASE i <= slot
    <3>1. i \in 0 .. N
      BY <1>1, <2>4
    <3> QED BY <1>1, <2>1, <2>3, <2>4, <3>1
  <2>5. CASE i = slot + 1
    BY <1>1, <2>1, <2>3, <2>5
  <2>6. CASE i > slot + 1
    <3>1. i - 1 \in 0 .. N /\ i - 1 + 1 = i /\ ~(i <= slot) /\ i # slot + 1
      BY <1>1, <2>6
    <3> QED BY <1>1, <2>1, <2>3, <3>1
  <2> QED BY <1>1, <2>4, <2>5, <2>6
<1> QED BY <1>6, <1>7, <1>8, <1>9 DEF ChildPut, m

(* Internal node n is cut into left and right; key sep, between the two,   *)
(* is in neither.                                                          *)
InternalCut(n, left, right, sep) ==
  /\ num_cells(left) \in Nat /\ num_cells(right) \in Nat
  /\ num_cells(n) = num_cells(left) + num_cells(right) + 1
  /\ sep = get_key(n, num_cells(left))
  /\ \A i \in 0 .. num_cells(left) - 1 : get_key(left, i) = get_key(n, i)
  /\ \A i \in 0 .. num_cells(left) : Child(left, i) = Child(n, i)
  /\ \A i \in 0 .. num_cells(right) - 1 :
       get_key(right, i) = get_key(n, num_cells(left) + 1 + i)
  /\ \A i \in 0 .. num_cells(right) : Child(right, i) = Child(n, num_cells(left) + 1 + i)

(* The halves of an internal node with one key too many.                   *)
LEMMA SplitInternalCut ==
  ASSUME NEW P, NEW n \in InternalOf(P), num_cells(n) = MaxCells + 1
  PROVE  LET left  == internal_left(n)
             right == internal_right(n)
         IN  /\ left \in InternalOf(P) /\ left.root = FALSE
             /\ right \in InternalOf(P) /\ right.root = FALSE
             /\ InternalCut(n, left, right, pushed_key(n))
             /\ num_cells(left) \in MaxCells \div 2 .. MaxCells
             /\ num_cells(right) \in MaxCells \div 2 .. MaxCells
<1> DEFINE left  == internal_left(n)
           right == internal_right(n)
           K == Keys(n)
           C == Children(n)
           M == Middle
           R == MaxCells - M
           kl == SubSeq(K, 1, M)
           cl == SubSeq(C, 1, M + 1)
           kr == SubSeq(K, M + 2, MaxCells + 1)
           cr == SubSeq(C, M + 2, MaxCells + 2)
<1>1. /\ MaxCells \in Nat /\ M \in Nat /\ R \in Nat /\ M >= 1 /\ M <= MaxCells /\ M + R = MaxCells
      /\ M >= MaxCells \div 2 /\ R >= MaxCells \div 2 /\ R <= MaxCells
      /\ MaxCells \div 2 \in Nat
  BY MaxCellsAssumption DEF Middle
<1>2. /\ K \in Seq(Nat) /\ Len(K) = M + R + 1
      /\ C \in Seq(P) /\ Len(C) = M + R + 2
      /\ \A i \in 0 .. M + R : K[i + 1] = get_key(n, i)
      /\ \A i \in 0 .. M + R + 1 : C[i + 1] = Child(n, i)
  <2>1. M + R + 1 = MaxCells + 1 /\ M + R + 2 = MaxCells + 1 + 1
    BY <1>1
  <2> HIDE DEF M, R
  <2> QED BY <1>1, <2>1, KeysAndChildren
<1>3. left = Internal(FALSE, kl, cl) /\ right = Internal(FALSE, kr, cr)
  BY DEF internal_left, internal_right
<1>4. pushed_key(n) = get_key(n, M)
  BY DEF pushed_key
<1> HIDE DEF left, right, K, C, M, R
<1>5. kl \in Seq(Nat) /\ Len(kl) = M /\ \A i \in 1 .. M : kl[i] = K[i]
  <2>1. 0 \in Nat /\ 0 <= M /\ M <= Len(K) /\ kl = SubSeq(K, 0 + 1, M)
    BY <1>1, <1>2
  <2>2. kl \in Seq(Nat) /\ PartOf(K, kl, 0, M - 0)
    BY ONLY <1>1, <1>2, <2>1, SubSeqIs
  <2> HIDE DEF kl
  <2> QED BY <1>1, <2>2 DEF PartOf
<1>6. cl \in Seq(P) /\ Len(cl) = M + 1 /\ \A i \in 1 .. M + 1 : cl[i] = C[i]
  <2> DEFINE l == M + 1
  <2>1. 0 \in Nat /\ 0 <= l /\ l <= Len(C) /\ l \in Nat /\ cl = SubSeq(C, 0 + 1, l)
    BY <1>1, <1>2
  <2> HIDE DEF l, cl
  <2>2. cl \in Seq(P) /\ PartOf(C, cl, 0, l - 0)
    BY ONLY <1>2, <2>1, SubSeqIs
  <2>3. l - 0 = M + 1
    BY <1>1 DEF l
  <2> QED BY ONLY <1>1, <2>2, <2>3 DEF PartOf
<1>7. kr \in Seq(Nat) /\ Len(kr) = R /\ \A i \in 1 .. R : kr[i] = K[M + 1 + i]
  <2> DEFINE k == M + 1
             l == MaxCells + 1
  <2>1. k \in Nat /\ k <= l /\ l <= Len(K) /\ l \in Nat /\ kr = SubSeq(K, k + 1, l)
    BY <1>1, <1>2
  <2> HIDE DEF k, l, kr
  <2>2. kr \in Seq(Nat) /\ PartOf(K, kr, k, l - k)
    BY ONLY <1>2, <2>1, SubSeqIs
  <2>3. l - k = R /\ k = M + 1
    BY <1>1 DEF k, l
  <2> QED BY ONLY <1>1, <2>2, <2>3 DEF PartOf
<1>8. cr \in Seq(P) /\ Len(cr) = R + 1 /\ \A i \in 1 .. R + 1 : cr[i] = C[M + 1 + i]
  <2> DEFINE k == M + 1
             l == MaxCells + 2
  <2>1. k \in Nat /\ k <= l /\ l <= Len(C) /\ l \in Nat /\ cr = SubSeq(C, k + 1, l)
    BY <1>1, <1>2
  <2> HIDE DEF k, l, cr
  <2>2. cr \in Seq(P) /\ PartOf(C, cr, k, l - k)
    BY ONLY <1>2, <2>1, SubSeqIs
  <2>3. l - k = R + 1 /\ k = M + 1
    BY <1>1 DEF k, l
  <2> QED BY ONLY <1>1, <2>2, <2>3 DEF PartOf
<1> HIDE DEF kl, cl, kr, cr
<1>9. left \in InternalOf(P) /\ InternalParts(left, FALSE, kl, cl)
  BY <1>3, <1>5, <1>6, InternalIs
<1>10. right \in InternalOf(P) /\ InternalParts(right, FALSE, kr, cr)
  BY <1>3, <1>7, <1>8, InternalIs
<1>11. num_cells(left) = M /\ num_cells(right) = R
  BY <1>5, <1>7, <1>9, <1>10 DEF InternalParts
<1>12. \A i \in 0 .. M - 1 : get_key(left, i) = get_key(n, i)
  <2>1. ASSUME NEW i \in 0 .. M - 1 PROVE get_key(left, i) = get_key(n, i)
    <3>1. i + 1 \in 1 .. M /\ i \in 0 .. M + R
      BY <1>1
    <3> QED BY <1>2, <1>5, <1>9, <3>1 DEF InternalParts
  <2> QED BY <2>1
<1>13. \A i \in 0 .. M : Child(left, i) = Child(n, i)
  <2>1. ASSUME NEW i \in 0 .. M PROVE Child(left, i) = Child(n, i)
    <3>1. i + 1 \in 1 .. M + 1 /\ i \in 0 .. M + R + 1
      BY <1>1
    <3> QED BY <1>2, <1>5, <1>6, <1>9, <3>1 DEF InternalParts
  <2> QED BY <2>1
<1>14. \A i \in 0 .. R - 1 : get_key(right, i) = get_key(n, M + 1 + i)
  <2>1. ASSUME NEW i \in 0 .. R - 1 PROVE get_key(right, i) = get_key(n, M + 1 + i)
    <3>1. i + 1 \in 1 .. R /\ M + 1 + i \in 0 .. M + R /\ M + 1 + (i + 1) = M + 1 + i + 1
      BY <1>1
    <3> QED BY <1>2, <1>7, <1>10, <3>1 DEF InternalParts
  <2> QED BY <2>1
<1>15. \A i \in 0 .. R : Child(right, i) = Child(n, M + 1 + i)
  <2>1. ASSUME NEW i \in 0 .. R PROVE Child(right, i) = Child(n, M + 1 + i)
    <3>1. i + 1 \in 1 .. R + 1 /\ M + 1 + i \in 0 .. M + R + 1
          /\ M + 1 + (i + 1) = M + 1 + i + 1
      BY <1>1
    <3> QED BY <1>2, <1>7, <1>8, <1>10, <3>1 DEF InternalParts
  <2> QED BY <2>1
<1>16. InternalCut(n, left, right, pushed_key(n))
  <2>1. num_cells(n) = M + R + 1
    BY <1>1
  <2> QED BY <1>1, <1>4, <1>11, <1>12, <1>13, <1>14, <1>15, <2>1 DEF InternalCut
<1>17. left.root = FALSE /\ right.root = FALSE
  BY <1>9, <1>10 DEF InternalParts
<1> QED BY <1>1, <1>9, <1>10, <1>11, <1>16, <1>17 DEF left, right

-----------------------------------------------------------------------------
(* The pages of a tree.                                                    *)

(* The two kinds of node, of this tree's values and pages.                 *)
LeafNode == {n \in NodeOf(Value \cup {Tombstone}, Page \cup {NoLeaf}) : n.type = "leaf"}
InternalNode == InternalOf(Page)

(* The pages of set P are a search tree of nodes V.  The subtree below     *)
(* page p, h[p] levels high, has its keys from lo[p] up to, but without,   *)
(* hi[p]; the height, lo and hi are functions of the proof only.           *)
Typed(V, P, lo, hi, h) ==
  /\ V \in [Page -> Node] /\ P \subseteq Page /\ 0 \in P
  /\ lo \in [P -> Nat] /\ hi \in [P -> Nat] /\ h \in [P -> Nat]

(* The span of every page is part of the root's, which alone is so marked  *)
(* and alone so high.                                                      *)
Spans(V, P, lo, hi, h) ==
  /\ lo[0] = 0
  /\ \A p \in P : /\ lo[p] < hi[p] /\ hi[p] <= hi[0]
                  /\ V[p].root <=> p = 0
                  /\ p # 0 => h[p] < h[0]

(* A node with its keys in order in a span.                                *)
LeafIn(n, l, u) ==
  /\ n \in LeafNode /\ Sorted(n)
  /\ \A i \in 0 .. num_cells(n) - 1 : l <= get_key(n, i) /\ get_key(n, i) < u
InternalIn(n, l, u) ==
  /\ n \in InternalNode /\ Sorted(n)
  /\ \A i \in 0 .. num_cells(n) - 1 : l < get_key(n, i) /\ get_key(n, i) < u

(* The leaves, each linked to the one whose span follows.                  *)
LeavesIn(V, P, lo, hi, h) ==
  \A p \in P : h[p] = 0 =>
    /\ LeafIn(V[p], lo[p], hi[p])
    /\ IF hi[p] = hi[0] THEN V[p].link = NoLeaf
       ELSE V[p].link \in P /\ h[V[p].link] = 0 /\ lo[V[p].link] = hi[p]

(* The span of the child in slot i of a node with span l to u.             *)
From(n, l, i) == IF i = 0 THEN l ELSE get_key(n, i - 1)
To(n, u, i) == IF i = num_cells(n) THEN u ELSE get_key(n, i)

(* Each child of an internal node has the part of its span that the keys   *)
(* on both sides of the child leave.                                       *)
InternalsIn(V, P, lo, hi, h) ==
  \A p \in P : h[p] > 0 =>
    /\ InternalIn(V[p], lo[p], hi[p])
    /\ \A i \in 0 .. num_cells(V[p]) :
         LET c == Child(V[p], i)
         IN  /\ c \in P /\ c # 0 /\ h[c] + 1 = h[p]
             /\ lo[c] = From(V[p], lo[p], i) /\ hi[c] = To(V[p], hi[p], i)

Parents(V, P, lo, hi, h) ==
  \A p \in P \ {0} :
    \E q \in P : h[q] > 0 /\ \E i \in 0 .. num_cells(V[q]) : Child(V[q], i) = p

(* Two nodes of one level share no key.                                    *)
Apart(V, P, lo, hi, h) ==
  \A p, q \in P : h[p] = h[q] /\ p # q => hi[p] <= lo[q] \/ hi[q] <= lo[p]

Shape(V, P, lo, hi, h) ==
  /\ Typed(V, P, lo, hi, h) /\ Spans(V, P, lo, hi, h)
  /\ LeavesIn(V, P, lo, hi, h) /\ InternalsIn(V, P, lo, hi, h)
  /\ Parents(V, P, lo, hi, h) /\ Apart(V, P, lo, hi, h)

-----------------------------------------------------------------------------
(* Leaves and internal nodes are nodes.                                    *)
LEMMA NodeKinds ==
  /\ LeafNode \subseteq Node /\ InternalNode \subseteq Node
  /\ \A n \in LeafNode : n.type = "leaf"
  /\ \A n \in InternalNode : n.type = "internal"
  /\ \A n \in LeafNode \cup InternalNode :
       /\ n.root \in BOOLEAN /\ Keyed(n) /\ num_cells(n) \in Nat
       /\ \A i \in 0 .. num_cells(n) - 1 : get_key(n, i) \in Nat
<1>1. ASSUME NEW S, NEW T, S \subseteq T, NEW L, NEW M, L \subseteq M
      PROVE  NodeOf(S, L) \subseteq NodeOf(T, M)
  <2>1. CellOf(S) \subseteq CellOf(T)
    BY <1>1 DEF CellOf
  <2>2. Seq(CellOf(S)) \subseteq Seq(CellOf(T))
    <3>1. ASSUME NEW s \in Seq(CellOf(S)) PROVE s \in Seq(CellOf(T))
      BY <2>1, <3>1
    <3> QED BY <3>1
  <2> QED BY <1>1, <2>2 DEF NodeOf
<1>2. Node = NodeOf(Value \cup Page \cup {Tombstone}, Page \cup {NoLeaf})
  BY DEF Node, NodeOf, CellOf
<1>3. LeafNode \subseteq Node /\ InternalNode \subseteq Node
  BY <1>1, <1>2 DEF LeafNode, InternalNode, InternalOf
<1>4. ASSUME NEW n \in LeafNode \cup InternalNode
      PROVE  /\ n.root \in BOOLEAN /\ Keyed(n) /\ num_cells(n) \in Nat
             /\ \A i \in 0 .. num_cells(n) - 1 : get_key(n, i) \in Nat
  <2>1. n \in NodeOf(Value \cup Page \cup {Tombstone}, Page \cup {NoLeaf})
    BY <1>2, <1>3
  <2>2. n.root \in BOOLEAN
    BY <2>1 DEF NodeOf
  <2> QED BY <2>1, <2>2, NodeParts
<1> QED BY <1>3, <1>4 DEF LeafNode, InternalNode, InternalOf

(* What Shape says of a page, its keys and its children.                   *)
LEMMA ShapeFacts ==
  ASSUME NEW V, NEW P, NEW lo, NEW hi, NEW h, Shape(V, P, lo, hi, h)
  PROVE  /\ \A p \in P :
              /\ p \in Page /\ V[p] \in Node /\ V[p] \in LeafNode \cup InternalNode
              /\ V[p].type = "leaf" <=> h[p] = 0
              /\ lo[p] \in Nat /\ hi[p] \in Nat /\ h[p] \in Nat
              /\ lo[0] = 0 /\ lo[p] < hi[p] /\ hi[p] <= hi[0] /\ h[p] <= h[0]
              /\ num_cells(V[p]) \in Nat /\ Keyed(V[p]) /\ Sorted(V[p])
              /\ \A i \in 0 .. num_cells(V[p]) - 1 :
                   get_key(V[p], i) \in Nat /\ lo[p] <= get_key(V[p], i) /\ get_key(V[p], i) < hi[p]
         /\ \A p \in P : h[p] > 0 =>
              \A i \in 0 .. num_cells(V[p]) :
                /\ Child(V[p], i) \in P /\ Child(V[p], i) # 0 /\ h[Child(V[p], i)] + 1 = h[p]
                /\ lo[Child(V[p], i)] = From(V[p], lo[p], i)
                /\ hi[Child(V[p], i)] = To(V[p], hi[p], i)
                /\ lo[p] <= lo[Child(V[p], i)] /\ hi[Child(V[p], i)] <= hi[p]
<1>1. ASSUME NEW p \in P
      PROVE  /\ p \in Page /\ V[p] \in Node
             /\ lo[p] \in Nat /\ hi[p] \in Nat /\ h[p] \in Nat
             /\ lo[0] = 0 /\ lo[p] < hi[p] /\ hi[p] <= hi[0] /\ h[p] <= h[0]
  BY DEF Shape, Typed, Spans
<1>2. ASSUME NEW p \in P
      PROVE  /\ V[p] \in LeafNode \cup InternalNode /\ (V[p].type = "leaf" <=> h[p] = 0)
             /\ num_cells(V[p]) \in Nat /\ Keyed(V[p]) /\ Sorted(V[p])
             /\ \A i \in 0 .. num_cells(V[p]) - 1 :
                  get_key(V[p], i) \in Nat /\ lo[p] <= get_key(V[p], i) /\ get_key(V[p], i) < hi[p]
  <2>1. CASE h[p] = 0
    <3>1. LeafIn(V[p], lo[p], hi[p])
      BY <2>1 DEF Shape, LeavesIn
    <3> QED BY <2>1, <3>1, NodeKinds DEF LeafIn
  <2>2. CASE h[p] > 0
    <3>1. InternalIn(V[p], lo[p], hi[p])
      BY <2>2 DEF Shape, InternalsIn
    <3>2. V[p] \in InternalNode /\ V[p].type = "internal" /\ num_cells(V[p]) \in Nat
          /\ Keyed(V[p]) /\ Sorted(V[p])
          /\ \A i \in 0 .. num_cells(V[p]) - 1 : get_key(V[p], i) \in Nat
      BY <3>1, NodeKinds DEF InternalIn
    <3> QED BY <1>1, <2>2, <3>1, <3>2 DEF InternalIn
  <2> QED BY <1>1, <2>1, <2>2
<1>3. ASSUME NEW p \in P, h[p] > 0, NEW i \in 0 .. num_cells(V[p])
      PROVE  /\ Child(V[p], i) \in P /\ Child(V[p], i) # 0 /\ h[Child(V[p], i)] + 1 = h[p]
             /\ lo[Child(V[p], i)] = From(V[p], lo[p], i)
             /\ hi[Child(V[p], i)] = To(V[p], hi[p], i)
             /\ lo[p] <= lo[Child(V[p], i)] /\ hi[Child(V[p], i)] <= hi[p]
  <2>1. /\ Child(V[p], i) \in P /\ Child(V[p], i) # 0 /\ h[Child(V[p], i)] + 1 = h[p]
        /\ lo[Child(V[p], i)] = From(V[p], lo[p], i)
        /\ hi[Child(V[p], i)] = To(V[p], hi[p], i)
    BY <1>3 DEF Shape, InternalsIn
  <2>2. lo[p] <= From(V[p], lo[p], i)
    <3>1. i # 0 => i - 1 \in 0 .. num_cells(V[p]) - 1
      BY <1>2, <1>3
    <3> QED BY <1>1, <1>2, <3>1 DEF From
  <2>3. To(V[p], hi[p], i) <= hi[p]
    <3>1. i # num_cells(V[p]) => i \in 0 .. num_cells(V[p]) - 1
      BY <1>2, <1>3
    <3> QED BY <1>1, <1>2, <3>1 DEF To
  <2> QED BY <2>1, <2>2, <2>3
<1> QED BY <1>1, <1>2, <1>3

(* Nodes of one level whose spans meet are the same node.                  *)
LEMMA SameNode ==
  ASSUME NEW V, NEW P, NEW lo, NEW hi, NEW h, Shape(V, P, lo, hi, h),
         NEW p \in P, NEW q \in P, h[p] = h[q],
         NEW k \in Nat, lo[p] <= k, k < hi[p], lo[q] <= k, k < hi[q]
  PROVE  p = q
<1>1. lo[p] \in Nat /\ lo[q] \in Nat /\ hi[p] \in Nat /\ hi[q] \in Nat
  BY ShapeFacts
<1>2. p # q => hi[p] <= lo[q] \/ hi[q] <= lo[p]
  BY DEF Shape, Apart
<1> QED BY <1>1, <1>2

(* A page is the child of one node, in one slot.                           *)
LEMMA OneSlot ==
  ASSUME NEW V, NEW P, NEW lo, NEW hi, NEW h, Shape(V, P, lo, hi, h),
         NEW p \in P, h[p] > 0, NEW i \in 0 .. num_cells(V[p]),
         NEW q \in P, h[q] > 0, NEW j \in 0 .. num_cells(V[q]),
         Child(V[p], i) = Child(V[q], j)
  PROVE  p = q /\ i = j
<1> DEFINE c == Child(V[p], i)
<1>1. /\ c \in P /\ h[c] + 1 = h[p] /\ h[c] + 1 = h[q] /\ lo[c] \in Nat /\ lo[c] < hi[c]
      /\ lo[p] <= lo[c] /\ hi[c] <= hi[p] /\ lo[q] <= lo[c] /\ hi[c] <= hi[q]
      /\ hi[p] \in Nat /\ hi[q] \in Nat /\ hi[c] \in Nat
      /\ lo[c] = From(V[p], lo[p], i) /\ hi[c] = To(V[p], hi[p], i)
      /\ lo[c] = From(V[q], lo[q], j) /\ hi[c] = To(V[q], hi[q], j)
  <2> HIDE DEF Child
  <2>1. c \in P
    BY ShapeFacts
  <2> QED BY <2>1, ShapeFacts
<1>2. p = q
  <2>1. lo[c] < hi[p] /\ lo[c] < hi[q]
    BY <1>1
  <2> HIDE DEF c
  <2>2. lo[c] \in Nat /\ h[p] = h[q] /\ lo[p] <= lo[c] /\ lo[q] <= lo[c]
    BY <1>1
  <2> QED BY ONLY Shape(V, P, lo, hi, h), p \in P, q \in P, <2>1, <2>2, SameNode
<1>3. ASSUME NEW a \in 0 .. num_cells(V[p]), NEW b \in 0 .. num_cells(V[p]), a < b,
             lo[c] = From(V[p], lo[p], b), hi[c] = To(V[p], hi[p], a)
      PROVE  FALSE
  <2>1. /\ num_cells(V[p]) \in Nat /\ Sorted(V[p])
        /\ \A m \in 0 .. num_cells(V[p]) - 1 : get_key(V[p], m) \in Nat
    BY ShapeFacts
  <2>2. a \in 0 .. num_cells(V[p]) - 1 /\ b - 1 \in 0 .. num_cells(V[p]) - 1 /\ a <= b - 1
    BY <1>3, <2>1
  <2>3. lo[c] = get_key(V[p], b - 1) /\ hi[c] = get_key(V[p], a)
    BY <1>3, <2>1, <2>2 DEF From, To
  <2>4. get_key(V[p], a) <= get_key(V[p], b - 1)
    <3>1. a = b - 1 \/ a < b - 1
      BY <2>1, <2>2
    <3> QED BY <2>1, <2>2, <3>1 DEF Sorted
  <2> QED BY <1>1, <2>1, <2>2, <2>3, <2>4
<1>4. num_cells(V[p]) \in Nat
  BY ShapeFacts
<1>5. i = j
  <2>1. ~(i < j) /\ ~(j < i)
    <3> HIDE DEF c
    <3> QED BY <1>1, <1>2, <1>3
  <2> QED BY <1>2, <1>4, <2>1
<1> QED BY <1>2, <1>5

(* The child whose span has a key is the one in its child_slot.            *)
LEMMA ChildOfKey ==
  ASSUME NEW V, NEW P, NEW lo, NEW hi, NEW h, Shape(V, P, lo, hi, h),
         NEW p \in P, h[p] > 0, NEW k \in Nat, lo[p] <= k, k < hi[p]
  PROVE  LET i == child_slot(V[p], k)
             c == Child(V[p], i)
         IN  /\ i \in 0 .. num_cells(V[p]) /\ lo[c] <= k /\ k < hi[c]
             /\ \A j \in 0 .. num_cells(V[p]) :
                  lo[Child(V[p], j)] <= k /\ k < hi[Child(V[p], j)] => j = i
<1> DEFINE N == num_cells(V[p])
           i == child_slot(V[p], k)
           c == Child(V[p], i)
<1>1. /\ N \in Nat /\ Keyed(V[p]) /\ Sorted(V[p])
      /\ \A m \in 0 .. N - 1 : get_key(V[p], m) \in Nat
  BY ShapeFacts
<1>2. i \in 0 .. N /\ \A m \in 0 .. N - 1 : get_key(V[p], m) <= k <=> m < i
  BY <1>1, ChildSlot
<1> HIDE DEF i
<1>3. c \in P /\ lo[c] = From(V[p], lo[p], i) /\ hi[c] = To(V[p], hi[p], i)
  BY <1>2, ShapeFacts
<1>4. lo[c] <= k
  <2>1. i # 0 => i - 1 \in 0 .. N - 1 /\ i - 1 < i
    BY <1>1, <1>2
  <2> QED BY <1>2, <1>3, <2>1 DEF From
<1>5. k < hi[c]
  <2>1. i # N => i \in 0 .. N - 1 /\ ~(i < i)
    BY <1>1, <1>2
  <2> QED BY <1>1, <1>2, <1>3, <2>1 DEF To
<1>6. ASSUME NEW j \in 0 .. N, lo[Child(V[p], j)] <= k, k < hi[Child(V[p], j)]
      PROVE  j = i
  <2>1. /\ Child(V[p], j) \in P /\ h[Child(V[p], j)] + 1 = h[p]
        /\ h[c] + 1 = h[p] /\ h[c] \in Nat /\ h[Child(V[p], j)] \in Nat
    BY <1>2, <1>3, ShapeFacts
  <2> DEFINE d == Child(V[p], j)
  <2> HIDE DEF c, d
  <2>2. c \in P /\ d \in P /\ h[c] = h[d] /\ lo[c] <= k /\ k < hi[c] /\ lo[d] <= k /\ k < hi[d]
    BY <1>3, <1>4, <1>5, <1>6, <2>1 DEF d
  <2>3. c = d
    BY ONLY Shape(V, P, lo, hi, h), k \in Nat, <2>2, SameNode
  <2>4. Child(V[p], i) = Child(V[p], j)
    BY <2>3 DEF c, d
  <2> QED BY ONLY Shape(V, P, lo, hi, h), p \in P, h[p] > 0, <1>2, <1>6, <2>4, OneSlot
<1> QED BY <1>2, <1>4, <1>5, <1>6 DEF i

-----------------------------------------------------------------------------
(* The cells of one leaf change.                                           *)
LEMMA LeafChanged ==
  ASSUME NEW V, NEW P, NEW lo, NEW hi, NEW h, Shape(V, P, lo, hi, h),
         NEW p \in P, h[p] = 0, NEW n,
         LeafIn(n, lo[p], hi[p]), n.root = V[p].root, n.link = V[p].link
  PROVE  Shape([V EXCEPT ![p] = n], P, lo, hi, h)
<1> DEFINE W == [V EXCEPT ![p] = n]
<1>1. /\ Typed(V, P, lo, hi, h) /\ Spans(V, P, lo, hi, h) /\ LeavesIn(V, P, lo, hi, h)
      /\ InternalsIn(V, P, lo, hi, h) /\ Parents(V, P, lo, hi, h) /\ Apart(V, P, lo, hi, h)
  BY DEF Shape
<1>2. n \in Node
  BY NodeKinds DEF LeafIn
<1>3. W \in [Page -> Node] /\ W[p] = n /\ \A x \in P \ {p} : W[x] = V[x]
  BY <1>1, <1>2 DEF Typed
<1> HIDE DEF W
<1>4. \A x \in P : /\ W[x].root = V[x].root /\ (h[x] = 0 => W[x].link = V[x].link)
                   /\ h[x] > 0 => W[x] = V[x]
  BY <1>3
<1>5. Typed(W, P, lo, hi, h) /\ Spans(W, P, lo, hi, h) /\ Apart(W, P, lo, hi, h)
  BY <1>1, <1>3, <1>4 DEF Typed, Spans, Apart
<1>6. LeavesIn(W, P, lo, hi, h)
  <2>1. \A x \in P : h[x] = 0 => LeafIn(W[x], lo[x], hi[x])
    BY <1>1, <1>3 DEF LeavesIn
  <2> QED BY <1>1, <1>4, <2>1 DEF LeavesIn
<1>7. InternalsIn(W, P, lo, hi, h)
  BY <1>1, <1>4 DEF InternalsIn
<1>8. Parents(W, P, lo, hi, h)
  BY <1>1, <1>4 DEF Parents
<1> QED BY <1>5, <1>6, <1>7, <1>8 DEF Shape, W

(* Nodes n and m differ in nothing but the root flag.                      *)
SameCells(n, m) ==
  /\ m.link = n.link /\ m.type = n.type /\ m.cells = n.cells
  /\ num_cells(m) = num_cells(n)
  /\ n \in LeafNode => m \in LeafNode
  /\ n \in InternalNode => m \in InternalNode
  /\ \A i : get_key(m, i) = get_key(n, i) /\ Child(m, i) = Child(n, i)
  /\ Sorted(n) => Sorted(m)

(* A node keeps its cells when its root flag is set.                       *)
LEMMA RootFlag ==
  ASSUME NEW n \in LeafNode \cup InternalNode, NEW r \in BOOLEAN
  PROVE  [n EXCEPT !.root = r].root = r /\ SameCells(n, [n EXCEPT !.root = r])
<1> DEFINE m == [n EXCEPT !.root = r]
<1>1. \E S, L : n \in NodeOf(S, L)
  BY DEF LeafNode, InternalNode, InternalOf
<1>2. m.root = r /\ m.link = n.link /\ m.type = n.type /\ m.cells = n.cells
  BY <1>1 DEF NodeOf
<1>3. /\ n \in LeafNode => m \in LeafNode
      /\ n \in InternalNode => m \in InternalNode
  BY DEF LeafNode, InternalNode, InternalOf, NodeOf
<1> HIDE DEF m
<1>4. num_cells(m) = num_cells(n) /\ \A i : get_key(m, i) = get_key(n, i)
  BY <1>2 DEF num_cells, get_key
<1>5. \A i : Child(m, i) = Child(n, i)
  BY <1>2, <1>4 DEF Child, get_value
<1>6. Sorted(n) => Sorted(m)
  BY <1>4 DEF Sorted
<1> QED BY <1>2, <1>3, <1>4, <1>5, <1>6 DEF SameCells, m

(* The root moves to page l, below a root that has no key.                 *)
LoRaised(P, lo, l) == [x \in P \cup {l} |-> IF x = l THEN 0 ELSE lo[x]]
HiRaised(P, hi, l) == [x \in P \cup {l} |-> IF x = l THEN hi[0] ELSE hi[x]]
HeightRaised(P, h, l) ==
  [x \in P \cup {l} |-> IF x = l THEN h[0] ELSE IF x = 0 THEN h[0] + 1 ELSE h[x]]

(* The tree below a new, empty root is the old tree one level lower.       *)
LEMMA LevelAdded ==
  ASSUME NEW V, NEW P, NEW lo, NEW hi, NEW h, Shape(V, P, lo, hi, h),
         NEW l \in Page \ P, NEW W \in [Page -> Node], \A x \in P \ {0} : W[x] = V[x],
         W[l] = [V[0] EXCEPT !.root = FALSE],
         W[0] \in InternalNode, W[0].root, num_cells(W[0]) = 0, Child(W[0], 0) = l
  PROVE  Shape(W, P \cup {l}, LoRaised(P, lo, l), HiRaised(P, hi, l), HeightRaised(P, h, l))
<1> DEFINE Q == P \cup {l}
           lo2 == LoRaised(P, lo, l)
           hi2 == HiRaised(P, hi, l)
           h2  == HeightRaised(P, h, l)
<1>1. /\ Typed(V, P, lo, hi, h) /\ Spans(V, P, lo, hi, h) /\ LeavesIn(V, P, lo, hi, h)
      /\ InternalsIn(V, P, lo, hi, h) /\ Parents(V, P, lo, hi, h) /\ Apart(V, P, lo, hi, h)
  BY DEF Shape
<1>2. /\ 0 \in P /\ l # 0 /\ l \in Q /\ 0 \in Q /\ Q \subseteq Page
      /\ lo[0] = 0 /\ hi[0] \in Nat /\ h[0] \in Nat /\ lo[0] < hi[0]
      /\ \A x \in P : /\ lo[x] \in Nat /\ hi[x] \in Nat /\ h[x] \in Nat /\ hi[x] <= hi[0]
                      /\ lo[x] < hi[x] /\ (x # 0 => h[x] < h[0]) /\ (V[x].root <=> x = 0)
  BY <1>1 DEF Typed, Spans
<1>3. /\ \A x \in P : lo2[x] = lo[x] /\ hi2[x] = hi[x]
      /\ \A x \in P \ {0} : h2[x] = h[x]
      /\ h2[0] = h[0] + 1 /\ lo2[l] = 0 /\ hi2[l] = hi[0] /\ h2[l] = h[0]
  BY <1>2 DEF LoRaised, HiRaised, HeightRaised
<1>4. lo2 \in [Q -> Nat] /\ hi2 \in [Q -> Nat] /\ h2 \in [Q -> Nat]
  BY <1>2 DEF LoRaised, HiRaised, HeightRaised
<1> HIDE DEF lo2, hi2, h2
<1>5. Typed(W, Q, lo2, hi2, h2)
  BY <1>2, <1>4 DEF Typed
<1>6. /\ ~W[l].root /\ W[l].link = V[0].link /\ num_cells(W[l]) = num_cells(V[0])
      /\ V[0] \in LeafNode => W[l] \in LeafNode
      /\ V[0] \in InternalNode => W[l] \in InternalNode
      /\ \A i : get_key(W[l], i) = get_key(V[0], i) /\ Child(W[l], i) = Child(V[0], i)
      /\ Sorted(V[0]) => Sorted(W[l])
  <2> DEFINE n == V[0]
  <2>1. n \in LeafNode \cup InternalNode /\ W[l] = [n EXCEPT !.root = FALSE]
    BY <1>2, ShapeFacts
  <2> HIDE DEF n
  <2>2. FALSE \in BOOLEAN
    OBVIOUS
  <2>3. W[l].root = FALSE /\ SameCells(n, W[l])
    BY ONLY <2>1, <2>2, RootFlag
  <2> QED BY ONLY <2>3 DEF n, SameCells
<1>7. Spans(W, Q, lo2, hi2, h2)
  <2>1. ASSUME NEW x \in Q
        PROVE  /\ lo2[x] < hi2[x] /\ hi2[x] <= hi2[0]
               /\ W[x].root <=> x = 0
               /\ x # 0 => h2[x] < h2[0]
    <3>1. CASE x = l
      <4>1. ~W[x].root /\ x # 0
        BY <1>2, <1>6, <3>1
      <4> QED BY <1>2, <1>3, <3>1, <4>1
    <3>2. CASE x = 0
      <4>1. W[x].root
        BY <3>2
      <4> QED BY <1>2, <1>3, <3>2, <4>1
    <3>3. CASE x \in P \ {0}
      BY <1>2, <1>3, <3>3
    <3> QED BY <3>1, <3>2, <3>3
  <2> QED BY <1>2, <1>3, <2>1 DEF Spans
<1>8. LeavesIn(W, Q, lo2, hi2, h2)
  <2>1. SUFFICES ASSUME NEW x \in Q, h2[x] = 0
                 PROVE  /\ LeafIn(W[x], lo2[x], hi2[x])
                        /\ IF hi2[x] = hi2[0] THEN W[x].link = NoLeaf
                           ELSE /\ W[x].link \in Q /\ h2[W[x].link] = 0
                                /\ lo2[W[x].link] = hi2[x]
    BY DEF LeavesIn
  <2>2. x # 0
    BY <1>2, <1>3, <2>1
  <2>3. CASE x = l
    <3>1. h[0] = 0 /\ LeafIn(V[0], lo[0], hi[0]) /\ V[0].link = NoLeaf
      BY <1>1, <1>2, <1>3, <2>1, <2>3 DEF LeavesIn
    <3>2. LeafIn(W[l], lo[0], hi[0])
      BY <1>6, <3>1 DEF LeafIn
    <3> QED BY <1>2, <1>3, <1>6, <2>3, <3>1, <3>2
  <2>4. CASE x # l
    <3>1. x \in P /\ h[x] = 0 /\ W[x] = V[x]
      BY <1>3, <2>1, <2>2, <2>4
    <3>2. /\ LeafIn(V[x], lo[x], hi[x])
          /\ IF hi[x] = hi[0] THEN V[x].link = NoLeaf
             ELSE V[x].link \in P /\ h[V[x].link] = 0 /\ lo[V[x].link] = hi[x]
      BY <1>1, <3>1 DEF LeavesIn
    <3>3. hi[x] # hi[0] => V[x].link # 0
      BY <1>2, <3>1, <3>2
    <3> QED BY <1>2, <1>3, <3>1, <3>2, <3>3
  <2> QED BY <2>3, <2>4
<1>9. InternalsIn(W, Q, lo2, hi2, h2)
  <2>1. SUFFICES ASSUME NEW x \in Q, h2[x] > 0
                 PROVE  /\ InternalIn(W[x], lo2[x], hi2[x])
                        /\ \A i \in 0 .. num_cells(W[x]) :
                             LET c == Child(W[x], i)
                             IN  /\ c \in Q /\ c # 0 /\ h2[c] + 1 = h2[x]
                                 /\ lo2[c] = From(W[x], lo2[x], i)
                                 /\ hi2[c] = To(W[x], hi2[x], i)
    BY DEF InternalsIn
  <2>2. CASE x = 0
    <3>1. InternalIn(W[0], lo2[0], hi2[0])
      BY DEF InternalIn, Sorted
    <3>2. \A i \in 0 .. 0 : i = 0
      OBVIOUS
    <3>3. From(W[0], lo2[0], 0) = lo2[0] /\ To(W[0], hi2[0], 0) = hi2[0]
      BY DEF From, To
    <3> QED BY <1>2, <1>3, <2>2, <3>1, <3>2, <3>3
  <2>3. CASE x = l
    <3>1. h[0] > 0
      BY <1>2, <1>3, <2>1, <2>3
    <3>2. /\ InternalIn(V[0], lo[0], hi[0])
          /\ \A i \in 0 .. num_cells(V[0]) :
               LET c == Child(V[0], i)
               IN  /\ c \in P /\ c # 0 /\ h[c] + 1 = h[0]
                   /\ lo[c] = From(V[0], lo[0], i) /\ hi[c] = To(V[0], hi[0], i)
      BY <1>1, <1>2, <3>1 DEF InternalsIn
    <3>3. InternalIn(W[l], lo2[l], hi2[l])
      <4>1. W[l] \in InternalNode /\ Sorted(W[l])
        BY <1>6, <3>2 DEF InternalIn
      <4>2. lo2[l] = lo[0] /\ hi2[l] = hi[0]
        BY <1>2, <1>3
      <4> QED BY <1>6, <3>2, <4>1, <4>2 DEF InternalIn
    <3>4. \A i : /\ From(W[l], lo2[l], i) = From(V[0], lo[0], i)
                 /\ To(W[l], hi2[l], i) = To(V[0], hi[0], i)
      BY <1>2, <1>3, <1>6 DEF From, To
    <3>5. \A c \in P \ {0} : c \in Q /\ lo2[c] = lo[c] /\ hi2[c] = hi[c] /\ h2[c] = h[c]
      BY <1>3
    <3>6. ASSUME NEW i \in 0 .. num_cells(W[l])
          PROVE  LET c == Child(W[l], i)
                 IN  /\ c \in Q /\ c # 0 /\ h2[c] + 1 = h2[l]
                     /\ lo2[c] = From(W[l], lo2[l], i) /\ hi2[c] = To(W[l], hi2[l], i)
      <4> DEFINE c == Child(V[0], i)
      <4>1. /\ c \in P /\ c # 0 /\ h[c] + 1 = h[0] /\ Child(W[l], i) = c
            /\ lo[c] = From(V[0], lo[0], i) /\ hi[c] = To(V[0], hi[0], i)
        BY <1>6, <3>2
      <4> HIDE DEF c
      <4>2. c \in Q /\ lo2[c] = lo[c] /\ hi2[c] = hi[c] /\ h2[c] = h[c]
        BY <3>5, <4>1
      <4> QED BY <1>3, <3>4, <4>1, <4>2
    <3> QED BY <2>3, <3>3, <3>6
  <2>4. CASE x \in P \ {0}
    <3>1. h[x] > 0 /\ W[x] = V[x] /\ lo2[x] = lo[x] /\ hi2[x] = hi[x] /\ h2[x] = h[x]
      BY <1>3, <2>1, <2>4
    <3>2. /\ InternalIn(V[x], lo[x], hi[x])
          /\ \A i \in 0 .. num_cells(V[x]) :
               LET c == Child(V[x], i)
               IN  /\ c \in P /\ c # 0 /\ h[c] + 1 = h[x]
                   /\ lo[c] = From(V[x], lo[x], i) /\ hi[c] = To(V[x], hi[x], i)
      BY <1>1, <2>4, <3>1 DEF InternalsIn
    <3>3. \A c \in P \ {0} : c \in Q /\ lo2[c] = lo[c] /\ hi2[c] = hi[c] /\ h2[c] = h[c]
      BY <1>3
    <3> QED BY <3>1, <3>2, <3>3
  <2> QED BY <2>2, <2>3, <2>4
<1>10. Parents(W, Q, lo2, hi2, h2)
  <2>1. SUFFICES ASSUME NEW x \in Q \ {0}
                 PROVE  \E q \in Q : /\ h2[q] > 0
                                     /\ \E i \in 0 .. num_cells(W[q]) : Child(W[q], i) = x
    BY DEF Parents
  <2>2. CASE x = l
    <3>1. h2[0] > 0 /\ 0 \in 0 .. num_cells(W[0])
      BY <1>2, <1>3
    <3> QED BY <1>2, <2>2, <3>1
  <2>3. CASE x \in P \ {0}
    <3>1. PICK q \in P : h[q] > 0 /\ \E i \in 0 .. num_cells(V[q]) : Child(V[q], i) = x
      BY <1>1, <2>3 DEF Parents
    <3>2. CASE q = 0
      <4>1. h2[l] > 0 /\ \E i \in 0 .. num_cells(W[l]) : Child(W[l], i) = x
        BY <1>3, <1>6, <3>1, <3>2
      <4> QED BY <1>2, <4>1
    <3>3. CASE q # 0
      <4>1. h2[q] > 0 /\ W[q] = V[q]
        BY <1>3, <3>1, <3>3
      <4> QED BY <3>1, <4>1
    <3> QED BY <3>2, <3>3
  <2> QED BY <2>2, <2>3
<1>11. Apart(W, Q, lo2, hi2, h2)
  <2>1. SUFFICES ASSUME NEW p \in Q, NEW q \in Q, h2[p] = h2[q], p # q
                 PROVE  hi2[p] <= lo2[q] \/ hi2[q] <= lo2[p]
    BY DEF Apart
  <2>2. \A x \in Q : (x = 0 => h2[x] = h[0] + 1) /\ (x = l => h2[x] = h[0])
                     /\ (x \in P \ {0} => h2[x] < h[0])
    BY <1>2, <1>3
  <2>3. p \in P \ {0} /\ q \in P \ {0}
    BY <1>2, <1>3, <2>1, <2>2
  <2> QED BY <1>1, <1>3, <2>1, <2>3 DEF Apart
<1> QED BY <1>5, <1>7, <1>8, <1>9, <1>10, <1>11 DEF Shape, Q, lo2, hi2, h2

-----------------------------------------------------------------------------
(* The halves of a leaf have its keys below sep, and from sep on.          *)
LEMMA LeafCutIn ==
  ASSUME NEW l \in Nat, NEW u \in Nat, NEW n, LeafIn(n, l, u),
         NEW left \in LeafNode, NEW right \in LeafNode, NEW r, NEW sep,
         LeafCut(n, left, right, r, sep)
  PROVE  /\ sep \in Nat /\ l < sep /\ sep < u
         /\ LeafIn(left, l, sep) /\ LeafIn(right, sep, u)
<1> DEFINE A == num_cells(left)
           B == num_cells(right)
           N == num_cells(n)
<1>1. /\ A \in Nat \ {0} /\ B \in Nat \ {0} /\ N = A + B /\ sep = get_key(right, 0)
  BY DEF LeafCut
<1>2. /\ \A i \in 0 .. N - 1 : get_key(n, i) \in Nat /\ l <= get_key(n, i) /\ get_key(n, i) < u
      /\ \A i, j \in 0 .. N - 1 : i < j => get_key(n, i) < get_key(n, j)
  BY NodeKinds DEF LeafIn, Sorted
<1>3. \A i \in 0 .. A - 1 : i \in 0 .. N - 1 /\ get_key(left, i) = get_key(n, i)
  BY <1>1 DEF LeafCut, get_key
<1>4. \A i \in 0 .. B - 1 : A + i \in 0 .. N - 1 /\ get_key(right, i) = get_key(n, A + i)
  BY <1>1 DEF LeafCut, get_key
<1> HIDE DEF A, B, N
<1>5. sep = get_key(n, A) /\ A \in 0 .. N - 1 /\ 0 \in 0 .. N - 1 /\ 0 < A
  <2>1. 0 \in 0 .. B - 1 /\ A + 0 = A
    BY <1>1
  <2> QED BY <1>1, <1>4, <2>1
<1>6. sep \in Nat /\ l < sep /\ sep < u
  <2>1. get_key(n, 0) < get_key(n, A)
    BY <1>2, <1>5
  <2> QED BY <1>2, <1>5, <2>1
<1>7. LeafIn(left, l, sep)
  <2>1. Sorted(left)
    BY <1>2, <1>3 DEF Sorted, A
  <2>2. ASSUME NEW i \in 0 .. A - 1 PROVE l <= get_key(left, i) /\ get_key(left, i) < sep
    <3>1. i \in 0 .. N - 1 /\ i < A /\ get_key(left, i) = get_key(n, i)
      BY <1>1, <1>3
    <3> QED BY <1>2, <1>5, <3>1
  <2> QED BY <2>1, <2>2 DEF LeafIn, A
<1>8. LeafIn(right, sep, u)
  <2>1. Sorted(right)
    <3>1. ASSUME NEW i \in 0 .. B - 1, NEW j \in 0 .. B - 1, i < j
          PROVE  get_key(right, i) < get_key(right, j)
      <4>1. A + i \in 0 .. N - 1 /\ A + j \in 0 .. N - 1 /\ A + i < A + j
        BY <1>1, <1>4, <3>1
      <4> QED BY <1>2, <1>4, <4>1
    <3> QED BY <3>1 DEF Sorted, B
  <2>2. ASSUME NEW i \in 0 .. B - 1 PROVE sep <= get_key(right, i) /\ get_key(right, i) < u
    <3>1. A + i \in 0 .. N - 1 /\ (A + i = A \/ A < A + i) /\ get_key(right, i) = get_key(n, A + i)
      BY <1>1, <1>4
    <3> QED BY <1>2, <1>5, <1>6, <3>1
  <2> QED BY <2>1, <2>2 DEF LeafIn, B
<1> QED BY <1>6, <1>7, <1>8

(* The halves of an internal node, whose children keep their spans.        *)
LEMMA InternalCutIn ==
  ASSUME NEW l \in Nat, NEW u \in Nat, NEW n, InternalIn(n, l, u),
         NEW left \in InternalNode, NEW right \in InternalNode, NEW sep,
         InternalCut(n, left, right, sep)
  PROVE  /\ sep \in Nat /\ l < sep /\ sep < u
         /\ InternalIn(left, l, sep) /\ InternalIn(right, sep, u)
         /\ \A i \in 0 .. num_cells(left) :
              From(left, l, i) = From(n, l, i) /\ To(left, sep, i) = To(n, u, i)
         /\ \A i \in 0 .. num_cells(right) :
              /\ From(right, sep, i) = From(n, l, num_cells(left) + 1 + i)
              /\ To(right, u, i) = To(n, u, num_cells(left) + 1 + i)
<1> DEFINE A == num_cells(left)
           B == num_cells(right)
           N == num_cells(n)
<1>1. A \in Nat /\ B \in Nat /\ N = A + B + 1 /\ sep = get_key(n, A)
  BY DEF InternalCut
<1>2. /\ \A i \in 0 .. N - 1 : get_key(n, i) \in Nat /\ l < get_key(n, i) /\ get_key(n, i) < u
      /\ \A i, j \in 0 .. N - 1 : i < j => get_key(n, i) < get_key(n, j)
  BY NodeKinds DEF InternalIn, Sorted
<1>3. \A i \in 0 .. A - 1 : i \in 0 .. N - 1 /\ get_key(left, i) = get_key(n, i)
  BY <1>1 DEF InternalCut
<1>4. \A i \in 0 .. B - 1 : A + 1 + i \in 0 .. N - 1 /\ get_key(right, i) = get_key(n, A + 1 + i)
  BY <1>1 DEF InternalCut
<1> HIDE DEF A, B, N
<1>5. A \in 0 .. N - 1
  BY <1>1
<1>6. sep \in Nat /\ l < sep /\ sep < u
  BY <1>1, <1>2, <1>5
<1>7. InternalIn(left, l, sep)
  <2>1. Sorted(left)
    BY <1>2, <1>3 DEF Sorted, A
  <2>2. ASSUME NEW i \in 0 .. A - 1 PROVE l < get_key(left, i) /\ get_key(left, i) < sep
    <3>1. i \in 0 .. N - 1 /\ i < A /\ get_key(left, i) = get_key(n, i)
      BY <1>1, <1>3
    <3> QED BY <1>1, <1>2, <1>5, <3>1
  <2> QED BY <2>1, <2>2 DEF InternalIn, A
<1>8. InternalIn(right, sep, u)
  <2>1. Sorted(right)
    <3>1. ASSUME NEW i \in 0 .. B - 1, NEW j \in 0 .. B - 1, i < j
          PROVE  get_key(right, i) < get_key(right, j)
      <4>1. A + 1 + i \in 0 .. N - 1 /\ A + 1 + j \in 0 .. N - 1 /\ A + 1 + i < A + 1 + j
        BY <1>1, <1>4, <3>1
      <4> QED BY <1>2, <1>4, <4>1
    <3> QED BY <3>1 DEF Sorted, B
  <2>2. ASSUME NEW i \in 0 .. B - 1 PROVE sep < get_key(right, i) /\ get_key(right, i) < u
    <3>1. A + 1 + i \in 0 .. N - 1 /\ A < A + 1 + i /\ get_key(right, i) = get_key(n, A + 1 + i)
      BY <1>1, <1>4
    <3> QED BY <1>1, <1>2, <1>5, <3>1
  <2> QED BY <2>1, <2>2 DEF InternalIn, B
<1>9. ASSUME NEW i \in 0 .. A
      PROVE  From(left, l, i) = From(n, l, i) /\ To(left, sep, i) = To(n, u, i)
  <2>1. i # 0 => i - 1 \in 0 .. A - 1
    BY <1>1
  <2>2. i # A => i \in 0 .. A - 1
    BY <1>1
  <2>3. i # N
    BY <1>1
  <2> QED BY <1>1, <1>3, <2>1, <2>2, <2>3 DEF From, To, A, N
<1>10. ASSUME NEW i \in 0 .. B
       PROVE  /\ From(right, sep, i) = From(n, l, A + 1 + i)
              /\ To(right, u, i) = To(n, u, A + 1 + i)
  <2>1. A + 1 + i # 0 /\ A + 1 + i - 1 = A + i /\ (i = 0 => A + i = A)
    BY <1>1
  <2>2. i # 0 => i - 1 \in 0 .. B - 1 /\ A + 1 + (i - 1) = A + i
    BY <1>1
  <2>3. i = B <=> A + 1 + i = N
    BY <1>1
  <2>4. i # B => i \in 0 .. B - 1
    BY <1>1
  <2>5. From(right, sep, i) = From(n, l, A + 1 + i)
    BY <1>1, <1>4, <2>1, <2>2 DEF From
  <2>6. To(right, u, i) = To(n, u, A + 1 + i)
    BY <1>4, <2>3, <2>4 DEF To, B, N
  <2> QED BY <2>5, <2>6
<1> QED BY <1>6, <1>7, <1>8, <1>9, <1>10 DEF A, B

(* A node with a new separator sep in the span of its child in slot s.     *)
LEMMA ChildPutIn ==
  ASSUME NEW l \in Nat, NEW u \in Nat, NEW n, InternalIn(n, l, u), NEW m \in InternalNode,
         NEW s \in 0 .. num_cells(n), NEW sep \in Nat, NEW r,
         From(n, l, s) < sep, sep < To(n, u, s), ChildPut(n, m, s, sep, r), l < u
  PROVE  /\ InternalIn(m, l, u) /\ num_cells(m) = num_cells(n) + 1
         /\ \A i \in 0 .. num_cells(m) :
              /\ i < s => /\ i \in 0 .. num_cells(n) /\ Child(m, i) = Child(n, i)
                          /\ From(m, l, i) = From(n, l, i) /\ To(m, u, i) = To(n, u, i)
              /\ i = s => /\ Child(m, i) = Child(n, s)
                          /\ From(m, l, i) = From(n, l, s) /\ To(m, u, i) = sep
              /\ i = s + 1 => /\ Child(m, i) = r
                              /\ From(m, l, i) = sep /\ To(m, u, i) = To(n, u, s)
              /\ i > s + 1 => /\ i - 1 \in 0 .. num_cells(n) /\ Child(m, i) = Child(n, i - 1)
                              /\ From(m, l, i) = From(n, l, i - 1)
                              /\ To(m, u, i) = To(n, u, i - 1)
<1> DEFINE N == num_cells(n)
<1>1. /\ N \in Nat /\ n \in InternalNode /\ s \in Nat /\ s <= N
      /\ \A i \in 0 .. N - 1 : get_key(n, i) \in Nat /\ l < get_key(n, i) /\ get_key(n, i) < u
      /\ \A i, j \in 0 .. N - 1 : i < j => get_key(n, i) < get_key(n, j)
  BY NodeKinds DEF InternalIn, Sorted
<1>2. /\ num_cells(m) = N + 1
      /\ \A i \in 0 .. N : get_key(m, i) = IF i < s THEN get_key(n, i)
                                            ELSE IF i = s THEN sep ELSE get_key(n, i - 1)
      /\ \A i \in 0 .. N + 1 : Child(m, i) = IF i <= s THEN Child(n, i)
                                              ELSE IF i = s + 1 THEN r ELSE Child(n, i - 1)
  BY DEF ChildPut
<1> HIDE DEF N
<1>3. \A i \in 0 .. N - 1 : (i < s => get_key(n, i) < sep) /\ (s <= i => sep < get_key(n, i))
  <2>1. ASSUME NEW i \in 0 .. N - 1, i < s PROVE get_key(n, i) < sep
    <3>1. s # 0 /\ s - 1 \in 0 .. N - 1 /\ (i = s - 1 \/ i < s - 1)
      BY <1>1, <2>1
    <3>2. get_key(n, i) <= get_key(n, s - 1) /\ get_key(n, s - 1) < sep
      BY <1>1, <3>1 DEF From
    <3> QED BY <1>1, <2>1, <3>1, <3>2
  <2>2. ASSUME NEW i \in 0 .. N - 1, s <= i PROVE sep < get_key(n, i)
    <3>1. s # N /\ s \in 0 .. N - 1 /\ (i = s \/ s < i)
      BY <1>1, <2>2
    <3>2. get_key(n, s) <= get_key(n, i) /\ sep < get_key(n, s)
      BY <1>1, <3>1 DEF To, N
    <3> QED BY <1>1, <2>2, <3>1, <3>2
  <2> QED BY <2>1, <2>2
<1>4. l < sep /\ sep < u
  <2>1. CASE s = 0
    <3>1. l < sep
      BY <2>1 DEF From
    <3>2. s = N \/ s \in 0 .. N - 1
      BY <1>1
    <3> QED BY <1>1, <3>1, <3>2 DEF To, N
  <2>2. CASE s # 0
    <3>1. s - 1 \in 0 .. N - 1 /\ get_key(n, s - 1) < sep
      BY <1>1, <2>2 DEF From
    <3>2. s = N \/ s \in 0 .. N - 1
      BY <1>1
    <3> QED BY <1>1, <3>1, <3>2 DEF To, N
  <2> QED BY <2>1, <2>2
<1>5. ASSUME NEW i \in 0 .. N
      PROVE  /\ get_key(m, i) \in Nat /\ l < get_key(m, i) /\ get_key(m, i) < u
             /\ i < s => i \in 0 .. N - 1 /\ get_key(m, i) = get_key(n, i)
             /\ i = s => get_key(m, i) = sep
             /\ i > s => i - 1 \in 0 .. N - 1 /\ get_key(m, i) = get_key(n, i - 1)
  <2>1. CASE i < s
    BY <1>1, <1>2, <2>1
  <2>2. CASE i = s
    BY <1>1, <1>2, <1>4, <2>2
  <2>3. CASE i > s
    <3>1. i - 1 \in 0 .. N - 1 /\ get_key(m, i) = get_key(n, i - 1)
      BY <1>1, <1>2, <2>3
    <3> QED BY <1>1, <2>3, <3>1
  <2> QED BY <1>1, <2>1, <2>2, <2>3
<1>6. InternalIn(m, l, u)
  <2>1. ASSUME NEW i \in 0 .. N, NEW j \in 0 .. N, i < j PROVE get_key(m, i) < get_key(m, j)
    <3>1. CASE j < s
      BY <1>1, <1>5, <2>1, <3>1
    <3>2. CASE j = s
      BY <1>1, <1>3, <1>5, <2>1, <3>2
    <3>3. CASE j > s /\ i < s
      <4>1. i \in 0 .. N - 1 /\ j - 1 \in 0 .. N - 1 /\ i < j - 1
        BY <1>1, <3>3
      <4> QED BY <1>1, <1>5, <3>3, <4>1
    <3>4. CASE j > s /\ i = s
      <4>1. j - 1 \in 0 .. N - 1 /\ s <= j - 1
        BY <1>1, <3>4
      <4> QED BY <1>3, <1>5, <3>4, <4>1
    <3>5. CASE j > s /\ i > s
      <4>1. i - 1 \in 0 .. N - 1 /\ j - 1 \in 0 .. N - 1 /\ i - 1 < j - 1
        BY <1>1, <2>1, <3>5
      <4> QED BY <1>1, <1>5, <3>5, <4>1
    <3> QED BY <1>1, <3>1, <3>2, <3>3, <3>4, <3>5
  <2>2. num_cells(m) - 1 = N
    BY <1>1, <1>2
  <2>3. Sorted(m)
    BY <2>1, <2>2 DEF Sorted
  <2> QED BY <1>5, <2>2, <2>3 DEF InternalIn
<1>7. ASSUME NEW i \in 0 .. N + 1
      PROVE  /\ i < s => /\ i \in 0 .. N /\ Child(m, i) = Child(n, i)
                         /\ From(m, l, i) = From(n, l, i) /\ To(m, u, i) = To(n, u, i)
             /\ i = s => /\ Child(m, i) = Child(n, s)
                         /\ From(m, l, i) = From(n, l, s) /\ To(m, u, i) = sep
             /\ i = s + 1 => /\ Child(m, i) = r
                             /\ From(m, l, i) = sep /\ To(m, u, i) = To(n, u, s)
             /\ i > s + 1 => /\ i - 1 \in 0 .. N /\ Child(m, i) = Child(n, i - 1)
                             /\ From(m, l, i) = From(n, l, i - 1)
                             /\ To(m, u, i) = To(n, u, i - 1)
  <2>1. CASE i < s
    <3>1. /\ i \in 0 .. N /\ i # N + 1 /\ i # N /\ i <= s /\ ~(i = s) /\ ~(i > s + 1)
          /\ i # s + 1 /\ (i # 0 => i - 1 \in 0 .. N /\ i - 1 < s)
      BY <1>1, <2>1
    <3>2. Child(m, i) = Child(n, i) /\ get_key(m, i) = get_key(n, i)
      BY <1>2, <2>1, <3>1
    <3>3. From(m, l, i) = From(n, l, i)
      BY <1>5, <3>1 DEF From
    <3>4. To(m, u, i) = To(n, u, i)
      BY <1>2, <3>1, <3>2 DEF To, N
    <3> QED BY <3>1, <3>2, <3>3, <3>4
  <2>2. CASE i = s
    <3>1. /\ i \in 0 .. N /\ i # N + 1 /\ ~(i < s) /\ ~(i > s + 1) /\ i # s + 1
          /\ (i # 0 => i - 1 \in 0 .. N /\ i - 1 < s)
      BY <1>1, <2>2
    <3>2. Child(m, i) = Child(n, s) /\ get_key(m, i) = sep
      BY <1>1, <1>2, <2>2, <3>1
    <3>3. From(m, l, i) = From(n, l, s)
      BY <1>5, <2>2, <3>1 DEF From
    <3> QED BY <1>2, <3>1, <3>2, <3>3 DEF To
  <2>3. CASE i = s + 1
    <3>1. /\ i - 1 = s /\ s \in 0 .. N /\ ~(i < s) /\ i # s /\ ~(i <= s) /\ ~(i > s + 1) /\ i # 0
      BY <1>1, <2>3
    <3>2. Child(m, i) = r /\ get_key(m, s) = sep
      BY <1>1, <1>2, <2>3, <3>1
    <3>3. From(m, l, i) = sep
      BY <3>1, <3>2 DEF From
    <3>4. To(m, u, i) = To(n, u, s)
      <4>1. CASE s = N
        BY <1>2, <2>3, <4>1 DEF To, N
      <4>2. CASE s # N
        <5>1. i \in 0 .. N /\ i # N + 1 /\ i > s
          BY <1>1, <2>3, <4>2
        <5>2. get_key(m, i) = get_key(n, s)
          BY <1>5, <3>1, <5>1
        <5> QED BY <1>2, <4>2, <5>1, <5>2 DEF To, N
      <4> QED BY <4>1, <4>2
    <3> QED BY <2>3, <3>1, <3>2, <3>3, <3>4
  <2>4. CASE i > s + 1
    <3>1. /\ i - 1 \in 0 .. N /\ i - 1 > s /\ ~(i < s) /\ i # s /\ ~(i <= s) /\ i # s + 1 /\ i # 0
          /\ i - 1 # 0 /\ (i = N + 1 <=> i - 1 = N)
      BY <1>1, <2>4
    <3>2. Child(m, i) = Child(n, i - 1)
      BY <1>1, <1>2, <3>1
    <3>3. From(m, l, i) = From(n, l, i - 1)
      BY <1>5, <3>1 DEF From
    <3>4. To(m, u, i) = To(n, u, i - 1)
      <4>1. CASE i = N + 1
        BY <1>2, <3>1, <4>1 DEF To, N
      <4>2. CASE i # N + 1
        <5>1. i \in 0 .. N /\ i > s
          BY <1>1, <2>4, <4>2
        <5> QED BY <1>2, <1>5, <3>1, <4>2, <5>1 DEF To, N
      <4> QED BY <4>1, <4>2
    <3> QED BY <3>1, <3>2, <3>3, <3>4
  <2> QED BY <1>1, <2>1, <2>2, <2>3, <2>4
<1> QED BY <1>2, <1>6, <1>7 DEF N

-----------------------------------------------------------------------------
(* A node of height k is cut into left and right, on the new page r.       *)
Cut(n, left, right, r, sep, k) ==
  IF k = 0 THEN /\ left \in LeafNode /\ right \in LeafNode
                /\ LeafCut(n, left, right, r, sep)
  ELSE /\ left \in InternalNode /\ right \in InternalNode
       /\ InternalCut(n, left, right, sep)

(* Nodes W come from V by the division of page p, in slot s of page q,     *)
(* into p and r.                                                           *)
Divided(V, P, h, p, r, sep, q, s, W) ==
  /\ p \in P /\ p # 0 /\ r \in Page \ P
  /\ q \in P /\ h[q] > 0 /\ s \in 0 .. num_cells(V[q]) /\ Child(V[q], s) = p
  /\ W \in [Page -> Node] /\ \A x \in P \ {p, q} : W[x] = V[x]
  /\ W[q] \in InternalNode /\ W[q].root = V[q].root /\ ChildPut(V[q], W[q], s, sep, r)
  /\ Cut(V[p], W[p], W[r], r, sep, h[p])
  /\ W[p].root = FALSE /\ W[r].root = FALSE

(* The spans and heights after page p was divided at key sep, its right    *)
(* half on page r.                                                         *)
LoAfter(P, lo, r, sep) == [x \in P \cup {r} |-> IF x = r THEN sep ELSE lo[x]]
HiAfter(P, hi, p, r, sep) ==
  [x \in P \cup {r} |-> IF x = p THEN sep ELSE IF x = r THEN hi[p] ELSE hi[x]]
HeightAfter(P, h, p, r) == [x \in P \cup {r} |-> IF x = r THEN h[p] ELSE h[x]]

(* Division of a node keeps the tree: its span falls in two, its children, *)
(* if it has some, are dealt out to the two, and so is its place in the    *)
(* chain of leaves.                                                        *)
LEMMA NodeDivided ==
  ASSUME NEW V, NEW P, NEW lo, NEW hi, NEW h, Shape(V, P, lo, hi, h),
         NEW p, NEW r, NEW sep, NEW q, NEW s, NEW W, Divided(V, P, h, p, r, sep, q, s, W)
  PROVE  Shape(W, P \cup {r}, LoAfter(P, lo, r, sep), HiAfter(P, hi, p, r, sep),
               HeightAfter(P, h, p, r))
<1> DEFINE Q == P \cup {r}
           lo2 == LoAfter(P, lo, r, sep)
           hi2 == HiAfter(P, hi, p, r, sep)
           h2  == HeightAfter(P, h, p, r)
<1>1. /\ Typed(V, P, lo, hi, h) /\ Spans(V, P, lo, hi, h) /\ LeavesIn(V, P, lo, hi, h)
      /\ InternalsIn(V, P, lo, hi, h) /\ Parents(V, P, lo, hi, h) /\ Apart(V, P, lo, hi, h)
  BY DEF Shape
<1>2. /\ p \in P /\ p # 0 /\ r \in Page /\ r \notin P /\ r \in Q /\ r # p /\ r # 0
      /\ q \in P /\ h[q] > 0 /\ s \in 0 .. num_cells(V[q]) /\ Child(V[q], s) = p
      /\ W \in [Page -> Node] /\ \A x \in P \ {p, q} : W[x] = V[x]
      /\ W[q] \in InternalNode /\ W[q].root = V[q].root /\ ChildPut(V[q], W[q], s, sep, r)
      /\ Cut(V[p], W[p], W[r], r, sep, h[p])
      /\ ~W[p].root /\ ~W[r].root
  BY <1>1 DEF Divided, Typed
<1>3. /\ 0 \in P /\ P \subseteq Q /\ Q \subseteq Page /\ lo[0] = 0
      /\ \A x \in P : /\ lo[x] \in Nat /\ hi[x] \in Nat /\ h[x] \in Nat /\ hi[x] <= hi[0]
                      /\ lo[x] < hi[x] /\ (x # 0 => h[x] < h[0]) /\ (V[x].root <=> x = 0)
  BY <1>1, <1>2 DEF Typed, Spans
<1>4. /\ h[p] + 1 = h[q] /\ q # p /\ q # r
      /\ lo[p] = From(V[q], lo[q], s) /\ hi[p] = To(V[q], hi[q], s)
      /\ lo[q] <= lo[p] /\ hi[p] <= hi[q] /\ InternalIn(V[q], lo[q], hi[q])
  <2>1. /\ h[p] + 1 = h[q] /\ lo[p] = From(V[q], lo[q], s) /\ hi[p] = To(V[q], hi[q], s)
        /\ lo[q] <= lo[p] /\ hi[p] <= hi[q]
    BY <1>2, ShapeFacts
  <2> QED BY <1>1, <1>2, <1>3, <2>1 DEF InternalsIn
<1>5. /\ sep \in Nat /\ lo[p] < sep /\ sep < hi[p]
      /\ h[p] = 0 => /\ LeafIn(W[p], lo[p], sep) /\ LeafIn(W[r], sep, hi[p])
                     /\ W[p].link = r /\ W[r].link = V[p].link
      /\ h[p] > 0 =>
           /\ InternalIn(W[p], lo[p], sep) /\ InternalIn(W[r], sep, hi[p])
           /\ InternalCut(V[p], W[p], W[r], sep)
           /\ \A i \in 0 .. num_cells(W[p]) :
                From(W[p], lo[p], i) = From(V[p], lo[p], i) /\ To(W[p], sep, i) = To(V[p], hi[p], i)
           /\ \A i \in 0 .. num_cells(W[r]) :
                /\ From(W[r], sep, i) = From(V[p], lo[p], num_cells(W[p]) + 1 + i)
                /\ To(W[r], hi[p], i) = To(V[p], hi[p], num_cells(W[p]) + 1 + i)
  <2> DEFINE n == V[p]
             a == W[p]
             b == W[r]
             l == lo[p]
             u == hi[p]
  <2>0. l \in Nat /\ u \in Nat
    BY <1>2, <1>3
  <2>1. CASE h[p] = 0
    <3>1. LeafIn(n, l, u) /\ a \in LeafNode /\ b \in LeafNode /\ LeafCut(n, a, b, r, sep)
      BY <1>1, <1>2, <2>1 DEF LeavesIn, Cut
    <3>2. a.link = r /\ b.link = n.link
      BY <3>1 DEF LeafCut
    <3> HIDE DEF n, a, b, l, u
    <3>3. /\ sep \in Nat /\ l < sep /\ sep < u
          /\ LeafIn(a, l, sep) /\ LeafIn(b, sep, u)
      BY ONLY <2>0, <3>1, LeafCutIn
    <3> QED BY <2>1, <3>2, <3>3 DEF n, a, b, l, u
  <2>2. CASE h[p] > 0
    <3>1. InternalIn(n, l, u) /\ a \in InternalNode /\ b \in InternalNode
          /\ InternalCut(n, a, b, sep)
      BY <1>1, <1>2, <2>2 DEF InternalsIn, Cut
    <3> HIDE DEF n, a, b, l, u
    <3>2. /\ sep \in Nat /\ l < sep /\ sep < u
          /\ InternalIn(a, l, sep) /\ InternalIn(b, sep, u)
          /\ \A i \in 0 .. num_cells(a) :
               From(a, l, i) = From(n, l, i) /\ To(a, sep, i) = To(n, u, i)
          /\ \A i \in 0 .. num_cells(b) :
               /\ From(b, sep, i) = From(n, l, num_cells(a) + 1 + i)
               /\ To(b, u, i) = To(n, u, num_cells(a) + 1 + i)
      BY ONLY <2>0, <3>1, InternalCutIn
    <3> QED BY <2>2, <3>1, <3>2 DEF n, a, b, l, u
  <2> QED BY <1>2, <1>3, <2>1, <2>2
<1>6. /\ \A x \in P : lo2[x] = lo[x] /\ h2[x] = h[x]
      /\ \A x \in P \ {p} : hi2[x] = hi[x]
      /\ hi2[p] = sep /\ lo2[r] = sep /\ hi2[r] = hi[p] /\ h2[r] = h[p]
  BY <1>2 DEF LoAfter, HiAfter, HeightAfter
<1>7. lo2 \in [Q -> Nat] /\ hi2 \in [Q -> Nat] /\ h2 \in [Q -> Nat]
  BY <1>2, <1>3, <1>5 DEF LoAfter, HiAfter, HeightAfter
<1> HIDE DEF lo2, hi2, h2
<1>8. Typed(W, Q, lo2, hi2, h2)
  BY <1>2, <1>3, <1>7 DEF Typed
<1>9. Spans(W, Q, lo2, hi2, h2)
  <2>1. ASSUME NEW x \in Q
        PROVE  /\ lo2[x] < hi2[x] /\ hi2[x] <= hi2[0]
               /\ (x # 0 => h2[x] < h2[0])
    <3>1. CASE x = r
      BY <1>2, <1>3, <1>5, <1>6, <3>1
    <3>2. CASE x = p
      BY <1>2, <1>3, <1>5, <1>6, <3>2
    <3>3. CASE x \in P \ {p}
      BY <1>2, <1>3, <1>6, <3>3
    <3> QED BY <3>1, <3>2, <3>3
  <2>2. ASSUME NEW x \in Q PROVE W[x].root <=> x = 0
    <3>1. CASE x = r
      BY <1>2, <3>1
    <3>2. CASE x = p
      BY <1>2, <3>2
    <3>3. CASE x = q
      BY <1>2, <1>3, <3>3
    <3>4. CASE x \in P \ {p, q}
      BY <1>2, <1>3, <3>4
    <3> QED BY <3>1, <3>2, <3>3, <3>4
  <2>3. lo2[0] = 0
    BY <1>3, <1>6
  <2> QED BY <2>1, <2>2, <2>3 DEF Spans
<1>10. LeavesIn(W, Q, lo2, hi2, h2)
  <2>1. SUFFICES ASSUME NEW x \in Q, h2[x] = 0
                 PROVE  /\ LeafIn(W[x], lo2[x], hi2[x])
                        /\ IF hi2[x] = hi2[0] THEN W[x].link = NoLeaf
                           ELSE /\ W[x].link \in Q /\ h2[W[x].link] = 0
                                /\ lo2[W[x].link] = hi2[x]
    BY DEF LeavesIn
  <2>2. hi2[0] = hi[0]
    BY <1>2, <1>3, <1>6
  <2>3. CASE x = p
    <3>1. h[p] = 0 /\ sep # hi[0]
      BY <1>2, <1>3, <1>5, <1>6, <2>1, <2>3
    <3> QED BY <1>2, <1>5, <1>6, <2>2, <2>3, <3>1
  <2>4. CASE x = r
    <3>1. h[p] = 0
      BY <1>6, <2>1, <2>4
    <3>2. IF hi[p] = hi[0] THEN V[p].link = NoLeaf
          ELSE V[p].link \in P /\ h[V[p].link] = 0 /\ lo[V[p].link] = hi[p]
      BY <1>1, <1>2, <3>1 DEF LeavesIn
    <3>3. W[r].link = V[p].link /\ LeafIn(W[r], sep, hi[p])
      BY <1>5, <3>1
    <3> QED BY <1>3, <1>6, <2>2, <2>4, <3>2, <3>3
  <2>5. CASE x \in P \ {p}
    <3>1. h[x] = 0 /\ x # q /\ W[x] = V[x]
      BY <1>2, <1>6, <2>1, <2>5
    <3>2. /\ LeafIn(V[x], lo[x], hi[x])
          /\ IF hi[x] = hi[0] THEN V[x].link = NoLeaf
             ELSE V[x].link \in P /\ h[V[x].link] = 0 /\ lo[V[x].link] = hi[x]
      BY <1>1, <2>5, <3>1 DEF LeavesIn
    <3> QED BY <1>3, <1>6, <2>2, <2>5, <3>1, <3>2
  <2> QED BY <2>3, <2>4, <2>5
<1>11. /\ InternalIn(W[q], lo[q], hi[q])
       /\ \A i \in 0 .. num_cells(W[q]) :
            LET c == Child(W[q], i)
            IN  /\ c \in Q /\ c # 0 /\ h2[c] + 1 = h2[q]
                /\ lo2[c] = From(W[q], lo2[q], i) /\ hi2[c] = To(W[q], hi2[q], i)
  <2> DEFINE n == V[q]
             m == W[q]
             l == lo[q]
             u == hi[q]
  <2>1. /\ l \in Nat /\ u \in Nat /\ l < u /\ InternalIn(n, l, u) /\ m \in InternalNode
        /\ s \in 0 .. num_cells(n) /\ sep \in Nat
        /\ From(n, l, s) < sep /\ sep < To(n, u, s) /\ ChildPut(n, m, s, sep, r)
    BY <1>2, <1>3, <1>4, <1>5
  <2>2. \A i \in 0 .. num_cells(n) :
          /\ Child(n, i) \in P /\ Child(n, i) # 0 /\ h[Child(n, i)] + 1 = h[q]
          /\ lo[Child(n, i)] = From(n, l, i) /\ hi[Child(n, i)] = To(n, u, i)
    BY <1>2, ShapeFacts
  <2>3. \A i \in 0 .. num_cells(n) : Child(n, i) = p => i = s
    BY <1>2, OneSlot
  <2>4. /\ From(n, l, s) = lo[p] /\ To(n, u, s) = hi[p] /\ Child(n, s) = p
        /\ lo2[q] = l /\ hi2[q] = u /\ h2[q] = h[q]
    BY <1>2, <1>4, <1>6
  <2>5. num_cells(n) \in Nat /\ s \in Nat
    BY <1>2, ShapeFacts
  <2> HIDE DEF n, m, l, u
  <2>6. /\ InternalIn(m, l, u) /\ num_cells(m) = num_cells(n) + 1
        /\ \A i \in 0 .. num_cells(m) :
             /\ i < s => /\ i \in 0 .. num_cells(n) /\ Child(m, i) = Child(n, i)
                         /\ From(m, l, i) = From(n, l, i) /\ To(m, u, i) = To(n, u, i)
             /\ i = s => /\ Child(m, i) = Child(n, s)
                         /\ From(m, l, i) = From(n, l, s) /\ To(m, u, i) = sep
             /\ i = s + 1 => /\ Child(m, i) = r
                             /\ From(m, l, i) = sep /\ To(m, u, i) = To(n, u, s)
             /\ i > s + 1 => /\ i - 1 \in 0 .. num_cells(n) /\ Child(m, i) = Child(n, i - 1)
                             /\ From(m, l, i) = From(n, l, i - 1)
                             /\ To(m, u, i) = To(n, u, i - 1)
    BY ONLY <2>1, ChildPutIn
  <2>7. ASSUME NEW i \in 0 .. num_cells(m)
        PROVE  LET c == Child(m, i)
               IN  /\ c \in Q /\ c # 0 /\ h2[c] + 1 = h2[q]
                   /\ lo2[c] = From(m, l, i) /\ hi2[c] = To(m, u, i)
    <3>1. CASE i < s
      <4>1. i # s /\ Child(n, i) # p
        BY <2>3, <2>5, <2>6, <3>1
      <4> QED BY <1>6, <2>2, <2>4, <2>6, <3>1, <4>1
    <3>2. CASE i = s
      BY <1>2, <1>4, <1>6, <2>4, <2>6, <3>2
    <3>3. CASE i = s + 1
      BY <1>2, <1>4, <1>6, <2>4, <2>6, <3>3
    <3>4. CASE i > s + 1
      <4> DEFINE j == i - 1
      <4>1. j # s
        BY <2>5, <3>4
      <4>2. j \in 0 .. num_cells(n) /\ Child(m, i) = Child(n, j)
            /\ From(m, l, i) = From(n, l, j) /\ To(m, u, i) = To(n, u, j)
        BY <2>6, <3>4
      <4> HIDE DEF j
      <4>3. Child(n, j) # p
        BY <2>3, <4>1, <4>2
      <4> QED BY <1>6, <2>2, <2>4, <4>2, <4>3
    <3> QED BY <2>5, <3>1, <3>2, <3>3, <3>4
  <2> QED BY <2>4, <2>6, <2>7 DEF n, m, l, u
<1>12. InternalsIn(W, Q, lo2, hi2, h2)
  <2>1. SUFFICES ASSUME NEW x \in Q, h2[x] > 0
                 PROVE  /\ InternalIn(W[x], lo2[x], hi2[x])
                        /\ \A i \in 0 .. num_cells(W[x]) :
                             LET c == Child(W[x], i)
                             IN  /\ c \in Q /\ c # 0 /\ h2[c] + 1 = h2[x]
                                 /\ lo2[c] = From(W[x], lo2[x], i)
                                 /\ hi2[c] = To(W[x], hi2[x], i)
    BY DEF InternalsIn
  <2>2. CASE x = q
    BY <1>2, <1>4, <1>6, <1>11, <2>2
  <2>3. ASSUME NEW c \in P, h[c] + 1 = h[p] PROVE c # p
    BY <1>3, <2>3
  <2>4. CASE x = p \/ x = r
    <3>1. h[p] > 0
      BY <1>2, <1>6, <2>1, <2>4
    <3>2. \A i \in 0 .. num_cells(V[p]) :
            /\ Child(V[p], i) \in P /\ Child(V[p], i) # 0 /\ h[Child(V[p], i)] + 1 = h[p]
            /\ lo[Child(V[p], i)] = From(V[p], lo[p], i)
            /\ hi[Child(V[p], i)] = To(V[p], hi[p], i)
      BY <1>1, <1>2, <3>1 DEF InternalsIn
    <3>3. /\ num_cells(W[p]) \in Nat /\ num_cells(W[r]) \in Nat
          /\ num_cells(V[p]) = num_cells(W[p]) + num_cells(W[r]) + 1
          /\ \A i \in 0 .. num_cells(W[p]) : Child(W[p], i) = Child(V[p], i)
          /\ \A i \in 0 .. num_cells(W[r]) : Child(W[r], i) = Child(V[p], num_cells(W[p]) + 1 + i)
      BY <1>5, <3>1 DEF InternalCut
    <3>4. CASE x = p
      <4>1. ASSUME NEW i \in 0 .. num_cells(W[p])
            PROVE  LET c == Child(W[p], i)
                   IN  /\ c \in Q /\ c # 0 /\ h2[c] + 1 = h2[p]
                       /\ lo2[c] = From(W[p], lo[p], i) /\ hi2[c] = To(W[p], sep, i)
        <5> DEFINE c == Child(V[p], i)
        <5>1. i \in 0 .. num_cells(V[p])
          BY <3>3
        <5>2. /\ c \in P /\ c # 0 /\ h[c] + 1 = h[p] /\ Child(W[p], i) = c
              /\ lo[c] = From(V[p], lo[p], i) /\ hi[c] = To(V[p], hi[p], i)
          BY <3>2, <3>3, <5>1
        <5> HIDE DEF c
        <5>3. c # p
          BY <2>3, <5>2
        <5> QED BY <1>2, <1>5, <1>6, <3>1, <5>2, <5>3
      <4> QED BY <1>2, <1>5, <1>6, <3>1, <3>4, <4>1
    <3>5. CASE x = r
      <4>1. ASSUME NEW i \in 0 .. num_cells(W[r])
            PROVE  LET c == Child(W[r], i)
                   IN  /\ c \in Q /\ c # 0 /\ h2[c] + 1 = h2[r]
                       /\ lo2[c] = From(W[r], sep, i) /\ hi2[c] = To(W[r], hi[p], i)
        <5> DEFINE j == num_cells(W[p]) + 1 + i
                   c == Child(V[p], j)
        <5>1. j \in 0 .. num_cells(V[p])
          BY <3>3
        <5>2. /\ From(W[r], sep, i) = From(V[p], lo[p], j)
              /\ To(W[r], hi[p], i) = To(V[p], hi[p], j)
              /\ Child(W[r], i) = c
          BY <1>5, <3>1, <3>3
        <5> HIDE DEF j
        <5>3. /\ c \in P /\ c # 0 /\ h[c] + 1 = h[p]
              /\ lo[c] = From(V[p], lo[p], j) /\ hi[c] = To(V[p], hi[p], j)
          BY <3>2, <5>1
        <5> HIDE DEF c
        <5>4. c # p
          BY <2>3, <5>3
        <5> QED BY <1>2, <1>6, <5>2, <5>3, <5>4
      <4> QED BY <1>2, <1>5, <1>6, <3>1, <3>5, <4>1
    <3> QED BY <2>4, <3>4, <3>5
  <2>5. CASE x \in P \ {p, q}
    <3>1. h[x] > 0 /\ W[x] = V[x] /\ lo2[x] = lo[x] /\ hi2[x] = hi[x] /\ h2[x] = h[x]
      BY <1>2, <1>6, <2>1, <2>5
    <3>2. InternalIn(V[x], lo[x], hi[x])
      BY <1>1, <2>5, <3>1 DEF InternalsIn
    <3>3. ASSUME NEW i \in 0 .. num_cells(V[x])
          PROVE  LET c == Child(V[x], i)
                 IN  /\ c \in Q /\ c # 0 /\ h2[c] + 1 = h2[x]
                     /\ lo2[c] = From(V[x], lo[x], i) /\ hi2[c] = To(V[x], hi[x], i)
      <4> DEFINE c == Child(V[x], i)
      <4>1. /\ c \in P /\ c # 0 /\ h[c] + 1 = h[x] /\ Child(V[x], i) = c
            /\ lo[c] = From(V[x], lo[x], i) /\ hi[c] = To(V[x], hi[x], i)
        BY <2>5, <3>1, ShapeFacts
      <4>2. c # p
        <5>1. x \in P /\ x # q /\ h[x] > 0
          BY <2>5, <3>1
        <5>2. SUFFICES ASSUME Child(V[x], i) = Child(V[q], s) PROVE x = q
          BY <1>2, <5>1
        <5> QED
          BY ONLY Shape(V, P, lo, hi, h), <1>2, <5>1, <5>2, i \in 0 .. num_cells(V[x]),
                  OneSlot
      <4> HIDE DEF c
      <4> QED BY <1>2, <1>6, <3>1, <4>1, <4>2
    <3> QED BY <3>1, <3>2, <3>3
  <2> QED BY <2>2, <2>4, <2>5
<1>13. Parents(W, Q, lo2, hi2, h2)
  <2>1. SUFFICES ASSUME NEW x \in Q \ {0}
                 PROVE  \E y \in Q : /\ h2[y] > 0
                                     /\ \E i \in 0 .. num_cells(W[y]) : Child(W[y], i) = x
    BY DEF Parents
  <2>2. /\ num_cells(V[q]) \in Nat /\ num_cells(W[q]) = num_cells(V[q]) + 1 /\ h2[q] > 0
        /\ \A i \in 0 .. num_cells(V[q]) + 1 :
             Child(W[q], i) = IF i <= s THEN Child(V[q], i)
                              ELSE IF i = s + 1 THEN r ELSE Child(V[q], i - 1)
    BY <1>2, <1>6, ShapeFacts DEF ChildPut
  <2>3. CASE x = r
    <3>1. s + 1 \in 0 .. num_cells(W[q]) /\ Child(W[q], s + 1) = r
      BY <1>2, <2>2
    <3> QED BY <1>2, <1>3, <2>2, <2>3, <3>1
  <2>4. CASE x \in P \ {0}
    <3>1. PICK y \in P : h[y] > 0 /\ \E i \in 0 .. num_cells(V[y]) : Child(V[y], i) = x
      BY <1>1, <2>4 DEF Parents
    <3>2. PICK i \in 0 .. num_cells(V[y]) : Child(V[y], i) = x
      BY <3>1
    <3>3. CASE y = q
      <4>1. CASE i <= s
        <5>1. i \in 0 .. num_cells(W[q]) /\ Child(W[q], i) = x
          BY <2>2, <3>2, <3>3, <4>1
        <5> QED BY <1>2, <1>3, <2>2, <5>1
      <4>2. CASE i > s
        <5>1. /\ i + 1 \in 0 .. num_cells(W[q]) /\ ~(i + 1 <= s) /\ i + 1 # s + 1
              /\ i + 1 - 1 = i
          BY <1>2, <2>2, <3>2, <3>3, <4>2
        <5>2. Child(W[q], i + 1) = x
          BY <2>2, <3>2, <3>3, <5>1
        <5> QED BY <1>2, <1>3, <2>2, <5>1, <5>2
      <4>3. i <= s \/ i > s
        BY <1>2, <2>2, <3>2, <3>3
      <4> QED BY <4>1, <4>2, <4>3
    <3>4. CASE y = p
      <4>1. h[p] > 0 /\ h2[p] > 0 /\ h2[r] > 0
        BY <1>2, <1>6, <3>1, <3>4
      <4>2. /\ num_cells(W[p]) \in Nat /\ num_cells(W[r]) \in Nat
            /\ num_cells(V[p]) = num_cells(W[p]) + num_cells(W[r]) + 1
            /\ \A j \in 0 .. num_cells(W[p]) : Child(W[p], j) = Child(V[p], j)
            /\ \A j \in 0 .. num_cells(W[r]) :
                 Child(W[r], j) = Child(V[p], num_cells(W[p]) + 1 + j)
        BY <1>5, <4>1 DEF InternalCut
      <4>3. CASE i <= num_cells(W[p])
        <5>1. i \in 0 .. num_cells(W[p]) /\ Child(W[p], i) = x
          BY <3>2, <3>4, <4>2, <4>3
        <5> QED BY <1>2, <1>3, <4>1, <5>1
      <4>4. CASE i > num_cells(W[p])
        <5> DEFINE j == i - (num_cells(W[p]) + 1)
        <5>1. j \in 0 .. num_cells(W[r]) /\ num_cells(W[p]) + 1 + j = i
          BY <3>2, <3>4, <4>2, <4>4
        <5> HIDE DEF j
        <5>2. Child(W[r], j) = x
          BY <3>2, <3>4, <4>2, <5>1
        <5> QED BY <1>2, <4>1, <5>1, <5>2
      <4>5. i <= num_cells(W[p]) \/ i > num_cells(W[p])
        BY <3>2, <3>4, <4>2
      <4> QED BY <4>3, <4>4, <4>5
    <3>5. CASE y # q /\ y # p
      <4>1. W[y] = V[y] /\ h2[y] > 0 /\ y \in Q
        BY <1>2, <1>3, <1>6, <3>1, <3>5
      <4> QED BY <3>2, <4>1
    <3> QED BY <3>3, <3>4, <3>5
  <2> QED BY <2>3, <2>4
<1>14. Apart(W, Q, lo2, hi2, h2)
  <2>1. SUFFICES ASSUME NEW x \in Q, NEW y \in Q, h2[x] = h2[y], x # y
                 PROVE  hi2[x] <= lo2[y] \/ hi2[y] <= lo2[x]
    BY DEF Apart
  <2>2. \A a, b \in P : h[a] = h[b] /\ a # b => hi[a] <= lo[b] \/ hi[b] <= lo[a]
    BY <1>1 DEF Apart
  <2>3. CASE x \in P /\ y \in P
    <3>1. hi[x] <= lo[y] \/ hi[y] <= lo[x]
      BY <1>6, <2>1, <2>2, <2>3
    <3>2. hi2[x] <= hi[x] /\ hi2[y] <= hi[y] /\ hi2[x] \in Nat /\ hi2[y] \in Nat
      BY <1>2, <1>3, <1>5, <1>6, <2>3
    <3> QED BY <1>3, <1>6, <2>3, <3>1, <3>2
  <2>4. ASSUME NEW a \in P, h[a] = h[p] PROVE hi2[a] <= lo2[r] \/ hi2[r] <= lo2[a]
    <3>1. CASE a = p
      BY <1>3, <1>5, <1>6, <3>1
    <3>2. CASE a # p
      <4>1. hi[a] <= lo[p] \/ hi[p] <= lo[a]
        BY <1>2, <2>2, <2>4, <3>2
      <4> QED BY <1>2, <1>3, <1>5, <1>6, <2>4, <3>2, <4>1
    <3> QED BY <3>1, <3>2
  <2>5. CASE x = r /\ y \in P
    <3>1. h[y] = h[p]
      BY <1>6, <2>1, <2>5
    <3> QED BY <2>4, <2>5, <3>1
  <2>6. CASE y = r /\ x \in P
    <3>1. h[x] = h[p]
      BY <1>6, <2>1, <2>6
    <3> QED BY <2>4, <2>6, <3>1
  <2> QED BY <2>1, <2>3, <2>5, <2>6
<1> QED BY <1>8, <1>9, <1>10, <1>12, <1>13, <1>14 DEF Shape, Q, lo2, hi2, h2

-----------------------------------------------------------------------------
(* Reading the tree: what lies below a page.                               *)

(* The pages d levels below page p: those of that height in its span.      *)
Within(P, lo, hi, h, p, d) ==
  {q \in P : h[q] + d = h[p] /\ lo[p] <= lo[q] /\ hi[q] <= hi[p]}

(* ChildrenOf follows every child pointer of the internal pages in S.      *)
LEMMA ChildrenOfIs ==
  ASSUME NEW V, NEW P, NEW lo, NEW hi, NEW h, Shape(V, P, lo, hi, h), NEW S \in SUBSET P, NEW c
  PROVE  c \in ChildrenOf(V, S) <=>
           \E q \in S : h[q] > 0 /\ \E i \in 0 .. num_cells(V[q]) : Child(V[q], i) = c
<1>1. ASSUME NEW q \in S PROVE V[q].type = "internal" <=> h[q] > 0
  <2>1. h[q] \in Nat /\ V[q] \in LeafNode \cup InternalNode /\ (V[q].type = "leaf" <=> h[q] = 0)
    BY ShapeFacts
  <2> QED BY <2>1, NodeKinds
<1>2. ASSUME NEW q \in S, h[q] > 0
      PROVE  (\E i \in 1 .. Len(Children(V[q])) : Children(V[q])[i] = c)
               <=> \E i \in 0 .. num_cells(V[q]) : Child(V[q], i) = c
  <2>1. V[q] \in InternalNode /\ num_cells(V[q]) \in Nat
    BY <1>2, ShapeFacts DEF Shape, InternalsIn, InternalIn
  <2>2. /\ Len(Children(V[q])) = num_cells(V[q]) + 1
        /\ \A i \in 0 .. num_cells(V[q]) : Children(V[q])[i + 1] = Child(V[q], i)
    BY <2>1, KeysAndChildren DEF InternalNode
  <2>3. ASSUME NEW i \in 1 .. Len(Children(V[q])), Children(V[q])[i] = c
        PROVE  \E j \in 0 .. num_cells(V[q]) : Child(V[q], j) = c
    <3>1. i - 1 \in 0 .. num_cells(V[q]) /\ i - 1 + 1 = i
      BY <2>1, <2>2
    <3>2. Child(V[q], i - 1) = c
      BY <2>2, <2>3, <3>1
    <3> QED BY <3>1, <3>2
  <2>4. ASSUME NEW j \in 0 .. num_cells(V[q]), Child(V[q], j) = c
        PROVE  \E i \in 1 .. Len(Children(V[q])) : Children(V[q])[i] = c
    <3>1. j + 1 \in 1 .. Len(Children(V[q]))
      BY <2>1, <2>2
    <3>2. Children(V[q])[j + 1] = c
      BY <2>2, <2>4
    <3> QED BY <3>1, <3>2
  <2> QED BY <2>3, <2>4
<1>3. c \in ChildrenOf(V, S) <=>
        \E q \in S : /\ V[q].type = "internal"
                     /\ \E i \in 1 .. Len(Children(V[q])) : Children(V[q])[i] = c
  BY DEF ChildrenOf
<1> QED BY <1>1, <1>2, <1>3

(* Every level of the tree below p covers the span of p.                   *)
LEMMA LevelsCover ==
  ASSUME NEW V, NEW P, NEW lo, NEW hi, NEW h, Shape(V, P, lo, hi, h), NEW p \in P,
         NEW k \in Nat, lo[p] <= k, k < hi[p]
  PROVE  \A d \in 0 .. h[p] : \E q \in Within(P, lo, hi, h, p, d) : lo[q] <= k /\ k < hi[q]
<1> DEFINE Bad == {d \in 0 .. h[p] :
                     ~ \E q \in Within(P, lo, hi, h, p, d) : lo[q] <= k /\ k < hi[q]}
<1>1. SUFFICES ASSUME Bad # {} PROVE FALSE
  OBVIOUS
<1>2. /\ h[p] \in Nat /\ lo[p] \in Nat /\ hi[p] \in Nat
      /\ \A q \in P : h[q] \in Nat /\ lo[q] \in Nat /\ hi[q] \in Nat
  BY ShapeFacts
<1>3. PICK d \in Bad : \A e \in Bad : d <= e
  <2>1. Bad \in SUBSET Nat
    BY <1>2
  <2> HIDE DEF Bad
  <2> QED BY <1>1, <2>1, LeastNatural
<1>4. d # 0
  <2>1. p \in Within(P, lo, hi, h, p, 0)
    BY <1>2 DEF Within
  <2> QED BY <2>1
<1>5. d - 1 \in 0 .. h[p] /\ ~(d <= d - 1)
  BY <1>2, <1>4
<1>6. PICK q \in Within(P, lo, hi, h, p, d - 1) : lo[q] <= k /\ k < hi[q]
  BY <1>3, <1>5
<1>7. q \in P /\ h[q] + (d - 1) = h[p] /\ lo[p] <= lo[q] /\ hi[q] <= hi[p] /\ h[q] > 0
  BY <1>2, <1>3, <1>4, <1>6 DEF Within
<1> DEFINE i == child_slot(V[q], k)
           c == Child(V[q], i)
<1>8. i \in 0 .. num_cells(V[q]) /\ lo[c] <= k /\ k < hi[c]
  BY <1>6, <1>7, ChildOfKey
<1>9. c \in P /\ h[c] + 1 = h[q] /\ lo[q] <= lo[c] /\ hi[c] <= hi[q]
  BY <1>7, <1>8, ShapeFacts
<1> HIDE DEF c
<1>10. c \in Within(P, lo, hi, h, p, d)
  <2>1. d \in Nat
    BY <1>2, <1>3
  <2> QED BY <1>2, <1>7, <1>9, <2>1 DEF Within
<1> QED BY <1>3, <1>8, <1>10

(* The children of one level below p are the next level below p.           *)
LEMMA WithinStep ==
  ASSUME NEW V, NEW P, NEW lo, NEW hi, NEW h, Shape(V, P, lo, hi, h), NEW p \in P
  PROVE  /\ Within(P, lo, hi, h, p, 0) = {p}
         /\ \A d \in Nat : ChildrenOf(V, Within(P, lo, hi, h, p, d))
                             = Within(P, lo, hi, h, p, d + 1)
<1>1. \A q \in P : h[q] \in Nat /\ lo[q] \in Nat /\ hi[q] \in Nat /\ lo[q] < hi[q]
  BY ShapeFacts
<1>2. Within(P, lo, hi, h, p, 0) = {p}
  <2>1. p \in Within(P, lo, hi, h, p, 0)
    BY <1>1 DEF Within
  <2>2. ASSUME NEW q \in Within(P, lo, hi, h, p, 0) PROVE q = p
    <3>1. q \in P /\ h[q] = h[p] /\ lo[p] <= lo[q] /\ hi[q] <= hi[p]
      BY <1>1 DEF Within
    <3>2. lo[q] \in Nat /\ lo[q] < hi[p] /\ lo[q] <= lo[q] /\ lo[q] < hi[q]
      BY <1>1, <3>1
    <3> QED BY ONLY Shape(V, P, lo, hi, h), p \in P, <3>1, <3>2, SameNode
  <2> QED BY <2>1, <2>2
<1>3. ASSUME NEW d \in Nat
      PROVE  ChildrenOf(V, Within(P, lo, hi, h, p, d)) = Within(P, lo, hi, h, p, d + 1)
  <2> DEFINE S == Within(P, lo, hi, h, p, d)
             T == Within(P, lo, hi, h, p, d + 1)
  <2>1. S \in SUBSET P
    BY DEF Within
  <2>2. ASSUME NEW c \in ChildrenOf(V, S) PROVE c \in T
    <3>1. PICK q \in S : h[q] > 0 /\ \E i \in 0 .. num_cells(V[q]) : Child(V[q], i) = c
      <4> HIDE DEF S
      <4> QED BY <2>1, <2>2, ChildrenOfIs
    <3>2. q \in P /\ h[q] + d = h[p] /\ lo[p] <= lo[q] /\ hi[q] <= hi[p]
      BY DEF Within
    <3>3. c \in P /\ h[c] + 1 = h[q] /\ lo[q] <= lo[c] /\ hi[c] <= hi[q]
      BY <3>1, <3>2, ShapeFacts
    <3> QED BY <1>1, <3>2, <3>3 DEF Within
  <2>3. ASSUME NEW c \in T PROVE c \in ChildrenOf(V, S)
    <3>1. c \in P /\ h[c] + (d + 1) = h[p] /\ lo[p] <= lo[c] /\ hi[c] <= hi[p]
      BY DEF Within
    <3>2. /\ lo[c] \in Nat /\ lo[c] < hi[p] /\ lo[p] <= lo[c] /\ lo[c] < hi[c] /\ lo[c] <= lo[c]
          /\ d \in 0 .. h[p]
      BY <1>1, <3>1
    <3>3. PICK q \in S : lo[q] <= lo[c] /\ lo[c] < hi[q]
      BY <3>2, LevelsCover
    <3>4. q \in P /\ h[q] + d = h[p]
      BY DEF Within
    <3>5. h[q] > 0 /\ h[q] = h[c] + 1
      BY <1>1, <3>1, <3>4
    <3> DEFINE i == child_slot(V[q], lo[c])
               b == Child(V[q], i)
    <3>6. i \in 0 .. num_cells(V[q]) /\ lo[b] <= lo[c] /\ lo[c] < hi[b]
      BY <3>2, <3>3, <3>4, <3>5, ChildOfKey
    <3>7. b \in P /\ h[b] + 1 = h[q]
      BY <3>4, <3>5, <3>6, ShapeFacts
    <3> HIDE DEF b
    <3>8. h[b] = h[c]
      BY <1>1, <3>1, <3>5, <3>7
    <3>9. b = c
      BY ONLY Shape(V, P, lo, hi, h), <3>1, <3>2, <3>6, <3>7, <3>8, SameNode
    <3>10. \E j \in 0 .. num_cells(V[q]) : Child(V[q], j) = c
      BY <3>6, <3>9 DEF b
    <3> HIDE DEF S
    <3> QED BY <2>1, <3>3, <3>5, <3>10, ChildrenOfIs
  <2> QED BY <2>2, <2>3
<1> QED BY <1>2, <1>3

(* Level(V, p)[d] is the set of pages d levels below p.                    *)
LEMMA LevelIs ==
  ASSUME NEW V, NEW P, NEW lo, NEW hi, NEW h, Shape(V, P, lo, hi, h), NEW p \in P
  PROVE  \A d \in 0 .. LastPage + 1 : Level(V, p)[d] = Within(P, lo, hi, h, p, d)
<1> DEFINE D == 0 .. LastPage + 1
           F(L) == [d \in D |-> IF d = 0 THEN {p} ELSE ChildrenOf(V, L[d - 1])]
           w(d) == Within(P, lo, hi, h, p, d)
           f == [d \in D |-> w(d)]
           g == CHOOSE L : L = F(L)
           Bad == {d \in D : g[d] # w(d)}
<1>1. LastPage + 1 \in Nat
  BY LastPageAssumption
<1>2. w(0) = {p} /\ \A d \in Nat : ChildrenOf(V, w(d)) = w(d + 1)
  BY WithinStep
<1> HIDE DEF w
<1>3. ASSUME NEW d \in D, d # 0 PROVE d - 1 \in D /\ d - 1 \in Nat /\ d - 1 + 1 = d
  BY <1>1, <1>3
<1>4. f = F(f)
  <2>1. ASSUME NEW d \in D PROVE w(d) = IF d = 0 THEN {p} ELSE ChildrenOf(V, f[d - 1])
    <3>1. CASE d = 0
      BY <1>2, <3>1
    <3>2. CASE d # 0
      <4>1. f[d - 1] = w(d - 1) /\ ChildrenOf(V, w(d - 1)) = w(d)
        BY <1>2, <1>3, <3>2
      <4> QED BY <3>2, <4>1
    <3> QED BY <3>1, <3>2
  <2> QED BY <2>1
<1>5. g = F(g)
  <2> HIDE DEF f, F
  <2> QED BY <1>4
<1>6. Level(V, p) = g
  BY DEF Level
<1> HIDE DEF g
<1>7. Bad = {}
  <2>1. SUFFICES ASSUME Bad # {} PROVE FALSE
    OBVIOUS
  <2>2. PICK d \in Bad : \A e \in Bad : d <= e
    <3>1. Bad \in SUBSET Nat
      BY <1>1
    <3> HIDE DEF Bad
    <3> QED BY <2>1, <3>1, LeastNatural
  <2>3. CASE d = 0
    <3>1. g[0] = {p}
      BY <1>1, <1>5
    <3> QED BY <1>2, <2>2, <2>3, <3>1
  <2>4. CASE d # 0
    <3>1. d - 1 \in D /\ d - 1 \in Nat /\ d - 1 + 1 = d /\ ~(d <= d - 1)
      BY <1>1, <1>3, <2>2, <2>4
    <3>2. g[d - 1] = w(d - 1)
      BY <2>2, <3>1
    <3>3. g[d] = ChildrenOf(V, g[d - 1])
      BY <1>5, <2>2, <2>4
    <3> QED BY <1>2, <2>2, <3>1, <3>2, <3>3
  <2> QED BY <2>3, <2>4
<1> QED BY <1>6, <1>7 DEF w

(* Below(V, p) is the set of pages with a span in that of p, and all pages *)
(* are below the root.                                                     *)
LEMMA BelowIs ==
  ASSUME NEW V, NEW P, NEW lo, NEW hi, NEW h, Shape(V, P, lo, hi, h),
         h[0] <= LastPage, NEW p \in P
  PROVE  /\ Below(V, p) = {q \in P : h[q] <= h[p] /\ lo[p] <= lo[q] /\ hi[q] <= hi[p]}
         /\ LeavesBelow(V, p) = {q \in P : h[q] = 0 /\ lo[p] <= lo[q] /\ hi[q] <= hi[p]}
         /\ Reachable(V) = P
         /\ Leaves(V) = {q \in P : h[q] = 0}
<1>1. /\ LastPage \in Nat /\ 0 \in P /\ lo[0] = 0
      /\ \A q \in P : /\ h[q] \in Nat /\ lo[q] \in Nat /\ hi[q] \in Nat
                      /\ h[q] <= h[0] /\ hi[q] <= hi[0] /\ (V[q].type = "leaf" <=> h[q] = 0)
  BY ShapeFacts, LastPageAssumption DEF Shape, Typed
<1>2. ASSUME NEW t \in P
      PROVE  Below(V, t) = {q \in P : h[q] <= h[t] /\ lo[t] <= lo[q] /\ hi[q] <= hi[t]}
  <2> DEFINE B == {q \in P : h[q] <= h[t] /\ lo[t] <= lo[q] /\ hi[q] <= hi[t]}
  <2>1. \A d \in 0 .. LastPage + 1 : Level(V, t)[d] = Within(P, lo, hi, h, t, d)
    BY LevelIs
  <2>2. ASSUME NEW q \in B PROVE q \in Below(V, t)
    <3>1. h[t] - h[q] \in 0 .. LastPage + 1
      BY <1>1
    <3>2. q \in Within(P, lo, hi, h, t, h[t] - h[q])
      BY <1>1 DEF Within
    <3> QED BY <2>1, <3>1, <3>2 DEF Below
  <2>3. ASSUME NEW q \in Below(V, t) PROVE q \in B
    <3>1. PICK d \in 0 .. LastPage + 1 : q \in Level(V, t)[d]
      BY DEF Below
    <3>2. q \in Within(P, lo, hi, h, t, d) /\ d \in Nat
      BY <1>1, <2>1, <3>1
    <3> QED BY <1>1, <3>2 DEF Within
  <2> HIDE DEF B
  <2>4. Below(V, t) = B
    BY <2>2, <2>3
  <2> QED BY <2>4 DEF B
<1>3. ASSUME NEW t \in P
      PROVE  LeavesBelow(V, t) = {q \in P : h[q] = 0 /\ lo[t] <= lo[q] /\ hi[q] <= hi[t]}
  BY <1>1, <1>2 DEF LeavesBelow
<1>4. Reachable(V) = P
  <2>1. Below(V, 0) = {q \in P : h[q] <= h[0] /\ lo[0] <= lo[q] /\ hi[q] <= hi[0]}
    BY <1>1, <1>2
  <2>2. \A q \in P : h[q] <= h[0] /\ lo[0] <= lo[q] /\ hi[q] <= hi[0]
    BY <1>1
  <2>3. Below(V, 0) = P
    BY <2>1, <2>2
  <2> QED BY <2>3 DEF Reachable, root_page_id
<1>5. Leaves(V) = {q \in P : h[q] = 0}
  BY <1>1, <1>3 DEF Leaves, root_page_id
<1> QED BY <1>2, <1>3, <1>4, <1>5

-----------------------------------------------------------------------------
(* What the shape of the tree says between calls.                          *)

(* The keys below a page are in its span.                                  *)
LEMMA KeysInSpan ==
  ASSUME NEW P, NEW lo, NEW hi, NEW h, Shape(Tree, P, lo, hi, h), h[0] <= LastPage,
         NEW p \in P, NEW k
  PROVE  k \in KeysBelow(p) <=>
           \E q \in P : /\ h[q] = 0 /\ lo[p] <= lo[q] /\ hi[q] <= hi[p]
                        /\ \E s \in 0 .. num_cells(Tree[q]) - 1 : k = get_key(Tree[q], s)
<1>1. LeavesBelow(Tree, p) = {q \in P : h[q] = 0 /\ lo[p] <= lo[q] /\ hi[q] <= hi[p]}
  BY BelowIs
<1> QED BY <1>1 DEF KeysBelow

(* The keys below a page lie in its span, and are those of its leaves.     *)
LEMMA KeysBounded ==
  ASSUME NEW P, NEW lo, NEW hi, NEW h, Shape(Tree, P, lo, hi, h), h[0] <= LastPage,
         NEW p \in P, NEW k \in KeysBelow(p)
  PROVE  k \in Nat /\ lo[p] <= k /\ k < hi[p]
<1>1. PICK q \in P : /\ h[q] = 0 /\ lo[p] <= lo[q] /\ hi[q] <= hi[p]
                     /\ \E s \in 0 .. num_cells(Tree[q]) - 1 : k = get_key(Tree[q], s)
  BY KeysInSpan
<1>2. PICK s \in 0 .. num_cells(Tree[q]) - 1 : k = get_key(Tree[q], s)
  BY <1>1
<1>3. k \in Nat /\ lo[q] <= k /\ k < hi[q]
  BY <1>2, ShapeFacts
<1>4. lo[p] \in Nat /\ lo[q] \in Nat /\ hi[p] \in Nat /\ hi[q] \in Nat
  BY ShapeFacts
<1> QED BY <1>1, <1>3, <1>4

(* Separators keep the keys on their left from those on their right.       *)
LEMMA ShapeSearches ==
  ASSUME NEW P, NEW lo, NEW hi, NEW h, Shape(Tree, P, lo, hi, h), h[0] <= LastPage
  PROVE  SearchTree
<1>1. /\ Reachable(Tree) = P /\ Leaves(Tree) = {q \in P : h[q] = 0} /\ 0 \in P
      /\ \A q \in P : h[q] \in Nat
  BY BelowIs, ShapeFacts DEF Shape, Typed
<1>2. ASSUME NEW d \in 0 .. LastPage + 1,
             NEW p \in Level(Tree, root_page_id)[d], NEW q \in Level(Tree, root_page_id)[d]
      PROVE  Tree[p].type = Tree[q].type
  <2>1. Level(Tree, root_page_id)[d] = Within(P, lo, hi, h, 0, d)
    BY <1>1, LevelIs DEF root_page_id
  <2>2. p \in P /\ q \in P /\ h[p] + d = h[0] /\ h[q] + d = h[0]
    BY <2>1 DEF Within
  <2>3. h[p] = h[q]
    BY <1>1, <2>2, LastPageAssumption
  <2>4. /\ Tree[p] \in LeafNode \cup InternalNode /\ Tree[q] \in LeafNode \cup InternalNode
        /\ Tree[p].type = "leaf" <=> h[p] = 0
        /\ Tree[q].type = "leaf" <=> h[q] = 0
    BY <2>2, ShapeFacts
  <2> QED BY <2>3, <2>4, NodeKinds
<1>3. ASSUME NEW p \in Reachable(Tree) \ Leaves(Tree), NEW s \in 0 .. num_cells(Tree[p]) - 1
      PROVE  /\ \A k \in KeysBelow(Children(Tree[p])[s + 1]) : k < get_key(Tree[p], s)
             /\ \A k \in KeysBelow(Children(Tree[p])[s + 2]) : get_key(Tree[p], s) <= k
  <2>1. p \in P /\ h[p] > 0
    BY <1>1
  <2>2. Tree[p] \in InternalNode /\ num_cells(Tree[p]) \in Nat
    BY <2>1, ShapeFacts DEF Shape, InternalsIn, InternalIn
  <2>3. s \in 0 .. num_cells(Tree[p]) /\ s + 1 \in 0 .. num_cells(Tree[p])
        /\ s # num_cells(Tree[p]) /\ s + 1 # 0 /\ s + 1 - 1 = s /\ s + 1 + 1 = s + 2
    BY <2>2
  <2> DEFINE a == Child(Tree[p], s)
             b == Child(Tree[p], s + 1)
  <2>4. Children(Tree[p])[s + 1] = a /\ Children(Tree[p])[s + 2] = b
    <3>1. \A i \in 0 .. num_cells(Tree[p]) : Children(Tree[p])[i + 1] = Child(Tree[p], i)
      BY <2>2, KeysAndChildren DEF InternalNode
    <3> QED BY <2>3, <3>1
  <2>5. a \in P /\ hi[a] = To(Tree[p], hi[p], s)
    <3>1. \A i \in 0 .. num_cells(Tree[p]) :
            Child(Tree[p], i) \in P /\ hi[Child(Tree[p], i)] = To(Tree[p], hi[p], i)
      BY <2>1, ShapeFacts
    <3> QED BY <2>3, <3>1
  <2>6. b \in P /\ lo[b] = From(Tree[p], lo[p], s + 1)
    BY <2>1, <2>3, ShapeFacts
  <2>7. hi[a] = get_key(Tree[p], s)
    BY <2>3, <2>5 DEF To
  <2>8. lo[b] = get_key(Tree[p], s)
    BY <2>3, <2>6 DEF From
  <2> HIDE DEF a, b
  <2>9. \A k \in KeysBelow(a) : k < hi[a]
    BY <2>5, KeysBounded
  <2>10. \A k \in KeysBelow(b) : lo[b] <= k
    BY <2>6, KeysBounded
  <2> QED BY <2>4, <2>7, <2>8, <2>9, <2>10
<1> QED BY <1>2, <1>3 DEF SearchTree

(* Every page has one parent, and only page 0 is marked as the root.       *)
LEMMA ShapeOneParent ==
  ASSUME NEW lo, NEW hi, NEW h, NEW P, P = 0 .. mem.next_page_id - 1,
         Shape(Tree, P, lo, hi, h), h[0] <= LastPage,
         \A p \in P : num_cells(Tree[p]) <= MaxCells
  PROVE  OneParent
<1>1. /\ Reachable(Tree) = P /\ Leaves(Tree) = {q \in P : h[q] = 0}
      /\ \A q \in P : h[q] \in Nat /\ num_cells(Tree[q]) \in Nat
  <2>1. 0 \in P
    BY DEF Shape, Typed
  <2>2. Reachable(Tree) = P /\ Leaves(Tree) = {q \in P : h[q] = 0}
    BY ONLY Shape(Tree, P, lo, hi, h), h[0] <= LastPage, <2>1, BelowIs
  <2>3. \A q \in P : h[q] \in Nat /\ num_cells(Tree[q]) \in Nat
    BY ONLY Shape(Tree, P, lo, hi, h), ShapeFacts
  <2> QED BY <2>2, <2>3
<1>2. ASSUME NEW p \in P PROVE Tree[p].root <=> p = root_page_id
  BY DEF Shape, Spans, root_page_id
<1>3. ASSUME NEW p \in P, p # root_page_id
      PROVE  Cardinality({w \in (Reachable(Tree) \ Leaves(Tree)) \X (1 .. MaxCells + 1) :
                            /\ w[2] <= num_cells(Tree[w[1]]) + 1
                            /\ Children(Tree[w[1]])[w[2]] = p}) = 1
  <2> DEFINE R == {w \in (Reachable(Tree) \ Leaves(Tree)) \X (1 .. MaxCells + 1) :
                     /\ w[2] <= num_cells(Tree[w[1]]) + 1
                     /\ Children(Tree[w[1]])[w[2]] = p}
  <2>1. PICK q \in P : h[q] > 0 /\ \E i \in 0 .. num_cells(Tree[q]) : Child(Tree[q], i) = p
    BY <1>3 DEF Shape, Parents, root_page_id
  <2>2. PICK i \in 0 .. num_cells(Tree[q]) : Child(Tree[q], i) = p
    BY <2>1
  <2>3. ASSUME NEW x \in P, h[x] > 0
        PROVE  \A j \in 0 .. num_cells(Tree[x]) : Children(Tree[x])[j + 1] = Child(Tree[x], j)
    <3>1. Tree[x] \in InternalNode
      BY <2>3 DEF Shape, InternalsIn, InternalIn
    <3> QED BY <3>1, KeysAndChildren DEF InternalNode
  <2>4. <<q, i + 1>> \in R
    <3>1. q \in Reachable(Tree) \ Leaves(Tree)
      BY <1>1, <2>1
    <3>2. i + 1 \in 1 .. MaxCells + 1 /\ i + 1 <= num_cells(Tree[q]) + 1
      BY <1>1, <2>2, MaxCellsAssumption
    <3>3. Children(Tree[q])[i + 1] = p
      BY <2>1, <2>2, <2>3
    <3> QED BY <3>1, <3>2, <3>3
  <2>5. ASSUME NEW w \in R PROVE w = <<q, i + 1>>
    <3>1. /\ w = <<w[1], w[2]>> /\ w[1] \in P /\ h[w[1]] > 0 /\ w[2] \in 1 .. MaxCells + 1
          /\ w[2] <= num_cells(Tree[w[1]]) + 1 /\ Children(Tree[w[1]])[w[2]] = p
      BY <1>1
    <3> DEFINE x == w[1]
               j == w[2] - 1
    <3>2. j \in 0 .. num_cells(Tree[x]) /\ j + 1 = w[2]
      BY <1>1, <3>1, MaxCellsAssumption
    <3>3. x \in P /\ h[x] > 0 /\ w = <<x, j + 1>>
      BY <3>1, <3>2
    <3>4. Children(Tree[x])[j + 1] = p
      BY <3>1, <3>2
    <3> HIDE DEF x, j
    <3>5. Child(Tree[x], j) = Child(Tree[q], i)
      BY <2>2, <2>3, <3>2, <3>3, <3>4
    <3>6. x = q /\ j = i
      BY ONLY Shape(Tree, P, lo, hi, h), <2>1, <2>2, <3>2, <3>3, <3>5, OneSlot
    <3> QED BY <3>3, <3>6
  <2>6. R = {<<q, i + 1>>}
    <3> HIDE DEF R
    <3> QED BY <2>4, <2>5
  <2> HIDE DEF R
  <2>7. Cardinality(R) = 1
    BY <2>6, FS_Singleton
  <2> QED BY <2>7 DEF R
<1> QED BY <1>2, <1>3 DEF OneParent

(* Nodes other than the root are at least half full.                       *)
LEMMA ShapeHalfFull ==
  ASSUME NEW lo, NEW hi, NEW h, NEW P, Shape(Tree, P, lo, hi, h), h[0] <= LastPage,
         \A p \in P \ {0} : num_cells(Tree[p]) >= MaxCells \div 2
  PROVE  HalfFull
<1>1. Reachable(Tree) = P
  BY BelowIs DEF Shape, Typed
<1> QED BY <1>1 DEF HalfFull, root_page_id

(* Each leaf is linked to the one with the next keys.                      *)
LEMMA ShapeChain ==
  ASSUME NEW lo, NEW hi, NEW h, NEW P, Shape(Tree, P, lo, hi, h), h[0] <= LastPage,
         \A p \in P \ {0} : num_cells(Tree[p]) >= MaxCells \div 2
  PROVE  LeafChain
<1> DEFINE L == {q \in P : h[q] = 0}
           After(p) == {q \in Leaves(Tree) :
                          \A j \in KeysBelow(p), k \in KeysBelow(q) : j < k} \ {p}
<1>1. /\ Leaves(Tree) = L
      /\ \A q \in P : /\ h[q] \in Nat /\ num_cells(Tree[q]) \in Nat /\ lo[q] \in Nat
                      /\ hi[q] \in Nat /\ lo[q] < hi[q] /\ hi[q] <= hi[0] /\ h[q] <= h[0]
      /\ \A q \in P : q # 0 => h[q] < h[0]
      /\ 0 \in P /\ lo[0] = 0
  BY BelowIs, ShapeFacts DEF Shape, Typed, Spans
<1>2. \A p, q \in L : p # q => hi[p] <= lo[q] \/ hi[q] <= lo[p]
  BY DEF Shape, Apart
<1>3. ASSUME NEW p \in L, NEW q \in L, p # q PROVE q # 0
  BY <1>1, <1>3
<1>4. ASSUME NEW q \in L \ {0} PROVE KeysBelow(q) # {}
  <2>1. num_cells(Tree[q]) \in Nat /\ num_cells(Tree[q]) >= 1
    BY <1>1, MaxCellsAssumption
  <2>2. 0 \in 0 .. num_cells(Tree[q]) - 1 /\ lo[q] <= lo[q] /\ hi[q] <= hi[q] /\ q \in P /\ h[q] = 0
    BY <1>1, <2>1
  <2>3. get_key(Tree[q], 0) \in KeysBelow(q)
    BY <2>2, KeysInSpan
  <2> QED BY <2>3
<1>5. ASSUME NEW q \in L PROVE \A k \in KeysBelow(q) : k \in Nat /\ lo[q] <= k /\ k < hi[q]
  BY KeysBounded
<1>6. ASSUME NEW p \in L PROVE After(p) = {q \in L : hi[p] <= lo[q]}
  <2>1. ASSUME NEW q \in L, hi[p] <= lo[q] PROVE q \in After(p)
    <3>1. q # p
      BY <1>1, <2>1
    <3>2. \A j \in KeysBelow(p), k \in KeysBelow(q) : j < k
      BY <1>1, <1>5, <2>1
    <3> QED BY <1>1, <3>1, <3>2
  <2>2. ASSUME NEW q \in After(p) PROVE q \in L /\ hi[p] <= lo[q]
    <3>1. q \in L /\ q # p /\ \A j \in KeysBelow(p), k \in KeysBelow(q) : j < k
      BY <1>1
    <3>2. SUFFICES ASSUME hi[q] <= lo[p] PROVE FALSE
      BY <1>2, <3>1
    <3>3. p # 0 /\ q # 0
      BY <1>3, <3>1
    <3>4. PICK j \in KeysBelow(p), k \in KeysBelow(q) : TRUE
      BY <1>4, <3>1, <3>3
    <3>5. j < k /\ j \in Nat /\ lo[p] <= j /\ k \in Nat /\ k < hi[q]
      BY <1>5, <3>1, <3>4
    <3> QED BY <1>1, <3>1, <3>2, <3>5
  <2> HIDE DEF After, L
  <2> QED BY <2>1, <2>2
<1>7. ASSUME NEW p \in L
      PROVE  IF After(p) = {} THEN Tree[p].link = NoLeaf
             ELSE /\ Tree[p].link \in After(p)
                  /\ \A q \in After(p), j \in KeysBelow(Tree[p].link) :
                       \E k \in KeysBelow(q) : j <= k
  <2> DEFINE l == Tree[p].link
  <2>1. IF hi[p] = hi[0] THEN l = NoLeaf ELSE l \in P /\ h[l] = 0 /\ lo[l] = hi[p]
    BY DEF Shape, LeavesIn
  <2>2. CASE hi[p] = hi[0]
    <3>1. After(p) = {}
      <4> HIDE DEF After
      <4>1. \A q \in L : ~(hi[p] <= lo[q])
        BY <1>1, <2>2
      <4> QED BY <1>6, <4>1
    <3> QED BY <2>1, <2>2, <3>1
  <2>3. CASE hi[p] # hi[0]
    <3> HIDE DEF After, l
    <3>1. l \in L /\ lo[l] = hi[p] /\ l \in After(p)
      BY <1>1, <1>6, <2>1, <2>3
    <3>2. ASSUME NEW q \in After(p), NEW j \in KeysBelow(l) PROVE \E k \in KeysBelow(q) : j <= k
      <4>1. q \in L /\ hi[p] <= lo[q]
        BY <1>6
      <4>2. CASE q = l
        BY <1>5, <3>1, <3>2, <4>2
      <4>3. CASE q # l
        <5>1. hi[l] <= lo[q]
          BY <1>1, <1>2, <3>1, <4>1, <4>3
        <5>2. PICK k \in KeysBelow(q) : TRUE
          BY <1>3, <1>4, <3>1, <4>1, <4>3
        <5>3. k \in Nat /\ lo[q] <= k /\ j \in Nat /\ j < hi[l]
          BY <1>5, <3>1, <4>1, <5>2
        <5>4. hi[l] \in Nat /\ lo[q] \in Nat
          BY <1>1, <3>1, <4>1
        <5> QED BY <5>1, <5>2, <5>3, <5>4
      <4> QED BY <4>2, <4>3
    <3> QED BY <3>1, <3>2 DEF l
  <2> QED BY <2>2, <2>3
<1> QED BY <1>1, <1>7 DEF LeafChain

-----------------------------------------------------------------------------
(* The entries of a tree are the live cells of its leaves.                 *)
EntryIn(n, i) == <<get_key(n, i), get_value(n, i)>>
(* The live cells of a leaf, and of the leaves of a tree.                  *)
LiveIn(n) ==
  {EntryIn(n, i) : i \in {j \in 0 .. num_cells(n) - 1 : get_value(n, j) # Tombstone}}
LeafEntries(V, P, h) == UNION {LiveIn(V[p]) : p \in {q \in P : h[q] = 0}}

(* The entry of a dictionary for key k becomes that of X.                  *)
Replaced(D, k, X) == {e \in D : e[1] # k} \cup X

(* What leaf_node_find and the leaves' order make of Entries.              *)
LEMMA EntriesAre ==
  ASSUME NEW V, NEW P, NEW lo, NEW hi, NEW h, Shape(V, P, lo, hi, h), h[0] <= LastPage
  PROVE  Entries(V) = LeafEntries(V, P, h)
<1> DEFINE L == {q \in P : h[q] = 0}
           C == UNION {{V[p].cells[i] : i \in 1 .. Len(V[p].cells)} : p \in L}
<1>1. Leaves(V) = L
  <2>1. 0 \in P
    BY DEF Shape, Typed
  <2> QED BY <2>1, BelowIs
<1>2. \A p \in L : num_cells(V[p]) \in Nat
  BY ShapeFacts
<1>3. Entries(V) = {<<e.key, e.val>> : e \in {c \in C : c.val # Tombstone}}
  BY <1>1 DEF Entries
<1> HIDE DEF C
<1>4. ASSUME NEW x \in Entries(V) PROVE x \in LeafEntries(V, P, h)
  <2>1. PICK e \in C : e.val # Tombstone /\ x = <<e.key, e.val>>
    BY <1>3
  <2>2. PICK p \in L : e \in {V[p].cells[i] : i \in 1 .. Len(V[p].cells)}
    BY <2>1 DEF C
  <2>3. PICK i \in 1 .. Len(V[p].cells) : e = V[p].cells[i]
    BY <2>2
  <2> DEFINE j == i - 1
  <2>4. j \in 0 .. num_cells(V[p]) - 1 /\ j + 1 = i
    BY <1>2, <2>3 DEF num_cells
  <2> HIDE DEF j
  <2>5. x = EntryIn(V[p], j) /\ get_value(V[p], j) # Tombstone
    BY <2>1, <2>3, <2>4 DEF EntryIn, get_key, get_value
  <2>6. x \in LiveIn(V[p])
    BY <2>4, <2>5 DEF LiveIn
  <2> QED BY <2>2, <2>6 DEF LeafEntries
<1>5. ASSUME NEW x \in LeafEntries(V, P, h) PROVE x \in Entries(V)
  <2>1. PICK p \in L : x \in LiveIn(V[p])
    BY DEF LeafEntries
  <2>2. PICK j \in 0 .. num_cells(V[p]) - 1 : get_value(V[p], j) # Tombstone /\ x = EntryIn(V[p], j)
    BY <2>1 DEF LiveIn
  <2> DEFINE e == V[p].cells[j + 1]
  <2>3. j + 1 \in 1 .. Len(V[p].cells)
    BY <1>2, <2>2 DEF num_cells
  <2>4. e \in C
    BY <2>1, <2>3 DEF C
  <2>5. e.val # Tombstone /\ x = <<e.key, e.val>>
    BY <2>2 DEF EntryIn, get_key, get_value
  <2> HIDE DEF e
  <2> QED BY <1>3, <2>4, <2>5
<1> QED BY <1>4, <1>5

(* What is known of the entries with one key: they are in one leaf.        *)
LEMMA EntriesOfKey ==
  ASSUME NEW V, NEW P, NEW lo, NEW hi, NEW h, Shape(V, P, lo, hi, h),
         NEW p \in P, h[p] = 0, NEW k \in Nat, lo[p] <= k, k < hi[p]
  PROVE  \A e \in LeafEntries(V, P, h) : e[1] = k => e \in LiveIn(V[p])
<1> SUFFICES ASSUME NEW e \in LeafEntries(V, P, h), e[1] = k
             PROVE  e \in LiveIn(V[p])
  OBVIOUS
<1>1. PICK q \in P : h[q] = 0 /\ e \in LiveIn(V[q])
  BY DEF LeafEntries
<1>2. PICK i \in 0 .. num_cells(V[q]) - 1 : e = EntryIn(V[q], i)
  BY <1>1 DEF LiveIn
<1>3. get_key(V[q], i) = k
  BY <1>2 DEF EntryIn
<1>4. lo[q] <= k /\ k < hi[q]
  BY <1>2, <1>3, ShapeFacts
<1>5. p = q
  BY <1>1, <1>4, SameNode
<1> QED BY <1>1, <1>5

(* A leaf's entry for a key is the one leaf_node_find finds.               *)
LEMMA EntryFound ==
  ASSUME NEW n \in LeafNode, Sorted(n), NEW k \in Nat
  PROVE  \A e : e \in LiveIn(n) /\ e[1] = k <=>
           /\ Holds(n, k) /\ get_value(n, leaf_node_find(n, k)) # Tombstone
           /\ e = <<k, get_value(n, leaf_node_find(n, k))>>
<1> DEFINE f == leaf_node_find(n, k)
<1>1. Keyed(n)
  BY NodeKinds
<1>2. /\ Holds(n, k) <=> \E i \in 0 .. num_cells(n) - 1 : get_key(n, i) = k
      /\ \A i \in 0 .. num_cells(n) - 1 : get_key(n, i) = k => i = f
  BY ONLY <1>1, Sorted(n), k \in Nat, HoldsKey
<1> HIDE DEF f
<1>3. ASSUME NEW e \in LiveIn(n), e[1] = k
      PROVE  Holds(n, k) /\ get_value(n, f) # Tombstone /\ e = <<k, get_value(n, f)>>
  <2>1. PICK i \in 0 .. num_cells(n) - 1 : get_value(n, i) # Tombstone /\ e = EntryIn(n, i)
    BY DEF LiveIn
  <2>2. get_key(n, i) = k
    BY <1>3, <2>1 DEF EntryIn
  <2> QED BY <1>2, <2>1, <2>2 DEF EntryIn
<1>4. ASSUME Holds(n, k), get_value(n, f) # Tombstone
      PROVE  <<k, get_value(n, f)>> \in LiveIn(n)
  <2>1. PICK i \in 0 .. num_cells(n) - 1 : get_key(n, i) = k
    BY <1>2, <1>4
  <2>2. i = f
    BY <1>2, <2>1
  <2> QED BY <1>4, <2>1, <2>2 DEF LiveIn, EntryIn
<1> QED BY <1>3, <1>4 DEF f

(* One leaf with another entry for a key of its span is a tree with        *)
(* another entry for that key.                                             *)
LEMMA EntriesReplaced ==
  ASSUME NEW V, NEW P, NEW lo, NEW hi, NEW h, Shape(V, P, lo, hi, h),
         NEW p \in P, h[p] = 0, NEW k \in Nat, lo[p] <= k, k < hi[p],
         NEW n, NEW X, LiveIn(n) = Replaced(LiveIn(V[p]), k, X)
  PROVE  LeafEntries([V EXCEPT ![p] = n], P, h) = Replaced(LeafEntries(V, P, h), k, X)
<1> DEFINE W == [V EXCEPT ![p] = n]
<1>1. W[p] = n /\ \A q \in P \ {p} : W[q] = V[q]
  BY DEF Shape, Typed
<1> HIDE DEF W
<1>2. ASSUME NEW e \in LeafEntries(W, P, h) PROVE e \in Replaced(LeafEntries(V, P, h), k, X)
  <2>1. PICK q \in P : h[q] = 0 /\ e \in LiveIn(W[q])
    BY DEF LeafEntries
  <2>2. CASE q = p
    BY <1>1, <2>1, <2>2 DEF Replaced, LeafEntries
  <2>3. CASE q # p
    <3>1. e \in LiveIn(V[q]) /\ e \in LeafEntries(V, P, h)
      BY <1>1, <2>1, <2>3 DEF LeafEntries
    <3>2. ASSUME e[1] = k PROVE FALSE
      <4>1. PICK i \in 0 .. num_cells(V[q]) - 1 : e = EntryIn(V[q], i)
        BY <3>1 DEF LiveIn
      <4>2. get_key(V[q], i) = k
        BY <3>2, <4>1 DEF EntryIn
      <4>3. lo[q] <= k /\ k < hi[q]
        BY <4>1, <4>2, ShapeFacts
      <4> QED BY <2>1, <2>3, <4>3, SameNode
    <3> QED BY <3>1, <3>2 DEF Replaced
  <2> QED BY <2>2, <2>3
<1>3. ASSUME NEW e \in Replaced(LeafEntries(V, P, h), k, X) PROVE e \in LeafEntries(W, P, h)
  <2>1. CASE e \in X
    BY <1>1, <2>1 DEF Replaced, LeafEntries
  <2>2. CASE e \in LeafEntries(V, P, h) /\ e[1] # k
    <3>1. PICK q \in P : h[q] = 0 /\ e \in LiveIn(V[q])
      BY <2>2 DEF LeafEntries
    <3> QED BY <1>1, <2>2, <3>1 DEF LeafEntries, Replaced
  <2> QED BY <1>3, <2>1, <2>2 DEF Replaced
<1> QED BY <1>2, <1>3 DEF W

(* The division of a node moves entries and changes none.                  *)
LEMMA EntriesDivided ==
  ASSUME NEW V, NEW P, NEW lo, NEW hi, NEW h, Shape(V, P, lo, hi, h),
         NEW p, NEW r, NEW sep, NEW q, NEW s, NEW W, Divided(V, P, h, p, r, sep, q, s, W)
  PROVE  LeafEntries(W, P \cup {r}, HeightAfter(P, h, p, r)) = LeafEntries(V, P, h)
<1> DEFINE g == HeightAfter(P, h, p, r)
<1>1. /\ p \in P /\ r \notin P /\ q \in P /\ h[q] > 0 /\ h \in [P -> Nat]
      /\ \A x \in P \ {p, q} : W[x] = V[x]
      /\ Cut(V[p], W[p], W[r], r, sep, h[p])
  BY DEF Divided, Shape, Typed
<1>2. g[r] = h[p] /\ \A x \in P : g[x] = h[x]
  BY <1>1 DEF HeightAfter
<1> SUFFICES LeafEntries(W, P \cup {r}, g) = LeafEntries(V, P, h)
  OBVIOUS
<1> HIDE DEF g
<1>3. CASE h[p] = 0
  <2>1. /\ num_cells(V[p]) = num_cells(W[p]) + num_cells(W[r])
        /\ num_cells(W[p]) \in Nat \ {0} /\ num_cells(W[r]) \in Nat \ {0}
        /\ \A i \in 0 .. num_cells(W[p]) - 1 : W[p].cells[i + 1] = V[p].cells[i + 1]
        /\ \A i \in 0 .. num_cells(W[r]) - 1 :
             W[r].cells[i + 1] = V[p].cells[num_cells(W[p]) + i + 1]
    BY <1>1, <1>3 DEF Cut, LeafCut
  <2>2. ASSUME NEW e \in LiveIn(W[p]) \cup LiveIn(W[r]) PROVE e \in LiveIn(V[p])
    <3>1. CASE e \in LiveIn(W[p])
      <4>1. PICK i \in 0 .. num_cells(W[p]) - 1 :
              get_value(W[p], i) # Tombstone /\ e = EntryIn(W[p], i)
        BY <3>1 DEF LiveIn
      <4>2. i \in 0 .. num_cells(V[p]) - 1
        BY <2>1, <4>1
      <4>3. get_value(V[p], i) # Tombstone /\ e = EntryIn(V[p], i)
        BY <2>1, <4>1 DEF EntryIn, get_key, get_value
      <4> QED BY <4>2, <4>3 DEF LiveIn
    <3>2. CASE e \in LiveIn(W[r])
      <4>1. PICK i \in 0 .. num_cells(W[r]) - 1 :
              get_value(W[r], i) # Tombstone /\ e = EntryIn(W[r], i)
        BY <3>2 DEF LiveIn
      <4> DEFINE j == num_cells(W[p]) + i
      <4>2. j \in 0 .. num_cells(V[p]) - 1 /\ W[r].cells[i + 1] = V[p].cells[j + 1]
        BY <2>1, <4>1
      <4> HIDE DEF j
      <4>3. get_value(V[p], j) # Tombstone /\ e = EntryIn(V[p], j)
        BY <4>1, <4>2 DEF EntryIn, get_key, get_value
      <4> QED BY <4>2, <4>3 DEF LiveIn
    <3> QED BY <2>2, <3>1, <3>2
  <2>3. ASSUME NEW e \in LiveIn(V[p]) PROVE e \in LiveIn(W[p]) \cup LiveIn(W[r])
    <3>1. PICK i \in 0 .. num_cells(V[p]) - 1 :
            get_value(V[p], i) # Tombstone /\ e = EntryIn(V[p], i)
      BY DEF LiveIn
    <3>2. CASE i < num_cells(W[p])
      <4>1. i \in 0 .. num_cells(W[p]) - 1
        BY <2>1, <3>1, <3>2
      <4>2. get_value(W[p], i) # Tombstone /\ e = EntryIn(W[p], i)
        BY <2>1, <3>1, <4>1 DEF EntryIn, get_key, get_value
      <4> QED BY <4>1, <4>2 DEF LiveIn
    <3>3. CASE ~(i < num_cells(W[p]))
      <4> DEFINE j == i - num_cells(W[p])
      <4>1. j \in 0 .. num_cells(W[r]) - 1 /\ num_cells(W[p]) + j = i
        BY <2>1, <3>1, <3>3
      <4>2. W[r].cells[j + 1] = V[p].cells[i + 1]
        BY <2>1, <4>1
      <4> HIDE DEF j
      <4>3. get_value(W[r], j) # Tombstone /\ e = EntryIn(W[r], j)
        BY <3>1, <4>2 DEF EntryIn, get_key, get_value
      <4> QED BY <4>1, <4>3 DEF LiveIn
    <3> QED BY <3>2, <3>3
  <2>4. LiveIn(W[p]) \cup LiveIn(W[r]) = LiveIn(V[p])
    BY <2>2, <2>3
  <2>5. \A x \in P : h[x] = 0 /\ x # p => W[x] = V[x]
    BY <1>1
  <2>6. {x \in P \cup {r} : g[x] = 0} = {x \in P : h[x] = 0} \cup {r}
    BY <1>1, <1>2, <1>3
  <2>7. p \in {x \in P : h[x] = 0}
    BY <1>1, <1>3
  <2> QED BY <2>4, <2>5, <2>6, <2>7 DEF LeafEntries
<1>4. CASE h[p] # 0
  <2>1. \A x \in P : h[x] = 0 => x \notin {p, q}
    BY <1>1, <1>4
  <2>2. {x \in P \cup {r} : g[x] = 0} = {x \in P : h[x] = 0}
    BY <1>1, <1>2, <1>4
  <2>3. \A x \in {y \in P : h[y] = 0} : W[x] = V[x]
    BY <1>1, <2>1
  <2> QED BY <2>2, <2>3 DEF LeafEntries
<1> QED BY <1>3, <1>4

(* ... and so does a new level above the root.                             *)
LEMMA EntriesRaised ==
  ASSUME NEW V, NEW P, NEW lo, NEW hi, NEW h, Shape(V, P, lo, hi, h),
         NEW l, l \notin P, NEW W, \A x \in P \ {0} : W[x] = V[x],
         W[l].cells = V[0].cells
  PROVE  LeafEntries(W, P \cup {l}, HeightRaised(P, h, l)) = LeafEntries(V, P, h)
<1> DEFINE g == HeightRaised(P, h, l)
<1> SUFFICES LeafEntries(W, P \cup {l}, g) = LeafEntries(V, P, h)
  OBVIOUS
<1>1. 0 \in P /\ l # 0 /\ h[0] \in Nat /\ \A x \in P : x # 0 => h[x] < h[0] /\ h[x] \in Nat
  BY ShapeFacts DEF Shape, Typed, Spans
<1>2. g[l] = h[0] /\ g[0] # 0 /\ \A x \in P \ {0} : g[x] = h[x]
  BY <1>1 DEF HeightRaised
<1> HIDE DEF g
<1>3. LiveIn(W[l]) = LiveIn(V[0])
  BY DEF LiveIn, EntryIn, get_key, get_value, num_cells
<1>4. CASE h[0] = 0
  <2>1. P = {0} /\ {x \in P : h[x] = 0} = {0}
    BY <1>1, <1>4
  <2>2. {x \in P \cup {l} : g[x] = 0} = {l}
    BY <1>1, <1>2, <1>4, <2>1
  <2> QED BY <1>3, <2>1, <2>2 DEF LeafEntries
<1>5. CASE h[0] # 0
  <2>1. {x \in P \cup {l} : g[x] = 0} = {x \in P : h[x] = 0}
    BY <1>1, <1>2, <1>5
  <2>2. \A x \in {y \in P : h[y] = 0} : W[x] = V[x]
    BY <1>5
  <2> QED BY <2>1, <2>2 DEF LeafEntries
<1> QED BY <1>4, <1>5

-----------------------------------------------------------------------------
(* What the calls do to the entries of a leaf.                             *)
EntryOf(k, v) == IF v = Tombstone THEN {} ELSE {<<k, v>>}

(* A leaf with another value, or one cell more, is a leaf of its span.     *)
LeafPut(n, m, l, u, k, v) ==
  /\ LeafIn(m, l, u) /\ m.root = n.root /\ m.link = n.link
  /\ LiveIn(m) = Replaced(LiveIn(n), k, EntryOf(k, v))

(* set_value replaces the entry of a key that a leaf holds.                *)
LEMMA LeafSetValue ==
  ASSUME NEW l \in Nat, NEW u \in Nat, NEW n, LeafIn(n, l, u),
         NEW k \in Nat, NEW v \in Value \cup {Tombstone}, Holds(n, k)
  PROVE  LeafPut(n, set_value(n, k, v), l, u, k, v)
         /\ num_cells(set_value(n, k, v)) = num_cells(n)
<1> DEFINE m == set_value(n, k, v)
           f == leaf_node_find(n, k)
           S == Value \cup {Tombstone}
           L == Page \cup {NoLeaf}
<1>1. n \in NodeOf(S, L) /\ n.type = "leaf" /\ Sorted(n) /\ num_cells(n) \in Nat
  BY NodeKinds DEF LeafIn, LeafNode
<1> HIDE DEF S, L
<1>2. v \in S
  BY DEF S
<1>3. /\ m \in NodeOf(S, L) /\ m = [n EXCEPT !.cells = m.cells]
      /\ num_cells(m) = num_cells(n) /\ f \in 0 .. num_cells(n) - 1 /\ get_key(n, f) = k
      /\ \A i \in 0 .. num_cells(n) - 1 :
           m.cells[i + 1] = IF i = f THEN [key |-> k, val |-> v] ELSE n.cells[i + 1]
  BY ONLY <1>1, <1>2, k \in Nat, Holds(n, k), SetValue
<1> HIDE DEF m, f
<1>4. \A i \in 0 .. num_cells(n) - 1 :
        /\ get_key(m, i) = get_key(n, i)
        /\ get_value(m, i) = IF i = f THEN v ELSE get_value(n, i)
  BY <1>3 DEF get_key, get_value
<1>5. m.type = n.type /\ m.root = n.root /\ m.link = n.link
  <2>1. n = [type |-> n.type, root |-> n.root, cells |-> n.cells, link |-> n.link]
    BY <1>1 DEF NodeOf
  <2> QED BY <1>3, <2>1
<1>6. LeafIn(m, l, u)
  <2>1. m \in LeafNode
    BY <1>1, <1>3, <1>5 DEF LeafNode, S, L
  <2>2. Sorted(m)
    BY <1>1, <1>3, <1>4 DEF Sorted
  <2> QED BY <1>3, <1>4, <2>1, <2>2 DEF LeafIn
<1>7. \A i \in 0 .. num_cells(n) - 1 : get_key(n, i) = k <=> i = f
  <2>1. Keyed(n)
    BY <1>1, NodeParts
  <2> QED BY ONLY <1>1, <1>3, <2>1, k \in Nat, HoldsKey DEF f
<1>8. LiveIn(m) = Replaced(LiveIn(n), k, EntryOf(k, v))
  <2>1. ASSUME NEW e \in LiveIn(m) PROVE e \in Replaced(LiveIn(n), k, EntryOf(k, v))
    <3>1. PICK i \in 0 .. num_cells(n) - 1 : get_value(m, i) # Tombstone /\ e = EntryIn(m, i)
      BY <1>3 DEF LiveIn
    <3>2. CASE i = f
      BY <1>3, <1>4, <3>1, <3>2 DEF EntryIn, EntryOf, Replaced
    <3>3. CASE i # f
      <4>1. e = EntryIn(n, i) /\ get_value(n, i) # Tombstone /\ e[1] # k
        BY <1>4, <1>7, <3>1, <3>3 DEF EntryIn
      <4> QED BY <3>1, <4>1 DEF LiveIn, Replaced
    <3> QED BY <3>2, <3>3
  <2>2. ASSUME NEW e \in Replaced(LiveIn(n), k, EntryOf(k, v)) PROVE e \in LiveIn(m)
    <3>1. CASE e \in EntryOf(k, v)
      <4>1. v # Tombstone /\ e = <<k, v>>
        BY <3>1 DEF EntryOf
      <4>2. e = EntryIn(m, f) /\ get_value(m, f) # Tombstone
        BY <1>3, <1>4, <4>1 DEF EntryIn
      <4> QED BY <1>3, <4>2 DEF LiveIn
    <3>2. CASE e \in LiveIn(n) /\ e[1] # k
      <4>1. PICK i \in 0 .. num_cells(n) - 1 : get_value(n, i) # Tombstone /\ e = EntryIn(n, i)
        BY <3>2 DEF LiveIn
      <4>2. i # f
        BY <1>3, <3>2, <4>1 DEF EntryIn
      <4>3. e = EntryIn(m, i) /\ get_value(m, i) # Tombstone
        BY <1>4, <4>1, <4>2 DEF EntryIn
      <4> QED BY <1>3, <4>1, <4>3 DEF LiveIn
    <3> QED BY <2>2, <3>1, <3>2 DEF Replaced
  <2> QED BY <2>1, <2>2
<1> QED BY <1>3, <1>5, <1>6, <1>8 DEF LeafPut, m

(* insert_cell adds the entry of a key that a leaf does not hold.          *)
LEMMA LeafInsertCell ==
  ASSUME NEW l \in Nat, NEW u \in Nat, NEW n, LeafIn(n, l, u),
         NEW k \in Nat, l <= k, k < u, NEW v \in Value \cup {Tombstone}, ~Holds(n, k)
  PROVE  LeafPut(n, insert_cell(n, k, v), l, u, k, v)
         /\ num_cells(insert_cell(n, k, v)) = num_cells(n) + 1
<1> DEFINE m == insert_cell(n, k, v)
           f == leaf_node_find(n, k)
           N == num_cells(n)
           S == Value \cup {Tombstone}
           L == Page \cup {NoLeaf}
           cell == [key |-> k, val |-> v]
<1>1. n \in NodeOf(S, L) /\ n.type = "leaf" /\ Sorted(n) /\ N \in Nat
  BY NodeKinds DEF LeafIn, LeafNode
<1>2. v \in S
  OBVIOUS
<1>3. cell.key = k /\ cell.val = v
  OBVIOUS
<1> HIDE DEF S, L, cell
<1>4. /\ m \in NodeOf(S, L) /\ m = [n EXCEPT !.cells = m.cells] /\ CellPut(n, m, f, cell)
  BY ONLY <1>1, <1>2, k \in Nat, InsertCell DEF cell
<1>5. Keyed(n)
  BY <1>1, NodeParts
<1>6. f \in 0 .. N /\ \A i \in 0 .. N - 1 : get_key(n, i) < k <=> i < f
  BY ONLY <1>1, <1>5, k \in Nat, LeafNodeFind
<1>7. \A i \in 0 .. N - 1 : get_key(n, i) # k /\ get_key(n, i) \in Nat
  <2>1. Holds(n, k) <=> \E i \in 0 .. N - 1 : get_key(n, i) = k
    BY ONLY <1>1, <1>5, k \in Nat, HoldsKey
  <2> QED BY <1>5, <2>1 DEF Keyed
<1> HIDE DEF m, f, N
<1>8. num_cells(m) = N + 1
  BY <1>4 DEF CellPut, N
<1>9. /\ \A i \in 0 .. N - 1 :
           i < f => get_key(m, i) = get_key(n, i) /\ get_value(m, i) = get_value(n, i)
      /\ get_key(m, f) = k /\ get_value(m, f) = v
      /\ \A i \in 1 .. N : i > f => /\ get_key(m, i) = get_key(n, i - 1)
                                    /\ get_value(m, i) = get_value(n, i - 1)
  <2>1. \A i \in 0 .. N : m.cells[i + 1] = IF i < f THEN n.cells[i + 1]
                                           ELSE IF i = f THEN cell ELSE n.cells[i]
    BY <1>4 DEF CellPut, N
  <2>2. ASSUME NEW i \in 0 .. N - 1, i < f
        PROVE  get_key(m, i) = get_key(n, i) /\ get_value(m, i) = get_value(n, i)
    <3>1. m.cells[i + 1] = n.cells[i + 1]
      BY <1>1, <2>1, <2>2
    <3> QED BY <3>1 DEF get_key, get_value
  <2>3. m.cells[f + 1] = cell
    BY <1>6, <2>1
  <2>4. ASSUME NEW i \in 1 .. N, i > f
        PROVE  get_key(m, i) = get_key(n, i - 1) /\ get_value(m, i) = get_value(n, i - 1)
    <3>1. m.cells[i + 1] = n.cells[(i - 1) + 1]
      BY <1>1, <1>6, <2>1, <2>4
    <3> QED BY <3>1 DEF get_key, get_value
  <2> QED BY <1>3, <2>2, <2>3, <2>4 DEF get_key, get_value
<1>10. m.type = n.type /\ m.root = n.root /\ m.link = n.link
  <2>1. n = [type |-> n.type, root |-> n.root, cells |-> n.cells, link |-> n.link]
    BY <1>1 DEF NodeOf
  <2> QED BY <1>4, <2>1
<1>11. LeafIn(m, l, u)
  <2>1. m \in LeafNode
    BY <1>1, <1>4, <1>10 DEF LeafNode, S, L
  <2>2. \A i \in 0 .. N - 1 : l <= get_key(n, i) /\ get_key(n, i) < u
    BY DEF LeafIn, N
  <2>3. \A i, j \in 0 .. N - 1 : i < j => get_key(n, i) < get_key(n, j)
    BY <1>1 DEF Sorted, N
  <2>4. \A i \in 0 .. N - 1 : i >= f => k < get_key(n, i)
    BY <1>1, <1>6, <1>7
  <2>5. ASSUME NEW i \in 0 .. N PROVE l <= get_key(m, i) /\ get_key(m, i) < u
    <3>1. CASE i < f
      <4>1. i \in 0 .. N - 1
        BY <1>1, <1>6, <3>1
      <4> QED BY <1>9, <2>2, <3>1, <4>1
    <3>2. CASE i = f
      BY <1>9, <3>2
    <3>3. CASE i > f
      <4>1. i \in 1 .. N /\ i - 1 \in 0 .. N - 1
        BY <1>1, <1>6, <3>3
      <4> QED BY <1>9, <2>2, <3>3, <4>1
    <3>4. i < f \/ i = f \/ i > f
      BY <1>1, <1>6
    <3> QED BY <3>1, <3>2, <3>3, <3>4
  <2>6. ASSUME NEW i \in 0 .. N, NEW j \in 0 .. N, i < j PROVE get_key(m, i) < get_key(m, j)
    <3>1. CASE j < f
      <4>1. i \in 0 .. N - 1 /\ j \in 0 .. N - 1 /\ i < f
        BY <1>1, <1>6, <2>6, <3>1
      <4> QED BY <1>9, <2>3, <2>6, <3>1, <4>1
    <3>2. CASE j = f
      <4>1. i \in 0 .. N - 1 /\ i < f
        BY <1>1, <1>6, <2>6, <3>2
      <4> QED BY <1>6, <1>9, <3>2, <4>1
    <3>3. CASE j > f
      <4>1. j \in 1 .. N /\ j - 1 \in 0 .. N - 1 /\ j - 1 >= f
        BY <1>1, <1>6, <3>3
      <4>2. get_key(m, j) = get_key(n, j - 1) /\ k < get_key(n, j - 1) /\ get_key(n, j - 1) \in Nat
        BY <1>7, <1>9, <2>4, <3>3, <4>1
      <4>3. CASE i < f
        <5>1. i \in 0 .. N - 1
          BY <1>1, <1>6, <4>3
        <5>2. get_key(m, i) = get_key(n, i) /\ get_key(n, i) < k /\ get_key(n, i) \in Nat
          BY <1>6, <1>7, <1>9, <4>3, <5>1
        <5> QED BY <4>2, <5>2
      <4>4. CASE i = f
        BY <1>9, <4>2, <4>4
      <4>5. CASE i > f
        <5>1. i \in 1 .. N /\ i - 1 \in 0 .. N - 1 /\ i - 1 < j - 1
          BY <1>1, <1>6, <2>6, <4>1, <4>5
        <5> QED BY <1>9, <2>3, <4>1, <4>2, <4>5, <5>1
      <4>6. i < f \/ i = f \/ i > f
        BY <1>1, <1>6
      <4> QED BY <4>3, <4>4, <4>5, <4>6
    <3>4. j < f \/ j = f \/ j > f
      BY <1>1, <1>6
    <3> QED BY <3>1, <3>2, <3>3, <3>4
  <2>7. 0 .. num_cells(m) - 1 = 0 .. N
    BY <1>1, <1>8
  <2> QED BY <2>1, <2>5, <2>6, <2>7 DEF LeafIn, Sorted
<1>12. LiveIn(m) = Replaced(LiveIn(n), k, EntryOf(k, v))
  <2>1. ASSUME NEW e \in LiveIn(m) PROVE e \in Replaced(LiveIn(n), k, EntryOf(k, v))
    <3>1. PICK i \in 0 .. N : get_value(m, i) # Tombstone /\ e = EntryIn(m, i)
      BY <1>1, <1>8 DEF LiveIn
    <3>2. CASE i < f
      <4>1. i \in 0 .. N - 1
        BY <1>1, <1>6, <3>2
      <4>2. e = EntryIn(n, i) /\ get_value(n, i) # Tombstone /\ e[1] # k
        BY <1>7, <1>9, <3>1, <3>2, <4>1 DEF EntryIn
      <4> QED BY <4>1, <4>2 DEF LiveIn, Replaced, N
    <3>3. CASE i = f
      BY <1>9, <3>1, <3>3 DEF EntryIn, EntryOf, Replaced
    <3>4. CASE i > f
      <4>1. i \in 1 .. N /\ i - 1 \in 0 .. N - 1
        BY <1>1, <1>6, <3>4
      <4>2. e = EntryIn(n, i - 1) /\ get_value(n, i - 1) # Tombstone /\ e[1] # k
        BY <1>7, <1>9, <3>1, <3>4, <4>1 DEF EntryIn
      <4> QED BY <4>1, <4>2 DEF LiveIn, Replaced, N
    <3>5. i < f \/ i = f \/ i > f
      BY <1>1, <1>6
    <3> QED BY <3>2, <3>3, <3>4, <3>5
  <2>2. ASSUME NEW e \in Replaced(LiveIn(n), k, EntryOf(k, v)) PROVE e \in LiveIn(m)
    <3>0. 0 .. num_cells(m) - 1 = 0 .. N
      BY <1>1, <1>8
    <3>1. CASE e \in EntryOf(k, v)
      <4>1. v # Tombstone /\ e = <<k, v>>
        BY <3>1 DEF EntryOf
      <4>2. e = EntryIn(m, f) /\ get_value(m, f) # Tombstone
        BY <1>9, <4>1 DEF EntryIn
      <4> QED BY <1>6, <3>0, <4>2 DEF LiveIn
    <3>2. CASE e \in LiveIn(n)
      <4>1. PICK i \in 0 .. N - 1 : get_value(n, i) # Tombstone /\ e = EntryIn(n, i)
        BY <3>2 DEF LiveIn, N
      <4>2. CASE i < f
        <5>1. e = EntryIn(m, i) /\ get_value(m, i) # Tombstone /\ i \in 0 .. N
          BY <1>1, <1>9, <4>1, <4>2 DEF EntryIn
        <5> QED BY <3>0, <5>1 DEF LiveIn
      <4>3. CASE ~(i < f)
        <5>1. i + 1 \in 1 .. N /\ i + 1 > f /\ i + 1 - 1 = i
          BY <1>1, <1>6, <4>1, <4>3
        <5>2. e = EntryIn(m, i + 1) /\ get_value(m, i + 1) # Tombstone /\ i + 1 \in 0 .. N
          BY <1>1, <1>9, <4>1, <5>1 DEF EntryIn
        <5> QED BY <3>0, <5>2 DEF LiveIn
      <4> QED BY <4>2, <4>3
    <3> QED BY <2>2, <3>1, <3>2 DEF Replaced
  <2> QED BY <2>1, <2>2
<1> QED BY <1>8, <1>10, <1>11, <1>12 DEF LeafPut, m, N

-----------------------------------------------------------------------------
(* The memory the tree is written over.  Of each memory m of M, U[m] are   *)
(* the pages that were handed out or written and not marked since, and     *)
(* <<m, p, a, b>> \in H says that the caller still has a pointer to page p *)
(* and has fetched no page but a and b since it fetched p.  A fetch must   *)
(* leave nothing unmarked behind: such a page is the one fetched, or is    *)
(* held with no more than one page fetched since, and that one at most.    *)
MemoryTypes(M, U, H) ==
  /\ \A m \in M : /\ Pages(m) \in [Page -> Node] /\ m.next_page_id \in 0 .. LastPage + 1
                   /\ U[m] \subseteq Page
  /\ \A m \in M : \A p, a, b \in Page : <<m, p, a, b>> \in H => <<m, p, b, a>> \in H

(* The caller has a pointer to page p; a change of memory keeps pointers.  *)
HeldIn(H, m, p) == \E a, b \in Page : <<m, p, a, b>> \in H
KeepsHeld(H, m, f) ==
  \A p, a, b \in Page : <<m, p, a, b>> \in H => <<f, p, a, b>> \in H

(* What a new file holds, and what each method of the memory does.         *)
EmptyFileLaw(M, U) ==
  /\ EmptyFile \in M /\ U[EmptyFile] = {} /\ EmptyFile.next_page_id = 0
  /\ Pages(EmptyFile) = [p \in Page |-> Blank]

FetchLaw(M, U, H) ==
  \A m \in M, p \in Page :
    /\ p <= m.next_page_id
    /\ \A q \in U[m] \ {p} : \E a \in Page : <<m, q, p, a>> \in H
    =>
    LET f == Fetch(m, p)
    IN  /\ f \in M /\ Pages(f) = Pages(m)
        /\ f.next_page_id = IF p = m.next_page_id THEN p + 1 ELSE m.next_page_id
        /\ U[f] \subseteq U[m] \cup {q \in {p} : p = m.next_page_id}
        /\ \A a, b \in Page : <<f, p, a, b>> \in H
        /\ \A q, a \in Page : <<m, q, p, a>> \in H => <<f, q, p, a>> \in H

PutLaw(M, U, H) ==
  \A m \in M, p \in Page, c \in Node :
    HeldIn(H, m, p) =>
      LET f == Put(m, p, c)
      IN  /\ f \in M /\ Pages(f) = [Pages(m) EXCEPT ![p] = c]
          /\ f.next_page_id = m.next_page_id
          /\ U[f] \subseteq U[m] \cup {p} /\ KeepsHeld(H, m, f)

MarkLaw(M, U, H) ==
  \A m \in M, p \in Page :
    HeldIn(H, m, p) =>
      LET f == Mark(m, p)
      IN  /\ f \in M /\ Pages(f) = Pages(m) /\ f.next_page_id = m.next_page_id
          /\ U[f] \subseteq U[m] \ {p} /\ KeepsHeld(H, m, f)

NewPageLaw(M, U, H) ==
  \A m \in M :
    m.next_page_id \in Page =>
      LET f == NewPage(m)
      IN  /\ f \in M /\ Pages(f) = Pages(m) /\ f.next_page_id = m.next_page_id + 1
          /\ U[f] \subseteq U[m] \cup {m.next_page_id} /\ KeepsHeld(H, m, f)

RestartLaw(M, U) ==
  \A m \in M :
    U[m] = {} =>
      LET f == Restart(m)
      IN  /\ f \in M /\ Pages(f) = Pages(m) /\ f.next_page_id = m.next_page_id
          /\ U[f] = {}

PageMemory(M, U, H) ==
  /\ MemoryTypes(M, U, H) /\ EmptyFileLaw(M, U) /\ FetchLaw(M, U, H)
  /\ PutLaw(M, U, H) /\ MarkLaw(M, U, H) /\ NewPageLaw(M, U, H) /\ RestartLaw(M, U)

(* What of the memory an unfinished call relies on.                        *)
MemoryInv(M, U, H) ==
  /\ mem \in M
  /\ pc \in {"rest", "descend", "new_root", "parent"} => U[mem] = {}
  /\ pc \in {"link_root", "split_internal", "split_root"} => U[mem] \subseteq {cur}
  /\ pc \in {"descend", "split_internal"} => \A a, b \in Page : <<mem, cur, a, b>> \in H
  /\ pc \in {"new_root", "split_root"} => \A a \in Page : <<mem, cur, right_id, a>> \in H
  /\ pc = "link_root" => <<mem, cur, right_id, left_id>> \in H
  /\ \A p \in touched : p \in Page /\ HeldIn(H, mem, p)

(* A fetch of a page that exists changes nothing that can be read.         *)
LEMMA Fetched ==
  ASSUME NEW M, NEW U, NEW H, PageMemory(M, U, H), NEW m \in M, NEW p \in Page,
         p < m.next_page_id, \A q \in U[m] \ {p} : \E a \in Page : <<m, q, p, a>> \in H
  PROVE  /\ Fetch(m, p) \in M /\ Pages(Fetch(m, p)) = Pages(m)
         /\ Fetch(m, p).next_page_id = m.next_page_id /\ U[Fetch(m, p)] \subseteq U[m]
         /\ \A a, b \in Page : <<Fetch(m, p), p, a, b>> \in H
         /\ \A q, a \in Page : <<m, q, p, a>> \in H => <<Fetch(m, p), q, p, a>> \in H
<1>1. m.next_page_id \in Nat /\ p \in Nat
  BY LastPageAssumption DEF PageMemory, MemoryTypes, Page
<1>2. p <= m.next_page_id /\ p # m.next_page_id
  BY <1>1
<1> QED BY <1>2 DEF PageMemory, FetchLaw

(* A new page.                                                             *)
LEMMA FetchedNew ==
  ASSUME NEW M, NEW U, NEW H, PageMemory(M, U, H), NEW m \in M, NEW p,
         p = m.next_page_id, p \in Page,
         \A q \in U[m] \ {p} : \E a \in Page : <<m, q, p, a>> \in H
  PROVE  /\ FetchNew(m) \in M /\ Pages(FetchNew(m)) = Pages(m)
         /\ FetchNew(m).next_page_id = p + 1 /\ U[FetchNew(m)] \subseteq U[m] \cup {p}
         /\ \A a, b \in Page : <<FetchNew(m), p, a, b>> \in H
         /\ \A q, a \in Page : <<m, q, p, a>> \in H => <<FetchNew(m), q, p, a>> \in H
<1> DEFINE n == NewPage(m)
           f == Fetch(n, p)
<1>1. /\ n \in M /\ Pages(n) = Pages(m) /\ n.next_page_id = p + 1
      /\ U[n] \subseteq U[m] \cup {p} /\ KeepsHeld(H, m, n) /\ U[m] \subseteq Page
  BY DEF PageMemory, NewPageLaw, MemoryTypes
<1>2. FetchNew(m) = f
  BY DEF FetchNew
<1> HIDE DEF n
<1>3. p < n.next_page_id
  BY <1>1, LastPageAssumption DEF Page
<1>4. ASSUME NEW q \in U[n] \ {p} PROVE \E a \in Page : <<n, q, p, a>> \in H
  <2>1. q \in U[m] \ {p} /\ q \in Page
    BY <1>1
  <2>2. PICK a \in Page : <<m, q, p, a>> \in H
    BY <2>1
  <2> QED BY <1>1, <2>1, <2>2 DEF KeepsHeld
<1>5. /\ f \in M /\ Pages(f) = Pages(n) /\ f.next_page_id = n.next_page_id /\ U[f] \subseteq U[n]
      /\ \A a, b \in Page : <<f, p, a, b>> \in H
      /\ \A q, a \in Page : <<n, q, p, a>> \in H => <<f, q, p, a>> \in H
  BY ONLY PageMemory(M, U, H), <1>1, <1>3, <1>4, p \in Page, Fetched
<1>6. \A q, a \in Page : <<m, q, p, a>> \in H => <<f, q, p, a>> \in H
  BY <1>1, <1>5 DEF KeepsHeld
<1> HIDE DEF f
<1> QED BY <1>1, <1>2, <1>5, <1>6

(* A page that is written through a pointer the caller has, and marked.    *)
LEMMA PutMarked ==
  ASSUME NEW M, NEW U, NEW H, PageMemory(M, U, H), NEW m \in M, NEW p \in Page,
         NEW c \in Node, HeldIn(H, m, p)
  PROVE  LET f == Put(m, p, c)
             g == Mark(f, p)
         IN  /\ f \in M /\ Pages(f) = [Pages(m) EXCEPT ![p] = c]
             /\ f.next_page_id = m.next_page_id
             /\ U[f] \subseteq U[m] \cup {p} /\ KeepsHeld(H, m, f)
             /\ g \in M /\ Pages(g) = [Pages(m) EXCEPT ![p] = c]
             /\ g.next_page_id = m.next_page_id
             /\ U[g] \subseteq U[m] \ {p} /\ KeepsHeld(H, m, g)
<1> DEFINE f == Put(m, p, c)
           g == Mark(f, p)
<1>1. /\ f \in M /\ Pages(f) = [Pages(m) EXCEPT ![p] = c]
      /\ f.next_page_id = m.next_page_id
      /\ U[f] \subseteq U[m] \cup {p} /\ KeepsHeld(H, m, f)
  BY DEF PageMemory, PutLaw
<1> HIDE DEF f
<1>2. HeldIn(H, f, p)
  BY <1>1 DEF KeepsHeld, HeldIn
<1>3. /\ g \in M /\ Pages(g) = Pages(f) /\ g.next_page_id = f.next_page_id
      /\ U[g] \subseteq U[f] \ {p} /\ KeepsHeld(H, f, g)
  BY <1>1, <1>2 DEF PageMemory, MarkLaw
<1>4. KeepsHeld(H, m, g)
  BY <1>1, <1>3 DEF KeepsHeld
<1> HIDE DEF g
<1> QED BY <1>1, <1>3, <1>4 DEF f, g

(* The same, before it is marked.                                          *)
LEMMA PutUnmarked ==
  ASSUME NEW M, NEW U, NEW H, PageMemory(M, U, H), NEW m \in M, NEW p \in Page,
         NEW c \in Node, HeldIn(H, m, p)
  PROVE  /\ Put(m, p, c) \in M /\ Pages(Put(m, p, c)) = [Pages(m) EXCEPT ![p] = c]
         /\ Put(m, p, c).next_page_id = m.next_page_id
         /\ U[Put(m, p, c)] \subseteq U[m] \cup {p} /\ KeepsHeld(H, m, Put(m, p, c))
BY DEF PageMemory, PutLaw

(* A page that is held stays so while no other is fetched.                 *)
LEMMA StillHeld ==
  ASSUME NEW H, NEW m, NEW f, KeepsHeld(H, m, f), NEW p \in Page, HeldIn(H, m, p)
  PROVE  HeldIn(H, f, p)
BY DEF KeepsHeld, HeldIn

(* What each step makes of the memory: which pages it changes, that those  *)
(* it works with are held, and that none is left unmarked.                 *)
LEMMA CallMemory ==
  ASSUME NEW M, NEW U, NEW H, PageMemory(M, U, H), MemoryInv(M, U, H),
         0 < mem.next_page_id, NEW c, Call(c)
  PROVE  MemoryInv(M, U, H)' /\ Tree' = Tree /\ mem'.next_page_id = mem.next_page_id
<1>1. mem \in M /\ U[mem] = {} /\ 0 \in Page
  BY LastPageAssumption DEF MemoryInv, Call, Page
<1>2. /\ pc' = "descend" /\ mem' = Fetch(mem, 0) /\ cur' = 0 /\ touched' = {}
  BY DEF Call, root_page_id
<1>3. /\ Fetch(mem, 0) \in M /\ Pages(Fetch(mem, 0)) = Pages(mem)
      /\ Fetch(mem, 0).next_page_id = mem.next_page_id /\ U[Fetch(mem, 0)] \subseteq U[mem]
      /\ \A a, b \in Page : <<Fetch(mem, 0), 0, a, b>> \in H
  BY ONLY PageMemory(M, U, H), <1>1, 0 < mem.next_page_id, Fetched
<1> QED BY <1>1, <1>2, <1>3 DEF MemoryInv, Tree

(* A restart and the fetch of the root leave the pages as they were.       *)
LEMMA ReopenMemory ==
  ASSUME NEW M, NEW U, NEW H, PageMemory(M, U, H), MemoryInv(M, U, H),
         0 < mem.next_page_id, Reopen
  PROVE  MemoryInv(M, U, H)' /\ Tree' = Tree /\ mem'.next_page_id = mem.next_page_id
<1> DEFINE m == Restart(mem)
           f == Fetch(m, 0)
<1>1. mem \in M /\ U[mem] = {} /\ 0 \in Page
  BY LastPageAssumption DEF MemoryInv, Reopen, Page
<1>2. /\ pc = "rest" /\ pc' = "rest" /\ mem' = f /\ touched' = {}
  BY DEF Reopen, root_page_id
<1>3. m \in M /\ Pages(m) = Pages(mem) /\ m.next_page_id = mem.next_page_id /\ U[m] = {}
  BY <1>1 DEF PageMemory, RestartLaw
<1> HIDE DEF m
<1>4. 0 < m.next_page_id
  BY <1>3
<1>5. /\ f \in M /\ Pages(f) = Pages(m)
      /\ f.next_page_id = m.next_page_id /\ U[f] \subseteq U[m]
  BY ONLY PageMemory(M, U, H), <1>1, <1>3, <1>4, Fetched
<1> HIDE DEF f
<1> QED BY <1>1, <1>2, <1>3, <1>5 DEF MemoryInv, Tree

(* The memory after one fetch of a descent: the pages are the same, and    *)
(* the caller holds the page it fetched.                                   *)
LEMMA DescendMemory ==
  ASSUME NEW M, NEW U, NEW H, PageMemory(M, U, H), MemoryInv(M, U, H),
         NEW p \in Page, p < mem.next_page_id,
         p = Children(node)[child_slot(node, call.key) + 1], Descend
  PROVE  MemoryInv(M, U, H)' /\ Tree' = Tree /\ mem'.next_page_id = mem.next_page_id
<1>1. mem \in M /\ U[mem] = {}
  BY DEF MemoryInv, Descend
<1>2. /\ pc' = "descend" /\ mem' = Fetch(mem, p) /\ cur' = p /\ touched' = {}
  BY DEF Descend
<1>3. /\ Fetch(mem, p) \in M /\ Pages(Fetch(mem, p)) = Pages(mem)
      /\ Fetch(mem, p).next_page_id = mem.next_page_id /\ U[Fetch(mem, p)] \subseteq U[mem]
      /\ \A a, b \in Page : <<Fetch(mem, p), p, a, b>> \in H
  BY ONLY PageMemory(M, U, H), <1>1, p \in Page, p < mem.next_page_id, Fetched
<1> QED BY <1>1, <1>2, <1>3 DEF MemoryInv, Tree

(* A call that reads its leaf and returns.                                 *)
LEMMA ReadMemory ==
  ASSUME NEW M, NEW U, NEW H, MemoryInv(M, U, H), cur \in Page,
         pc = "descend", pc' = "rest", touched' = {cur}, UNCHANGED mem
  PROVE  MemoryInv(M, U, H)' /\ Tree' = Tree /\ mem'.next_page_id = mem.next_page_id
BY DEF MemoryInv, Tree, HeldIn

(* A call that writes its leaf and returns.                                *)
LEMMA WriteMemory ==
  ASSUME NEW M, NEW U, NEW H, PageMemory(M, U, H), MemoryInv(M, U, H), cur \in Page,
         NEW n \in Node, pc = "descend", pc' = "rest", touched' = {cur},
         mem' = Mark(Put(mem, cur, n), cur)
  PROVE  /\ MemoryInv(M, U, H)' /\ mem'.next_page_id = mem.next_page_id
         /\ Tree' = [Tree EXCEPT ![cur] = n]
<1>1. mem \in M /\ U[mem] = {} /\ HeldIn(H, mem, cur)
  BY DEF MemoryInv, HeldIn
<1>2. /\ mem' \in M /\ Pages(mem') = [Pages(mem) EXCEPT ![cur] = n]
      /\ mem'.next_page_id = mem.next_page_id
      /\ U[mem'] \subseteq U[mem] \ {cur} /\ KeepsHeld(H, mem, mem')
  BY ONLY PageMemory(M, U, H), <1>1, cur \in Page, n \in Node,
          mem' = Mark(Put(mem, cur, n), cur), PutMarked
<1>3. HeldIn(H, mem', cur)
  BY <1>1, <1>2 DEF HeldIn, KeepsHeld
<1> QED BY <1>1, <1>2, <1>3 DEF MemoryInv, Tree

(* The memory after SplitLeaf meets what the next step relies on, and the  *)
(* pages are those of the tree with the node or nodes it writes.           *)
LEMMA SplitLeafMemory ==
  ASSUME NEW M, NEW U, NEW H, PageMemory(M, U, H), MemoryInv(M, U, H), cur \in Page,
         NEW new, new = mem.next_page_id, new # cur, SplitLeaf,
         NEW left, NEW right, left \in Node, right \in Node,
         left = split_left(node, call.key, call.val, new),
         right = split_right(node, call.key, call.val)
  PROVE  /\ MemoryInv(M, U, H)' /\ mem'.next_page_id = mem.next_page_id + 1
         /\ Tree' = [Tree EXCEPT ![cur] = left, ![new] = right]
<1> DEFINE f == FetchNew(mem)
           m1 == Put(f, cur, left)
           m2 == Put(m1, new, right)
           m3 == Mark(m2, cur)
           m4 == Mark(m3, new)
<1>1. /\ mem \in M /\ U[mem] = {} /\ new \in Page /\ pc = "descend"
      /\ \A a, b \in Page : <<mem, cur, a, b>> \in H
  BY DEF MemoryInv, SplitLeaf, AtLeaf, Room
<1>2. /\ mem' = m4 /\ touched' = {cur, new} /\ cur' = cur /\ right_id' = new
      /\ pc' \in {"new_root", "parent"}
  BY DEF SplitLeaf
<1>3. /\ f \in M /\ Pages(f) = Pages(mem)
      /\ f.next_page_id = new + 1 /\ U[f] \subseteq U[mem] \cup {new}
      /\ \A a, b \in Page : <<f, new, a, b>> \in H
      /\ \A q, a \in Page : <<mem, q, new, a>> \in H => <<f, q, new, a>> \in H
  BY ONLY PageMemory(M, U, H), <1>1, new = mem.next_page_id, FetchedNew
<1> HIDE DEF f
<1>4. (\A a \in Page : <<f, cur, new, a>> \in H) /\ HeldIn(H, f, cur) /\ HeldIn(H, f, new)
  BY <1>1, <1>3 DEF HeldIn
<1>5. /\ m1 \in M /\ Pages(m1) = [Pages(f) EXCEPT ![cur] = left]
      /\ m1.next_page_id = f.next_page_id /\ U[m1] \subseteq U[f] \cup {cur} /\ KeepsHeld(H, f, m1)
  BY <1>3, <1>4 DEF PageMemory, PutLaw
<1> HIDE DEF m1
<1>6. m1 \in M /\ new \in Page /\ HeldIn(H, m1, new)
  BY <1>1, <1>4, <1>5, StillHeld
<1>7. /\ m2 \in M /\ Pages(m2) = [Pages(m1) EXCEPT ![new] = right]
      /\ m2.next_page_id = m1.next_page_id
      /\ U[m2] \subseteq U[m1] \cup {new} /\ KeepsHeld(H, m1, m2)
  BY ONLY PageMemory(M, U, H), right \in Node, <1>6, PutUnmarked DEF m2
<1> HIDE DEF m2
<1>8. HeldIn(H, m2, cur)
  BY <1>4, <1>5, <1>7, StillHeld
<1>9. /\ m3 \in M /\ Pages(m3) = Pages(m2) /\ m3.next_page_id = m2.next_page_id
      /\ U[m3] \subseteq U[m2] \ {cur} /\ KeepsHeld(H, m2, m3)
  BY <1>7, <1>8 DEF PageMemory, MarkLaw
<1> HIDE DEF m3
<1>10. HeldIn(H, m3, new)
  BY <1>1, <1>6, <1>7, <1>9, StillHeld
<1>11. /\ m4 \in M /\ Pages(m4) = Pages(m3) /\ m4.next_page_id = m3.next_page_id
       /\ U[m4] \subseteq U[m3] \ {new} /\ KeepsHeld(H, m3, m4)
  BY <1>1, <1>9, <1>10 DEF PageMemory, MarkLaw
<1> HIDE DEF m4
<1>12. U[m4] = {}
  BY <1>1, <1>3, <1>5, <1>7, <1>9, <1>11
<1>13. KeepsHeld(H, f, m4)
  BY <1>5, <1>7, <1>9, <1>11 DEF KeepsHeld
<1>14. \A a \in Page : <<m4, cur, new, a>> \in H
  BY <1>1, <1>4, <1>13 DEF KeepsHeld
<1>15. HeldIn(H, m4, cur) /\ HeldIn(H, m4, new)
  BY <1>1, <1>4, <1>13, StillHeld
<1>16. Pages(m4) = [Pages(mem) EXCEPT ![cur] = left, ![new] = right]
  BY <1>3, <1>5, <1>7, <1>9, <1>11
<1>17. MemoryInv(M, U, H)'
  BY <1>1, <1>2, <1>11, <1>12, <1>14, <1>15 DEF MemoryInv
<1> QED BY <1>2, <1>3, <1>5, <1>7, <1>9, <1>11, <1>16, <1>17 DEF Tree

(* A new page that is written and marked.                                  *)
LEMMA NewPageWritten ==
  ASSUME NEW M, NEW U, NEW H, PageMemory(M, U, H), NEW m \in M, NEW p,
         p = m.next_page_id, p \in Page, NEW c \in Node,
         \A q \in U[m] \ {p} : \E a \in Page : <<m, q, p, a>> \in H
  PROVE  LET f == Mark(Put(FetchNew(m), p, c), p)
         IN  /\ f \in M /\ Pages(f) = [Pages(m) EXCEPT ![p] = c]
             /\ f.next_page_id = p + 1 /\ U[f] \subseteq U[m]
             /\ \A a, b \in Page : <<f, p, a, b>> \in H
             /\ \A q, a \in Page : <<m, q, p, a>> \in H => <<f, q, p, a>> \in H
<1> DEFINE n == FetchNew(m)
           f == Mark(Put(n, p, c), p)
<1>1. /\ n \in M /\ Pages(n) = Pages(m)
      /\ n.next_page_id = p + 1 /\ U[n] \subseteq U[m] \cup {p}
      /\ \A a, b \in Page : <<n, p, a, b>> \in H
      /\ \A q, a \in Page : <<m, q, p, a>> \in H => <<n, q, p, a>> \in H
  BY FetchedNew
<1> HIDE DEF n
<1>2. n \in M /\ p \in Page /\ c \in Node /\ HeldIn(H, n, p)
  BY <1>1 DEF HeldIn
<1>3. /\ f \in M /\ Pages(f) = [Pages(n) EXCEPT ![p] = c] /\ f.next_page_id = n.next_page_id
      /\ U[f] \subseteq U[n] \ {p} /\ KeepsHeld(H, n, f)
  BY ONLY PageMemory(M, U, H), <1>2, PutMarked
<1> HIDE DEF f
<1>4. \A a, b \in Page : <<f, p, a, b>> \in H
  BY <1>1, <1>2, <1>3 DEF KeepsHeld
<1>5. \A q, a \in Page : <<m, q, p, a>> \in H => <<f, q, p, a>> \in H
  BY <1>1, <1>2, <1>3 DEF KeepsHeld
<1> QED BY <1>1, <1>3, <1>4, <1>5 DEF f, n

(* The memory after NewRootCopy meets what the next step relies on, and    *)
(* the pages are those of the tree with the node or nodes it writes.       *)
LEMMA NewRootCopyMemory ==
  ASSUME NEW M, NEW U, NEW H, PageMemory(M, U, H), MemoryInv(M, U, H),
         cur \in Page, right_id \in Page,
         NEW new, new = mem.next_page_id, NewRootCopy,
         NEW copy \in Node, copy = [node EXCEPT !.root = FALSE], NEW stub \in Node,
         stub = [node EXCEPT !.type = "internal", !.root = TRUE, !.cells = SubSeq(@, 1, 1)]
  PROVE  /\ MemoryInv(M, U, H)' /\ mem'.next_page_id = mem.next_page_id + 1
         /\ Tree' = [Tree EXCEPT ![new] = copy, ![cur] = stub]
<1> DEFINE m == Mark(Put(FetchNew(mem), new, copy), new)
<1>1. /\ mem \in M /\ U[mem] = {} /\ new \in Page
      /\ \A a \in Page : <<mem, cur, right_id, a>> \in H
  BY DEF MemoryInv, NewRootCopy, Room
<1>2. /\ mem' = Put(m, cur, stub) /\ touched' = {cur, new} /\ cur' = cur
      /\ right_id' = right_id /\ left_id' = new /\ pc' = "link_root"
  BY DEF NewRootCopy
<1>3. /\ m \in M /\ Pages(m) = [Pages(mem) EXCEPT ![new] = copy]
      /\ m.next_page_id = new + 1 /\ U[m] \subseteq U[mem]
      /\ \A a, b \in Page : <<m, new, a, b>> \in H
      /\ \A q, a \in Page : <<mem, q, new, a>> \in H => <<m, q, new, a>> \in H
  BY ONLY PageMemory(M, U, H), <1>1, new = mem.next_page_id, copy \in Node, NewPageWritten
<1> HIDE DEF m
<1>4. <<mem, cur, new, right_id>> \in H
  BY <1>1 DEF PageMemory, MemoryTypes
<1>5. <<m, cur, right_id, new>> \in H
  <2>1. <<m, cur, new, right_id>> \in H
    BY <1>1, <1>3, <1>4
  <2> QED BY <1>1, <1>3, <2>1 DEF PageMemory, MemoryTypes
<1>6. m \in M /\ cur \in Page /\ HeldIn(H, m, cur) /\ HeldIn(H, m, new)
  BY <1>1, <1>3, <1>5 DEF HeldIn
<1>7. /\ mem' \in M /\ Pages(mem') = [Pages(m) EXCEPT ![cur] = stub]
      /\ mem'.next_page_id = m.next_page_id
      /\ U[mem'] \subseteq U[m] \cup {cur} /\ KeepsHeld(H, m, mem')
  <2>1. mem' = Put(m, cur, stub)
    BY <1>2
  <2> QED BY ONLY PageMemory(M, U, H), <1>6, <2>1, stub \in Node, PutUnmarked
<1>8. HeldIn(H, mem', cur) /\ HeldIn(H, mem', new) /\ <<mem', cur, right_id, new>> \in H
  <2>1. HeldIn(H, mem', cur) /\ HeldIn(H, mem', new)
    BY <1>1, <1>6, <1>7, StillHeld
  <2>2. <<mem', cur, right_id, new>> \in H
    BY <1>1, <1>5, <1>7 DEF KeepsHeld
  <2> QED BY <2>1, <2>2
<1>9. MemoryInv(M, U, H)'
  BY <1>1, <1>2, <1>3, <1>7, <1>8 DEF MemoryInv
<1> QED BY <1>3, <1>7, <1>9 DEF Tree

(* The memory after NewRootLink meets what the next step relies on, and    *)
(* the pages are those of the tree with the node or nodes it writes.       *)
LEMMA NewRootLinkMemory ==
  ASSUME NEW M, NEW U, NEW H, PageMemory(M, U, H), MemoryInv(M, U, H),
         cur \in Page, right_id \in Page, left_id \in Page, right_id < mem.next_page_id,
         NewRootLink, NEW root \in Node,
         root = Internal(TRUE, <<get_key(Tree[right_id], 0)>>, <<left_id, right_id>>)
  PROVE  /\ MemoryInv(M, U, H)' /\ mem'.next_page_id = mem.next_page_id
         /\ Tree' = [Tree EXCEPT ![cur] = root]
<1> DEFINE m == Fetch(mem, right_id)
<1>1. /\ mem \in M /\ U[mem] \subseteq {cur} /\ <<mem, cur, right_id, left_id>> \in H
  BY DEF MemoryInv, NewRootLink
<1>2. \A q \in U[mem] \ {right_id} : \E a \in Page : <<mem, q, right_id, a>> \in H
  BY <1>1
<1>3. /\ m \in M /\ Pages(m) = Pages(mem)
      /\ m.next_page_id = mem.next_page_id /\ U[m] \subseteq U[mem]
      /\ \A a, b \in Page : <<m, right_id, a, b>> \in H
      /\ \A q, a \in Page : <<mem, q, right_id, a>> \in H => <<m, q, right_id, a>> \in H
  BY ONLY PageMemory(M, U, H), <1>1, <1>2, right_id \in Page, right_id < mem.next_page_id, Fetched
<1>4. /\ mem' = Mark(Put(m, cur, root), cur) /\ touched' = {cur, right_id} /\ pc' = "rest"
  <2>1. Pages(Fetch(mem, right_id)) = Tree
    BY <1>3 DEF Tree
  <2> QED BY <2>1 DEF NewRootLink, Return
<1> HIDE DEF m
<1>5. m \in M /\ cur \in Page /\ HeldIn(H, m, cur) /\ HeldIn(H, m, right_id)
  BY <1>1, <1>3 DEF HeldIn
<1>6. /\ mem' \in M /\ Pages(mem') = [Pages(m) EXCEPT ![cur] = root]
      /\ mem'.next_page_id = m.next_page_id
      /\ U[mem'] \subseteq U[m] \ {cur} /\ KeepsHeld(H, m, mem')
  <2>1. mem' = Mark(Put(m, cur, root), cur)
    BY <1>4
  <2> QED BY ONLY PageMemory(M, U, H), <1>5, <2>1, root \in Node, PutMarked
<1>7. HeldIn(H, mem', cur) /\ HeldIn(H, mem', right_id)
  BY <1>5, <1>6, StillHeld
<1>8. U[mem'] = {}
  BY <1>1, <1>3, <1>6
<1>9. MemoryInv(M, U, H)'
  BY <1>4, <1>6, <1>7, <1>8 DEF MemoryInv
<1> QED BY <1>3, <1>6, <1>9 DEF Tree

(* The memory after the parent was fetched and one page written.           *)
LEMMA ParentMemory ==
  ASSUME NEW M, NEW U, NEW H, PageMemory(M, U, H), MemoryInv(M, U, H), pc = "parent",
         NEW p \in Page, p < mem.next_page_id, touched' = {p}, NEW n \in Node,
         \/ mem' = Mark(Put(Fetch(mem, p), p, n), p) /\ pc' = "rest"
         \/ mem' = Put(Fetch(mem, p), p, n) /\ pc' = "split_internal" /\ cur' = p
  PROVE  /\ MemoryInv(M, U, H)' /\ mem'.next_page_id = mem.next_page_id
         /\ Tree' = [Tree EXCEPT ![p] = n]
<1> DEFINE m == Fetch(mem, p)
<1>1. mem \in M /\ U[mem] = {}
  BY DEF MemoryInv
<1>2. /\ m \in M /\ Pages(m) = Pages(mem)
      /\ m.next_page_id = mem.next_page_id /\ U[m] \subseteq U[mem]
      /\ \A a, b \in Page : <<m, p, a, b>> \in H
  BY ONLY PageMemory(M, U, H), <1>1, p \in Page, p < mem.next_page_id, Fetched
<1>3. \/ mem' = Mark(Put(m, p, n), p) /\ pc' = "rest"
      \/ mem' = Put(m, p, n) /\ pc' = "split_internal" /\ cur' = p
  OBVIOUS
<1> HIDE DEF m
<1>4. m \in M /\ p \in Page /\ HeldIn(H, m, p)
  BY <1>2 DEF HeldIn
<1>5. CASE mem' = Mark(Put(m, p, n), p) /\ pc' = "rest"
  <2>1. mem' = Mark(Put(m, p, n), p)
    BY <1>5
  <2>2. /\ mem' \in M /\ Pages(mem') = [Pages(m) EXCEPT ![p] = n]
        /\ mem'.next_page_id = m.next_page_id
        /\ U[mem'] \subseteq U[m] \ {p} /\ KeepsHeld(H, m, mem')
    BY ONLY PageMemory(M, U, H), <1>4, <2>1, n \in Node, PutMarked
  <2>3. HeldIn(H, mem', p) /\ U[mem'] = {}
    BY <1>1, <1>2, <1>4, <2>2, StillHeld
  <2>4. MemoryInv(M, U, H)'
    BY <1>5, <2>2, <2>3 DEF MemoryInv
  <2> QED BY <1>2, <2>2, <2>4 DEF Tree
<1>6. CASE mem' = Put(m, p, n) /\ pc' = "split_internal" /\ cur' = p
  <2>1. mem' = Put(m, p, n)
    BY <1>6
  <2>2. /\ mem' \in M /\ Pages(mem') = [Pages(m) EXCEPT ![p] = n]
        /\ mem'.next_page_id = m.next_page_id
        /\ U[mem'] \subseteq U[m] \cup {p} /\ KeepsHeld(H, m, mem')
    BY ONLY PageMemory(M, U, H), <1>4, <2>1, n \in Node, PutUnmarked
  <2>3. HeldIn(H, mem', p) /\ U[mem'] \subseteq {p}
    BY <1>1, <1>2, <1>4, <2>2, StillHeld
  <2>4. \A a, b \in Page : <<mem', p, a, b>> \in H
    BY <1>2, <2>2 DEF KeepsHeld
  <2>5. MemoryInv(M, U, H)'
    BY <1>6, <2>2, <2>3, <2>4 DEF MemoryInv
  <2> QED BY <1>2, <2>2, <2>5 DEF Tree
<1> QED BY <1>3, <1>5, <1>6

(* The memory after SplitInternal meets what the next step relies on, and  *)
(* the pages are those of the tree with the node or nodes it writes.       *)
LEMMA SplitInternalMemory ==
  ASSUME NEW M, NEW U, NEW H, PageMemory(M, U, H), MemoryInv(M, U, H), cur \in Page,
         NEW new, new = mem.next_page_id, SplitInternal, internal_right(over) \in Node
  PROVE  /\ MemoryInv(M, U, H)' /\ mem'.next_page_id = mem.next_page_id + 1
         /\ Tree' = [Tree EXCEPT ![new] = internal_right(over)]
<1> DEFINE n == internal_right(over)
           m == Mark(Put(FetchNew(mem), new, n), new)
<1>1. /\ mem \in M /\ U[mem] \subseteq {cur} /\ new \in Page /\ n \in Node
      /\ \A a, b \in Page : <<mem, cur, a, b>> \in H
  BY DEF MemoryInv, SplitInternal, Room
<1>2. \A q \in U[mem] \ {new} : \E a \in Page : <<mem, q, new, a>> \in H
  BY <1>1
<1>3. /\ right_id' = new /\ cur' = cur
      /\ \/ mem' = m /\ touched' = {new} /\ pc' = "split_root"
         \/ mem' = Mark(m, cur) /\ touched' = {new, cur} /\ pc' = "parent"
  BY DEF SplitInternal
<1> HIDE DEF n
<1>4. /\ m \in M /\ Pages(m) = [Pages(mem) EXCEPT ![new] = n]
      /\ m.next_page_id = new + 1 /\ U[m] \subseteq U[mem]
      /\ \A a, b \in Page : <<m, new, a, b>> \in H
      /\ \A q, a \in Page : <<mem, q, new, a>> \in H => <<m, q, new, a>> \in H
  BY ONLY PageMemory(M, U, H), <1>1, <1>2, new = mem.next_page_id, NewPageWritten
<1> HIDE DEF m
<1>5. (\A a \in Page : <<m, cur, new, a>> \in H) /\ HeldIn(H, m, cur) /\ HeldIn(H, m, new)
  BY <1>1, <1>4 DEF HeldIn
<1>6. CASE mem' = m /\ touched' = {new} /\ pc' = "split_root"
  <2>1. MemoryInv(M, U, H)'
    BY <1>1, <1>3, <1>4, <1>5, <1>6 DEF MemoryInv
  <2> QED BY <1>4, <1>6, <2>1 DEF Tree, n
<1>7. CASE mem' = Mark(m, cur) /\ touched' = {new, cur} /\ pc' = "parent"
  <2>1. /\ mem' \in M /\ Pages(mem') = Pages(m) /\ mem'.next_page_id = m.next_page_id
        /\ U[mem'] \subseteq U[m] \ {cur} /\ KeepsHeld(H, m, mem')
    <3>1. mem' = Mark(m, cur) /\ m \in M /\ HeldIn(H, m, cur)
      BY <1>4, <1>5, <1>7
    <3> QED BY ONLY PageMemory(M, U, H), <3>1, cur \in Page DEF PageMemory, MarkLaw
  <2>2. HeldIn(H, mem', new) /\ HeldIn(H, mem', cur) /\ U[mem'] = {}
    BY <1>1, <1>4, <1>5, <2>1, StillHeld
  <2>3. MemoryInv(M, U, H)'
    BY <1>1, <1>7, <2>1, <2>2 DEF MemoryInv
  <2> QED BY <1>4, <2>1, <2>3 DEF Tree, n
<1> QED BY <1>3, <1>6, <1>7

(* The memory after SplitRoot meets what the next step relies on, and the  *)
(* pages are those of the tree with the node or nodes it writes.           *)
LEMMA SplitRootMemory ==
  ASSUME NEW M, NEW U, NEW H, PageMemory(M, U, H), MemoryInv(M, U, H),
         cur \in Page, right_id \in Page, node \in Node,
         NEW new, new = mem.next_page_id, SplitRoot, NEW root \in Node,
         root = Internal(TRUE, <<sep_key>>, <<new, right_id>>)
  PROVE  /\ MemoryInv(M, U, H)' /\ mem'.next_page_id = mem.next_page_id + 1
         /\ Tree' = [Tree EXCEPT ![new] = node, ![cur] = root]
<1> DEFINE m == Mark(Put(FetchNew(mem), new, node), new)
<1>1. /\ mem \in M /\ U[mem] \subseteq {cur} /\ new \in Page
      /\ \A a \in Page : <<mem, cur, right_id, a>> \in H
  BY DEF MemoryInv, SplitRoot, Room
<1>2. <<mem, cur, new, right_id>> \in H
  BY <1>1 DEF PageMemory, MemoryTypes
<1>3. \A q \in U[mem] \ {new} : \E a \in Page : <<mem, q, new, a>> \in H
  BY <1>1, <1>2
<1>4. mem' = Mark(Put(m, cur, root), cur) /\ touched' = {new, cur} /\ pc' = "rest"
  BY DEF SplitRoot, Return
<1>5. /\ m \in M /\ Pages(m) = [Pages(mem) EXCEPT ![new] = node]
      /\ m.next_page_id = new + 1 /\ U[m] \subseteq U[mem]
      /\ \A a, b \in Page : <<m, new, a, b>> \in H
      /\ \A q, a \in Page : <<mem, q, new, a>> \in H => <<m, q, new, a>> \in H
  BY ONLY PageMemory(M, U, H), <1>1, <1>3, new = mem.next_page_id, node \in Node, NewPageWritten
<1> HIDE DEF m
<1>6. m \in M /\ cur \in Page /\ HeldIn(H, m, cur) /\ HeldIn(H, m, new)
  BY <1>1, <1>2, <1>5 DEF HeldIn
<1>7. /\ mem' \in M /\ Pages(mem') = [Pages(m) EXCEPT ![cur] = root]
      /\ mem'.next_page_id = m.next_page_id
      /\ U[mem'] \subseteq U[m] \ {cur} /\ KeepsHeld(H, m, mem')
  <2>1. mem' = Mark(Put(m, cur, root), cur)
    BY <1>4
  <2> QED BY ONLY PageMemory(M, U, H), <1>6, <2>1, root \in Node, PutMarked
<1>8. HeldIn(H, mem', cur) /\ HeldIn(H, mem', new) /\ U[mem'] = {}
  BY <1>1, <1>5, <1>6, <1>7, StillHeld
<1>9. MemoryInv(M, U, H)'
  BY <1>1, <1>4, <1>7, <1>8 DEF MemoryInv
<1> QED BY <1>5, <1>7, <1>9 DEF Tree

-----------------------------------------------------------------------------
(* The way from the root to the page at work.                              *)
Ancestors == Seq(Page \X (0 .. MaxCells))
(* The stack anc of pages and slots leads from the root to page c.         *)
Following(anc, c, i) == IF i = Len(anc) THEN c ELSE anc[i + 1][1]
Path(V, P, h, anc, c) ==
  /\ c \in P /\ h[c] + Len(anc) = h[0]
  /\ \A i \in 1 .. Len(anc) :
       /\ anc[i][1] \in P /\ h[anc[i][1]] + i = h[0] + 1
       /\ anc[i][2] \in 0 .. num_cells(V[anc[i][1]])
       /\ Child(V[anc[i][1]], anc[i][2]) = Following(anc, c, i)

(* The last ancestor is the parent of the page; those above it are higher. *)
LEMMA PathEnds ==
  ASSUME NEW V, NEW P, NEW lo, NEW hi, NEW h, Shape(V, P, lo, hi, h),
         NEW anc \in Ancestors, NEW c, Path(V, P, h, anc, c)
  PROVE  /\ c = 0 <=> anc = <<>>
         /\ c # 0 => LET q == anc[Len(anc)][1]
                         s == anc[Len(anc)][2]
                     IN  /\ Len(anc) \in Nat \ {0} /\ q \in P /\ h[q] = h[c] + 1
                         /\ s \in 0 .. num_cells(V[q]) /\ Child(V[q], s) = c
         /\ \A i, j \in 1 .. Len(anc) : i < j => anc[i][1] # anc[j][1]
         /\ \A i \in 1 .. Len(anc) : anc[i][1] # c
<1>1. /\ Len(anc) \in Nat /\ \A x \in P : h[x] \in Nat /\ x # 0 => h[x] < h[0]
  BY ShapeFacts DEF Ancestors, Shape, Spans
<1>2. /\ c \in P /\ 0 \in P /\ h[c] + Len(anc) = h[0]
      /\ \A i \in 1 .. Len(anc) : anc[i][1] \in P /\ h[anc[i][1]] + i = h[0] + 1
  BY DEF Path, Shape, Typed
<1>3. h[c] \in Nat /\ h[0] \in Nat /\ (c # 0 => h[c] < h[0])
  BY <1>1, <1>2, ShapeFacts
<1>4. c = 0 <=> Len(anc) = 0
  BY <1>1, <1>2, <1>3
<1>5. Len(anc) = 0 <=> anc = <<>>
  BY DEF Ancestors
<1>6. ASSUME c # 0
      PROVE  LET q == anc[Len(anc)][1]
                 s == anc[Len(anc)][2]
             IN  /\ Len(anc) \in Nat \ {0} /\ q \in P /\ h[q] = h[c] + 1
                 /\ s \in 0 .. num_cells(V[q]) /\ Child(V[q], s) = c
  <2>1. Len(anc) \in 1 .. Len(anc) /\ Len(anc) \in Nat \ {0}
    BY <1>1, <1>4, <1>6
  <2>2. anc[Len(anc)][1] \in P /\ h[anc[Len(anc)][1]] + Len(anc) = h[0] + 1
    BY <1>2, <2>1
  <2>3. h[anc[Len(anc)][1]] \in Nat
    BY <2>2, ShapeFacts
  <2>4. h[anc[Len(anc)][1]] = h[c] + 1
    BY <1>2, <1>3, <2>1, <2>2, <2>3
  <2>5. /\ anc[Len(anc)][2] \in 0 .. num_cells(V[anc[Len(anc)][1]])
        /\ Child(V[anc[Len(anc)][1]], anc[Len(anc)][2]) = c
    BY <2>1 DEF Path, Following
  <2> QED BY <2>1, <2>2, <2>4, <2>5
<1>7. ASSUME NEW i \in 1 .. Len(anc), NEW j \in 1 .. Len(anc), i < j
      PROVE  anc[i][1] # anc[j][1]
  <2>1. h[anc[i][1]] + i = h[0] + 1 /\ h[anc[j][1]] + j = h[0] + 1
    BY <1>2
  <2>2. h[anc[i][1]] \in Nat /\ h[anc[j][1]] \in Nat
    BY <1>2, ShapeFacts
  <2> QED BY <1>1, <1>3, <1>7, <2>1, <2>2
<1>8. ASSUME NEW i \in 1 .. Len(anc) PROVE anc[i][1] # c
  <2>1. h[anc[i][1]] + i = h[0] + 1 /\ h[anc[i][1]] \in Nat
    BY <1>2, ShapeFacts
  <2> QED BY <1>1, <1>2, <1>3, <2>1
<1> QED BY <1>4, <1>5, <1>6, <1>7, <1>8

(* The way to the parent, when the page and its parent have changed.       *)
Popped(anc, q, t) == q = anc[Len(anc)][1] /\ t = SubSeq(anc, 1, Len(anc) - 1)

(* The stack without its top leads to the parent, in the changed pages     *)
(* too.                                                                    *)
LEMMA PathPopped ==
  ASSUME NEW V, NEW P, NEW lo, NEW hi, NEW h, Shape(V, P, lo, hi, h),
         NEW anc \in Ancestors, NEW c, Path(V, P, h, anc, c), c # 0,
         NEW W, NEW Q, NEW g, P \subseteq Q, \A x \in P : g[x] = h[x],
         NEW q, NEW t, Popped(anc, q, t),
         \A x \in P \ {c, q} : W[x] = V[x]
  PROVE  t \in Ancestors /\ Path(W, Q, g, t, q)
<1> DEFINE n == Len(anc)
<1>0. q = anc[n][1] /\ t = SubSeq(anc, 1, n - 1)
  BY DEF Popped
<1>1. /\ n \in Nat \ {0} /\ q \in P /\ h[q] = h[c] + 1
      /\ \A i, j \in 1 .. n : i < j => anc[i][1] # anc[j][1]
      /\ \A i \in 1 .. n : anc[i][1] # c
  BY ONLY Shape(V, P, lo, hi, h), anc \in Ancestors, Path(V, P, h, anc, c), c # 0,
          <1>0, PathEnds
<1>2. t \in Ancestors /\ Len(t) = n - 1 /\ \A i \in 1 .. n - 1 : t[i] = anc[i]
  <2> DEFINE S == Page \X (0 .. MaxCells)
  <2> HIDE DEF S
  <2>1. anc \in Seq(S) /\ 0 \in Nat /\ n - 1 \in Nat /\ 0 <= n - 1 /\ n - 1 <= Len(anc)
    BY <1>1 DEF Ancestors, S
  <2>a. t = SubSeq(anc, 1, n - 1)
    BY <1>0
  <2>2. /\ SubSeq(anc, 0 + 1, n - 1) \in Seq(S)
        /\ PartOf(anc, SubSeq(anc, 0 + 1, n - 1), 0, n - 1 - 0)
    BY ONLY <2>1, SubSeqIs
  <2>3. 0 + 1 = 1 /\ n - 1 - 0 = n - 1
    BY <2>1
  <2>4. t \in Seq(S) /\ PartOf(anc, t, 0, n - 1)
    BY <2>a, <2>2, <2>3
  <2> QED BY <2>1, <2>4 DEF PartOf, Ancestors, S
<1>3. /\ h[c] + n = h[0] /\ 0 \in P /\ c \in P
      /\ \A i \in 1 .. n : /\ anc[i][1] \in P /\ h[anc[i][1]] + i = h[0] + 1
                           /\ anc[i][2] \in 0 .. num_cells(V[anc[i][1]])
                           /\ Child(V[anc[i][1]], anc[i][2]) = Following(anc, c, i)
  BY DEF Path, Shape, Typed
<1>4. h[c] \in Nat /\ h[0] \in Nat
  BY <1>3, ShapeFacts
<1>a. n = Len(anc)
  OBVIOUS
<1> HIDE DEF n
<1>5. g[q] + Len(t) = g[0]
  <2>1. g[q] = h[c] + 1 /\ g[0] = h[0]
    BY <1>1, <1>3
  <2>2. n \in Nat /\ h[q] = h[c] + 1 /\ Len(t) = n - 1 /\ h[c] + n = h[0]
    BY <1>1, <1>2, <1>3
  <2> QED BY ONLY <1>4, <2>1, <2>2
<1>6. ASSUME NEW i \in 1 .. Len(t)
      PROVE  /\ t[i][1] \in Q /\ g[t[i][1]] + i = g[0] + 1
             /\ t[i][2] \in 0 .. num_cells(W[t[i][1]])
             /\ Child(W[t[i][1]], t[i][2]) = Following(t, q, i)
  <2>1. i \in 1 .. n /\ i < n /\ n \in 1 .. n /\ t[i] = anc[i] /\ i \in 1 .. n - 1
    BY <1>1, <1>2
  <2>2. anc[i][1] # q /\ anc[i][1] # c /\ anc[i][1] \in P
    <3>1. anc[n][1] = q
      BY <1>0
    <3> QED BY <1>1, <1>3, <2>1, <3>1
  <2>3. W[anc[i][1]] = V[anc[i][1]]
    BY <2>2
  <2>4. Following(t, q, i) = Following(anc, c, i)
    <3>1. CASE i = n - 1
      <4>1. i = Len(t) /\ i # n /\ i + 1 = n
        BY <1>1, <1>2, <3>1
      <4> QED BY <1>a, <1>0, <4>1 DEF Following
    <3>2. CASE i # n - 1
      <4>1. i + 1 \in 1 .. n - 1 /\ i # n /\ i # Len(t)
        BY <1>1, <1>2, <2>1, <3>2
      <4>2. t[i + 1] = anc[i + 1]
        BY <1>2, <4>1
      <4> QED BY <1>a, <4>1, <4>2 DEF Following
    <3> QED BY <3>1, <3>2
  <2> QED BY <1>3, <2>1, <2>2, <2>3, <2>4
<1>7. Path(W, Q, g, t, q)
  BY <1>1, <1>5, <1>6 DEF Path
<1> QED BY <1>2, <1>7

(* One step down.                                                          *)
LEMMA PathPushed ==
  ASSUME NEW V, NEW P, NEW lo, NEW hi, NEW h, Shape(V, P, lo, hi, h),
         NEW anc \in Ancestors, NEW c, Path(V, P, h, anc, c), h[c] > 0,
         NEW s, s \in 0 .. num_cells(V[c]), num_cells(V[c]) <= MaxCells
  PROVE  /\ Append(anc, <<c, s>>) \in Ancestors
         /\ Path(V, P, h, Append(anc, <<c, s>>), Child(V[c], s))
<1> DEFINE n == Len(anc)
           t == Append(anc, <<c, s>>)
           d == Child(V[c], s)
<1>1. /\ n \in Nat /\ c \in P /\ c \in Page /\ h[c] + n = h[0] /\ h[c] \in Nat /\ 0 \in P
      /\ h[0] \in Nat /\ num_cells(V[c]) \in Nat
      /\ \A i \in 1 .. n : /\ anc[i][1] \in P /\ h[anc[i][1]] + i = h[0] + 1
                           /\ anc[i][2] \in 0 .. num_cells(V[anc[i][1]])
                           /\ Child(V[anc[i][1]], anc[i][2]) = Following(anc, c, i)
  <2>1. c \in P /\ 0 \in P
    BY DEF Path, Shape, Typed
  <2> QED BY <2>1, ShapeFacts DEF Path, Ancestors
<1>2. d \in P /\ h[d] + 1 = h[c] /\ h[d] \in Nat
  BY <1>1, ShapeFacts
<1>3. <<c, s>> \in Page \X (0 .. MaxCells)
  BY <1>1, MaxCellsAssumption
<1>4. t \in Ancestors /\ Len(t) = n + 1 /\ t[n + 1] = <<c, s>> /\ \A i \in 1 .. n : t[i] = anc[i]
  BY <1>3 DEF Ancestors
<1> HIDE DEF n, t, d
<1>5. h[d] + Len(t) = h[0]
  <2>1. n \in Nat /\ h[c] + n = h[0] /\ h[d] + 1 = h[c] /\ h[d] \in Nat /\ Len(t) = n + 1
    BY <1>1, <1>2, <1>4
  <2> QED BY ONLY <2>1
<1>6. ASSUME NEW i \in 1 .. Len(t)
      PROVE  /\ t[i][1] \in P /\ h[t[i][1]] + i = h[0] + 1
             /\ t[i][2] \in 0 .. num_cells(V[t[i][1]])
             /\ Child(V[t[i][1]], t[i][2]) = Following(t, d, i)
  <2>1. CASE i = n + 1
    <3>1. t[i][1] = c /\ t[i][2] = s /\ Following(t, d, i) = d
      BY <1>4, <2>1 DEF Following
    <3>2. h[c] + i = h[0] + 1
      <4>1. h[c] + n = h[0] /\ h[c] \in Nat /\ n \in Nat
        BY <1>1
      <4>2. h[c] + (n + 1) = h[0] + 1
        BY ONLY <4>1
      <4> QED BY <2>1, <4>2
    <3> QED BY <1>1, <3>1, <3>2 DEF d
  <2>2. CASE i # n + 1
    <3>1. i \in 1 .. n /\ t[i] = anc[i] /\ i # Len(t)
      BY <1>1, <1>4, <2>2
    <3>2. Following(t, d, i) = Following(anc, c, i)
      <4>1. CASE i = n
        <5>1. t[i + 1][1] = c
          BY <1>4, <4>1
        <5> QED BY <3>1, <4>1, <5>1 DEF Following, n
      <4>2. CASE i # n
        <5>1. i + 1 \in 1 .. n
          BY <1>1, <3>1, <4>2
        <5> QED BY <1>4, <3>1, <4>2, <5>1 DEF Following, n
      <4> QED BY <4>1, <4>2
    <3> QED BY <1>1, <3>1, <3>2
  <2> QED BY <2>1, <2>2
<1>7. Path(V, P, h, t, d)
  BY <1>2, <1>5, <1>6 DEF Path
<1> QED BY <1>4, <1>7 DEF t, d

(* The way to a page does not go through it.                               *)
LEMMA PathKept ==
  ASSUME NEW V, NEW P, NEW lo, NEW hi, NEW h, Shape(V, P, lo, hi, h),
         NEW anc \in Ancestors, NEW c, Path(V, P, h, anc, c),
         NEW W, \A x \in P \ {c} : W[x] = V[x]
  PROVE  Path(W, P, h, anc, c)
<1>1. \A i \in 1 .. Len(anc) : anc[i][1] # c
  BY ONLY Shape(V, P, lo, hi, h), anc \in Ancestors, Path(V, P, h, anc, c), PathEnds
<1> QED BY <1>1 DEF Path

-----------------------------------------------------------------------------
(* A tree of the pages up to last, for all keys.                           *)
Good(V, last, lo, hi, h) ==
  /\ last \in Page /\ Shape(V, 0 .. last, lo, hi, h)
  /\ hi[0] = KeyLimit /\ h[0] <= last

(* The root flags of a node that is cut, and of its left half, do not      *)
(* matter.                                                                 *)
LEMMA CutSame ==
  ASSUME NEW n, NEW m, SameCells(n, m), NEW left, NEW right, NEW r, NEW sep, NEW k,
         Cut(n, left, right, r, sep, k)
  PROVE  Cut(m, left, right, r, sep, k)
BY DEF Cut, LeafCut, InternalCut, SameCells

(* Of the left half of a cut only the cells and the link matter.           *)
LEMMA CutLeftSame ==
  ASSUME NEW n, NEW left, NEW same, SameCells(left, same), NEW right, NEW r, NEW sep, NEW k,
         Cut(n, left, right, r, sep, k)
  PROVE  Cut(n, same, right, r, sep, k)
<1>1. CASE k = 0
  BY <1>1, NodeKinds DEF Cut, LeafCut, SameCells
<1>2. CASE k # 0
  BY <1>2 DEF Cut, InternalCut, SameCells
<1> QED BY <1>1, <1>2

(* A node but the root has been divided, and its parent has a place for    *)
(* the new half.                                                           *)
LEMMA ChildCommitted ==
  ASSUME NEW V, NEW last, NEW lo, NEW hi, NEW h, Good(V, last, lo, hi, h),
         NEW p, NEW r, r = last + 1, NEW sep, NEW q, NEW s, NEW W,
         Divided(V, 0 .. last, h, p, r, sep, q, s, W)
  PROVE  \E lo2, hi2, h2 :
           /\ Good(W, r, lo2, hi2, h2)
           /\ \A x \in 0 .. last : h2[x] = h[x]
           /\ LeafEntries(W, 0 .. r, h2) = LeafEntries(V, 0 .. last, h)
<1> DEFINE P == 0 .. last
           lo2 == LoAfter(P, lo, r, sep)
           hi2 == HiAfter(P, hi, p, r, sep)
           h2 == HeightAfter(P, h, p, r)
<1>1. /\ last \in Nat /\ Shape(V, P, lo, hi, h) /\ hi[0] = KeyLimit /\ h[0] <= last
      /\ r \in Page /\ r \notin P /\ 0 \in P /\ p # 0 /\ h[0] \in Nat
  <2>1. last \in Nat /\ Shape(V, P, lo, hi, h) /\ hi[0] = KeyLimit /\ h[0] <= last
    BY LastPageAssumption DEF Good, Page
  <2>2. r \in Page /\ r \notin P /\ p # 0
    BY DEF Divided
  <2>3. 0 \in P
    BY <2>1
  <2>4. h[0] \in Nat
    BY ONLY <2>1, <2>3, ShapeFacts
  <2> QED BY <2>1, <2>2, <2>3, <2>4
<1>2. P \cup {r} = 0 .. r
  BY <1>1
<1>3. h2[0] = h[0] /\ hi2[0] = hi[0] /\ \A x \in 0 .. last : h2[x] = h[x]
  BY <1>1 DEF HeightAfter, HiAfter
<1>4. Shape(W, P \cup {r}, lo2, hi2, h2)
  BY ONLY <1>1, Divided(V, P, h, p, r, sep, q, s, W), NodeDivided
<1>5. LeafEntries(W, P \cup {r}, h2) = LeafEntries(V, P, h)
  BY ONLY <1>1, Divided(V, P, h, p, r, sep, q, s, W), EntriesDivided
<1> HIDE DEF lo2, hi2, h2
<1>6. Shape(W, 0 .. r, lo2, hi2, h2) /\ LeafEntries(W, 0 .. r, h2) = LeafEntries(V, P, h)
  BY <1>2, <1>4, <1>5
<1>7. Good(W, r, lo2, hi2, h2)
  BY <1>1, <1>3, <1>6 DEF Good
<1> QED BY <1>3, <1>6, <1>7

(* Nodes W come from V by the division of the root into the new pages l    *)
(* and r, below a new root.                                                *)
RootDivided(V, last, h, l, r, sep, W) ==
  /\ l \in Page /\ r \in Page /\ l # r /\ {l, r} = {last + 1, last + 2}
  /\ W \in [Page -> Node] /\ \A x \in Page \ {0, l, r} : W[x] = V[x]
  /\ sep \in Nat /\ W[0] = Internal(TRUE, <<sep>>, <<l, r>>)
  /\ Cut(V[0], W[l], W[r], r, sep, h[0])
  /\ W[l].root = FALSE /\ W[r].root = FALSE

(* The root has been divided, and a new one is above the halves.           *)
LEMMA RootCommitted ==
  ASSUME NEW V, NEW last, NEW lo, NEW hi, NEW h, Good(V, last, lo, hi, h),
         NEW l, NEW r, NEW top, top = last + 2, NEW W, NEW sep,
         RootDivided(V, last, h, l, r, sep, W)
  PROVE  \E lo2, hi2, h2 :
           /\ Good(W, top, lo2, hi2, h2)
           /\ LeafEntries(W, 0 .. top, h2) = LeafEntries(V, 0 .. last, h)
<1> DEFINE P == 0 .. last
           Q == P \cup {l}
           one == Internal(TRUE, <<>>, <<l>>)
           old == [V[0] EXCEPT !.root = FALSE]
           X == [V EXCEPT ![l] = old, ![0] = one]
           lo1 == LoRaised(P, lo, l)
           hi1 == HiRaised(P, hi, l)
           h1 == HeightRaised(P, h, l)
           lo2 == LoAfter(Q, lo1, r, sep)
           hi2 == HiAfter(Q, hi1, l, r, sep)
           h2 == HeightAfter(Q, h1, l, r)
<1>0. /\ l \in Page /\ r \in Page /\ l # r /\ {l, r} = {last + 1, last + 2}
      /\ W \in [Page -> Node] /\ \A x \in Page \ {0, l, r} : W[x] = V[x]
      /\ sep \in Nat /\ W[0] = Internal(TRUE, <<sep>>, <<l, r>>)
      /\ Cut(V[0], W[l], W[r], r, sep, h[0])
      /\ W[l].root = FALSE /\ W[r].root = FALSE
  BY DEF RootDivided
<1> USE <1>0
<1>1. /\ last \in Nat /\ Shape(V, P, lo, hi, h) /\ hi[0] = KeyLimit /\ h[0] <= last
      /\ 0 \in P /\ h[0] \in Nat /\ l \notin P /\ r \notin Q /\ l # 0 /\ r # 0
      /\ last + 1 \in Page /\ top \in Page
      /\ V \in [Page -> Node] /\ P \subseteq Page
  <2>1. last \in Nat /\ Shape(V, P, lo, hi, h) /\ hi[0] = KeyLimit /\ h[0] <= last
    BY LastPageAssumption DEF Good, Page
  <2>2. 0 \in P /\ l \notin P /\ r \notin P /\ l # 0 /\ r # 0
    <3>1. l \in {last + 1, last + 2} /\ r \in {last + 1, last + 2}
      OBVIOUS
    <3> QED BY <2>1, <3>1
  <2>3. h[0] \in Nat
    BY ONLY <2>1, <2>2, ShapeFacts
  <2>4. last + 1 \in Page /\ top \in Page
    OBVIOUS
  <2>5. V \in [Page -> Node] /\ P \subseteq Page
    BY <2>1 DEF Shape, Typed
  <2> QED BY <2>1, <2>2, <2>3, <2>4, <2>5
<1>2. Q \cup {r} = 0 .. top
  <2>1. Q \cup {r} = P \cup {last + 1, last + 2}
    OBVIOUS
  <2>2. 0 .. top = P \cup {last + 1, last + 2}
    BY <1>1
  <2> QED BY <2>1, <2>2
<1>3. /\ one \in InternalNode /\ one.root = TRUE /\ num_cells(one) = 0 /\ Child(one, 0) = l
  <2>1. /\ <<>> \in Seq(Nat) /\ <<l>> \in Seq(Page) /\ Len(<<l>>) = Len(<<>>) + 1
        /\ Len(<<>>) = 0 /\ TRUE \in BOOLEAN
    OBVIOUS
  <2>2. one \in InternalOf(Page) /\ InternalParts(one, TRUE, <<>>, <<l>>)
    BY <2>1, InternalIs
  <2> HIDE DEF one
  <2>3. one.root = TRUE /\ num_cells(one) = 0 /\ Child(one, 0) = <<l>>[1]
    BY <2>1, <2>2 DEF InternalParts
  <2> QED BY <2>2, <2>3 DEF InternalNode
<1>4. /\ W[0] \in InternalNode /\ W[0].root = TRUE /\ num_cells(W[0]) = 1
      /\ get_key(W[0], 0) = sep /\ Child(W[0], 0) = l /\ Child(W[0], 1) = r
  <2>1. /\ <<sep>> \in Seq(Nat) /\ <<l, r>> \in Seq(Page) /\ Len(<<l, r>>) = Len(<<sep>>) + 1
        /\ Len(<<sep>>) = 1 /\ TRUE \in BOOLEAN
    OBVIOUS
  <2>2. W[0] \in InternalOf(Page) /\ InternalParts(W[0], TRUE, <<sep>>, <<l, r>>)
    <3>1. W[0] = Internal(TRUE, <<sep>>, <<l, r>>)
      OBVIOUS
    <3>2. /\ Internal(TRUE, <<sep>>, <<l, r>>) \in InternalOf(Page)
          /\ InternalParts(Internal(TRUE, <<sep>>, <<l, r>>), TRUE, <<sep>>, <<l, r>>)
      BY ONLY <2>1, InternalIs
    <3> QED BY ONLY <3>1, <3>2
  <2> DEFINE n == W[0]
             keys == <<sep>>
             children == <<l, r>>
  <2> HIDE DEF n, keys, children
  <2>3. /\ n.root = TRUE /\ num_cells(n) = 1 /\ get_key(n, 0) = keys[1]
        /\ Child(n, 0) = children[1] /\ Child(n, 1) = children[2]
    <3>1. InternalParts(n, TRUE, keys, children) /\ Len(keys) = 1
      BY <2>1, <2>2 DEF n, keys, children
    <3>2. 0 \in 0 .. 1 - 1 /\ 0 \in 0 .. 1 /\ 1 \in 0 .. 1 /\ 0 + 1 = 1 /\ 1 + 1 = 2
      OBVIOUS
    <3> QED BY <3>1, <3>2 DEF InternalParts
  <2>4. keys[1] = sep /\ children[1] = l /\ children[2] = r
    BY DEF keys, children
  <2> QED BY <2>2, <2>3, <2>4 DEF InternalNode, n
<1>5. V[0] \in LeafNode \cup InternalNode
  BY <1>1, ShapeFacts
<1>6. old.root = FALSE /\ SameCells(V[0], old)
  BY ONLY <1>5, FALSE \in BOOLEAN, RootFlag
<1>7. old \in Node /\ one \in Node
  <2>1. old \in LeafNode \cup InternalNode
    BY <1>5, <1>6 DEF SameCells
  <2> QED BY <1>3, <2>1, NodeKinds
<1>8. old = [V[0] EXCEPT !.root = FALSE]
  OBVIOUS
<1> HIDE DEF one, old
<1>9. /\ X \in [Page -> Node] /\ X[l] = old /\ X[0] = one
      /\ \A x \in Page \ {0, l} : X[x] = V[x]
  BY <1>1, <1>7
<1> HIDE DEF X
<1>10. Shape(X, Q, lo1, hi1, h1)
  <2>1. /\ X \in [Page -> Node] /\ \A x \in P \ {0} : X[x] = V[x]
        /\ X[l] = [V[0] EXCEPT !.root = FALSE] /\ X[0] \in InternalNode /\ X[0].root
        /\ num_cells(X[0]) = 0 /\ Child(X[0], 0) = l /\ l \in Page \ P
    BY <1>1, <1>3, <1>8, <1>9
  <2>2. Shape(V, P, lo, hi, h)
    BY <1>1
  <2> HIDE DEF P
  <2> QED BY ONLY <2>1, <2>2, LevelAdded DEF lo1, hi1, h1, Q
<1>11. LeafEntries(X, Q, h1) = LeafEntries(V, P, h)
  <2>1. X[l].cells = V[0].cells /\ \A x \in P \ {0} : X[x] = V[x]
    BY <1>1, <1>6, <1>9 DEF SameCells
  <2>3. Shape(V, P, lo, hi, h) /\ l \notin P /\ Q = P \cup {l}
    BY <1>1
  <2> HIDE DEF P
  <2> QED BY ONLY <2>1, <2>3, EntriesRaised DEF h1, Q
<1>12. h1[l] = h[0] /\ h1[0] = h[0] + 1 /\ hi1[0] = hi[0]
  BY <1>1 DEF HeightRaised, HiRaised
<1> HIDE DEF lo1, hi1, h1
<1>13. Divided(X, Q, h1, l, r, sep, 0, 0, W)
  <2>1. Cut(X[l], W[l], W[r], r, sep, h1[l])
    BY ONLY <1>6, <1>9, <1>12, Cut(V[0], W[l], W[r], r, sep, h[0]), CutSame
  <2>2. ChildPut(X[0], W[0], 0, sep, r)
    <3> DEFINE m == W[0]
    <3>1. num_cells(X[0]) = 0 /\ Child(X[0], 0) = l
      BY <1>3, <1>9
    <3>2. num_cells(m) = 1 /\ get_key(m, 0) = sep /\ Child(m, 0) = l /\ Child(m, 1) = r
      BY <1>4
    <3> HIDE DEF m
    <3>3. \A i \in 0 .. 0 : get_key(m, i) = sep /\ ~(i < 0) /\ i = 0
      BY <3>2
    <3>4. \A i \in 0 .. 0 + 1 : Child(m, i) = IF i <= 0 THEN Child(X[0], i)
                                            ELSE IF i = 0 + 1 THEN r ELSE Child(X[0], i - 1)
      BY <3>1, <3>2
    <3>5. ChildPut(X[0], m, 0, sep, r)
      BY <3>1, <3>2, <3>3, <3>4 DEF ChildPut
    <3> QED BY <3>5 DEF m
  <2>3. \A x \in Q \ {l, 0} : W[x] = X[x]
    BY <1>1, <1>9
  <2>4. /\ l \in Q /\ r \in Page \ Q /\ 0 \in Q /\ h1[0] > 0 /\ 0 \in 0 .. num_cells(X[0])
        /\ Child(X[0], 0) = l /\ W[0].root = X[0].root
    <3>1. l \in Q /\ r \in Page \ Q /\ 0 \in Q
      BY <1>1
    <3>2. h1[0] > 0
      BY <1>1, <1>12
    <3>3. num_cells(X[0]) = 0 /\ Child(X[0], 0) = l /\ W[0].root = X[0].root
      BY <1>3, <1>4, <1>9
    <3>4. 0 \in 0 .. num_cells(X[0])
      BY <3>3
    <3> QED BY <3>1, <3>2, <3>3, <3>4
  <2> QED BY <1>1, <1>4, <2>1, <2>2, <2>3, <2>4 DEF Divided
<1>14. Shape(W, Q \cup {r}, lo2, hi2, h2)
  BY ONLY <1>10, <1>13, NodeDivided
<1>15. LeafEntries(W, Q \cup {r}, h2) = LeafEntries(X, Q, h1)
  BY ONLY <1>10, <1>13, EntriesDivided
<1>16. h2[0] = h[0] + 1 /\ hi2[0] = hi[0]
  BY <1>1, <1>12 DEF HeightAfter, HiAfter
<1> HIDE DEF lo2, hi2, h2, Q
<1>17. Shape(W, 0 .. top, lo2, hi2, h2)
       /\ LeafEntries(W, 0 .. top, h2) = LeafEntries(V, P, h)
  BY <1>2, <1>11, <1>14, <1>15
<1>18. Good(W, top, lo2, hi2, h2)
  BY <1>1, <1>16, <1>17 DEF Good
<1> QED BY <1>17, <1>18

-----------------------------------------------------------------------------
(* The invariant.                                                          *)

(* Every page holds what fits, and every one but the root half of it.      *)
Filled ==
  /\ \A p \in Page : num_cells(Tree[p]) <= MaxCells
  /\ \A p \in 1 .. mem.next_page_id - 1 : num_cells(Tree[p]) >= MaxCells \div 2

(* The types of the members and locals of a call.                          *)
Types ==
  /\ call \in Calls \cup {NoCall} /\ cur \in Page /\ ancestors \in Ancestors
  /\ sep_key \in Nat /\ right_id \in Page /\ left_id \in Page

(* Between calls the pages handed out so far are a search tree ...         *)
RestInv ==
  ancestors = <<>> /\ \E lo, hi, h : Good(Tree, mem.next_page_id - 1, lo, hi, h)

(* ... and so they are while a call descends to the leaf of its key.       *)
Descending(lo, hi, h) ==
  /\ Good(Tree, mem.next_page_id - 1, lo, hi, h)
  /\ call \in Calls /\ cur \in 0 .. mem.next_page_id - 1
  /\ lo[cur] <= call.key /\ call.key < hi[cur]
  /\ before = LeafEntries(Tree, 0 .. mem.next_page_id - 1, h)
  /\ call.name = "insert" =>
       /\ Path(Tree, 0 .. mem.next_page_id - 1, h, ancestors, cur)
       /\ NotInFullLeaf(call.key)

(* The entries when an insert returns.                                     *)
Inserted == Replaced(before, call.key, EntryOf(call.key, call.val))

(* While an insert hands a split up, they are the tree V in which one page *)
(* has one cell or one key too many, but for that page,                    *)
Working(V, last, lo, hi, h) ==
  /\ Good(V, last, lo, hi, h)
  /\ call \in Calls /\ call.name = "insert"
  /\ LeafEntries(V, 0 .. last, h) = Inserted
  /\ Path(V, 0 .. last, h, ancestors, cur)

(* which has been cut in two,                                              *)
Splitting(V, lo, hi, h) ==
  /\ Working(V, mem.next_page_id - 2, lo, hi, h)
  /\ right_id = mem.next_page_id - 1
  /\ \A x \in Page \ {cur, right_id} : Tree[x] = V[x]
  /\ Cut(V[cur], Tree[cur], Tree[right_id], right_id, sep_key, h[cur])
  /\ Tree[right_id].root = FALSE /\ num_cells(Tree[cur]) >= MaxCells \div 2
  /\ pc = "parent" => cur # 0 /\ Tree[cur].root = FALSE
  /\ pc = "new_root" => cur = 0 /\ h[0] = 0
  /\ pc = "split_root" => cur = 0 /\ h[0] > 0 /\ Tree[cur].root = FALSE

(* or has moved to two new pages, being the root,                          *)
Linking(V, lo, hi, h) ==
  /\ Working(V, mem.next_page_id - 3, lo, hi, h)
  /\ cur = 0 /\ h[0] = 0
  /\ right_id = mem.next_page_id - 2 /\ left_id = mem.next_page_id - 1
  /\ \A x \in Page \ {0, left_id, right_id} : Tree[x] = V[x]
  /\ Cut(V[0], Tree[left_id], Tree[right_id], right_id, sep_key, 0)
  /\ Tree[left_id].root = FALSE /\ Tree[right_id].root = FALSE

(* or has its left half on it, and the rest in over.                       *)
Overfull(V, lo, hi, h) ==
  /\ Working(V, mem.next_page_id - 1, lo, hi, h)
  /\ V = [Tree EXCEPT ![cur] = over] /\ h[cur] > 0
  /\ num_cells(over) = MaxCells + 1 /\ Tree[cur] = internal_left(over)

(* The state of the tree at each point of a call.                          *)
TreeInv ==
  /\ pc \in {"rest", "descend", "parent", "new_root", "link_root", "split_internal", "split_root"}
  /\ pc = "rest" => RestInv
  /\ pc = "descend" => \E lo, hi, h : Descending(lo, hi, h)
  /\ pc \in {"parent", "new_root", "split_root"} =>
       \E V, lo, hi, h : Splitting(V, lo, hi, h)
  /\ pc = "link_root" => \E V, lo, hi, h : Linking(V, lo, hi, h)
  /\ pc = "split_internal" => \E V, lo, hi, h : Overfull(V, lo, hi, h)

(* The inductive invariant.                                                *)
IInv(M, U, H) == MemoryInv(M, U, H) /\ Types /\ Filled /\ TreeInv

(* A call that is over leaves nothing behind.                              *)
LEMMA ReturnTypes ==
  ASSUME NEW r, Return(r)
  PROVE  Types' /\ pc' = "rest" /\ ancestors' = <<>> /\ ret' = r
<1>1. 0 \in Page /\ <<>> \in Ancestors
  BY LastPageAssumption DEF Page, Ancestors
<1> QED BY <1>1 DEF Return, Types, NoPage

(* A new file is a tree of one leaf.                                       *)
LEMMA InitTree ==
  ASSUME NEW M, NEW U, NEW H, PageMemory(M, U, H), Init
  PROVE  IInv(M, U, H) /\ Entries(Tree) = {}
<1> DEFINE leaf == initialize_as_leaf(TRUE)
           m == Fetch(EmptyFile, 0)
           lo == [x \in 0 .. 0 |-> 0]
           hi == [x \in 0 .. 0 |-> KeyLimit]
           h == [x \in 0 .. 0 |-> 0]
<1>1. /\ leaf \in LeafNode /\ leaf.root = TRUE /\ leaf.link = NoLeaf /\ num_cells(leaf) = 0
  <2>1. <<>> \in Seq(CellOf(Value \cup {Tombstone})) /\ Len(<<>>) = 0
    OBVIOUS
  <2> QED BY <2>1 DEF initialize_as_leaf, LeafNode, NodeOf, num_cells
<1> HIDE DEF leaf
<1>2. 0 \in Page /\ leaf \in Node
  BY <1>1, NodeKinds, LastPageAssumption DEF Page
<1>3. /\ EmptyFile \in M /\ U[EmptyFile] = {} /\ EmptyFile.next_page_id = 0
      /\ Pages(EmptyFile) = [p \in Page |-> Blank]
  BY DEF PageMemory, EmptyFileLaw
<1>4. /\ m \in M /\ Pages(m) = Pages(EmptyFile) /\ m.next_page_id = 1 /\ U[m] \subseteq {0}
      /\ \A a, b \in Page : <<m, 0, a, b>> \in H
  <2>1. 0 <= EmptyFile.next_page_id
        /\ \A q \in U[EmptyFile] \ {0} : \E a \in Page : <<EmptyFile, q, 0, a>> \in H
    BY <1>3
  <2>2. /\ m \in M /\ Pages(m) = Pages(EmptyFile)
        /\ m.next_page_id = IF 0 = EmptyFile.next_page_id THEN 0 + 1 ELSE EmptyFile.next_page_id
        /\ U[m] \subseteq U[EmptyFile] \cup {q \in {0} : 0 = EmptyFile.next_page_id}
        /\ \A a, b \in Page : <<m, 0, a, b>> \in H
    BY <1>2, <1>3, <2>1 DEF PageMemory, FetchLaw
  <2> QED BY <1>3, <2>2
<1> HIDE DEF m
<1>5. /\ mem \in M /\ Tree = [Pages(m) EXCEPT ![0] = leaf]
      /\ mem.next_page_id = m.next_page_id /\ U[mem] \subseteq U[m] \ {0}
  <2>1. m \in M /\ HeldIn(H, m, 0)
    BY <1>2, <1>4 DEF HeldIn
  <2>2. mem = Mark(Put(m, 0, leaf), 0)
    BY DEF Init, root_page_id, m, leaf
  <2>3. /\ mem \in M /\ Pages(mem) = [Pages(m) EXCEPT ![0] = leaf]
        /\ mem.next_page_id = m.next_page_id /\ U[mem] \subseteq U[m] \ {0}
    BY ONLY PageMemory(M, U, H), <1>2, <2>1, <2>2, PutMarked
  <2> QED BY <2>3 DEF Tree
<1>6. U[mem] = {} /\ mem.next_page_id = 1 /\ mem.next_page_id - 1 = 0
  BY <1>4, <1>5
<1>7. /\ Tree \in [Page -> Node] /\ Tree[0] = leaf /\ \A p \in Page \ {0} : Tree[p] = Blank
  <2>1. Tree = [[p \in Page |-> Blank] EXCEPT ![0] = leaf]
    BY <1>3, <1>4, <1>5
  <2>2. Tree \in [Page -> Node]
    BY <1>5 DEF PageMemory, MemoryTypes, Tree
  <2>3. Tree[0] = leaf /\ \A p \in Page \ {0} : Tree[p] = Blank
    BY <1>2, <2>1
  <2> QED BY <2>2, <2>3
<1>8. MemoryInv(M, U, H)
  BY <1>5, <1>6 DEF MemoryInv, Init
<1>9. Types
  BY <1>2 DEF Init, Types, NoPage, Ancestors
<1>10. Filled
  <2>1. num_cells(Blank) = 0
    BY DEF num_cells, Blank
  <2>2. \A p \in Page : num_cells(Tree[p]) = 0
    BY <1>1, <1>7, <2>1
  <2>3. 1 .. mem.next_page_id - 1 = {}
    BY <1>6
  <2> QED BY <2>2, <2>3, MaxCellsAssumption DEF Filled
<1>11. Good(Tree, 0, lo, hi, h)
  <2>1. 0 .. 0 = {0} /\ KeyLimit \in Nat \ {0}
    BY CallsAssumption
  <2>2. lo[0] = 0 /\ hi[0] = KeyLimit /\ h[0] = 0
    BY <2>1
  <2>3. lo \in [0 .. 0 -> Nat] /\ hi \in [0 .. 0 -> Nat] /\ h \in [0 .. 0 -> Nat]
    BY <2>1
  <2> HIDE DEF lo, hi, h
  <2>4. Typed(Tree, 0 .. 0, lo, hi, h) /\ Spans(Tree, 0 .. 0, lo, hi, h)
    BY <1>1, <1>2, <1>7, <2>1, <2>2, <2>3 DEF Typed, Spans
  <2>5. LeafIn(leaf, 0, KeyLimit)
    <3>1. 0 .. num_cells(leaf) - 1 = {}
      BY <1>1
    <3> QED BY <1>1, <3>1 DEF LeafIn, Sorted
  <2>6. LeavesIn(Tree, 0 .. 0, lo, hi, h) /\ InternalsIn(Tree, 0 .. 0, lo, hi, h)
    BY <1>1, <1>7, <2>1, <2>2, <2>5 DEF LeavesIn, InternalsIn
  <2>7. Parents(Tree, 0 .. 0, lo, hi, h) /\ Apart(Tree, 0 .. 0, lo, hi, h)
    BY <2>1 DEF Parents, Apart
  <2> QED BY <1>2, <2>2, <2>4, <2>6, <2>7 DEF Good, Shape
<1>12. TreeInv
  <2> HIDE DEF lo, hi, h
  <2>1. RestInv
    BY <1>6, <1>11 DEF RestInv, Init
  <2> QED BY <2>1 DEF TreeInv, Init
<1>13. Entries(Tree) = {}
  <2>1. Shape(Tree, 0 .. 0, lo, hi, h) /\ h[0] <= LastPage
    BY <1>11, LastPageAssumption DEF Good
  <2>2. LiveIn(Tree[0]) = {} /\ 0 .. 0 = {0}
    <3>1. 0 .. num_cells(leaf) - 1 = {}
      BY <1>1
    <3> QED BY <1>7, <3>1 DEF LiveIn
  <2> HIDE DEF lo, hi, h
  <2>3. Entries(Tree) = LeafEntries(Tree, 0 .. 0, h)
    BY ONLY <2>1, EntriesAre
  <2> QED BY <2>2, <2>3 DEF LeafEntries
<1> QED BY <1>8, <1>9, <1>10, <1>12, <1>13 DEF IInv

(* What it says of the pages of a tree.                                    *)
LEMMA GoodFacts ==
  ASSUME NEW V, NEW last, NEW lo, NEW hi, NEW h, Good(V, last, lo, hi, h)
  PROVE  /\ last \in Nat /\ last \in Page /\ 0 \in 0 .. last /\ 0 .. last \subseteq Page
         /\ V \in [Page -> Node] /\ Shape(V, 0 .. last, lo, hi, h)
         /\ lo[0] = 0 /\ hi[0] = KeyLimit /\ h[0] <= LastPage
         /\ \A p \in 0 .. last :
              /\ p \in Page /\ lo[p] \in Nat /\ hi[p] \in Nat /\ h[p] \in Nat
              /\ V[p].type = "leaf" <=> h[p] = 0
              /\ h[p] = 0 => LeafIn(V[p], lo[p], hi[p]) /\ V[p] \in LeafNode /\ Sorted(V[p])
              /\ h[p] > 0 => /\ InternalIn(V[p], lo[p], hi[p]) /\ V[p] \in InternalNode
                             /\ Sorted(V[p])
              /\ num_cells(V[p]) \in Nat /\ Keyed(V[p]) /\ (V[p].root <=> p = 0)
         /\ Entries(V) = LeafEntries(V, 0 .. last, h)
         /\ Leaves(V) = {q \in 0 .. last : h[q] = 0}
<1> DEFINE P == 0 .. last
<1>1. last \in Nat /\ last \in Page /\ last <= LastPage /\ 0 \in P /\ P \subseteq Page
  BY LastPageAssumption DEF Good, Page
<1>2. Shape(V, P, lo, hi, h) /\ hi[0] = KeyLimit /\ h[0] <= last
  BY DEF Good
<1>3. V \in [Page -> Node] /\ lo[0] = 0 /\ \A p \in P : V[p].root <=> p = 0
  BY <1>2 DEF Shape, Typed, Spans
<1>4. h[0] \in Nat
  BY <1>1, <1>2, ShapeFacts
<1>5. h[0] <= LastPage
  BY <1>1, <1>2, <1>4, LastPageAssumption
<1> HIDE DEF P
<1>6. Entries(V) = LeafEntries(V, P, h)
  BY ONLY <1>2, <1>5, EntriesAre
<1>7. Leaves(V) = {q \in P : h[q] = 0}
  BY ONLY <1>1, <1>2, <1>5, BelowIs
<1>8. ASSUME NEW p \in P
      PROVE  /\ lo[p] \in Nat /\ hi[p] \in Nat /\ h[p] \in Nat
             /\ V[p].type = "leaf" <=> h[p] = 0
             /\ num_cells(V[p]) \in Nat /\ Keyed(V[p])
             /\ h[p] = 0 => LeafIn(V[p], lo[p], hi[p]) /\ V[p] \in LeafNode /\ Sorted(V[p])
             /\ h[p] > 0 => /\ InternalIn(V[p], lo[p], hi[p]) /\ V[p] \in InternalNode
                            /\ Sorted(V[p])
  <2>1. /\ lo[p] \in Nat /\ hi[p] \in Nat /\ h[p] \in Nat
        /\ V[p].type = "leaf" <=> h[p] = 0
        /\ num_cells(V[p]) \in Nat /\ Keyed(V[p])
    BY ONLY <1>2, p \in P, ShapeFacts
  <2>2. h[p] = 0 => LeafIn(V[p], lo[p], hi[p])
    BY <1>2 DEF Shape, LeavesIn
  <2>3. h[p] > 0 => InternalIn(V[p], lo[p], hi[p])
    BY <1>2 DEF Shape, InternalsIn
  <2> QED BY <2>1, <2>2, <2>3 DEF LeafIn, InternalIn
<1> QED BY <1>1, <1>2, <1>3, <1>5, <1>6, <1>7, <1>8 DEF P

(* There is always a page, and a number for the next one.                  *)
LEMMA PagesCounted ==
  ASSUME NEW M, NEW U, NEW H, PageMemory(M, U, H), MemoryInv(M, U, H)
  PROVE  mem.next_page_id \in Nat /\ mem.next_page_id <= LastPage + 1 /\ Tree \in [Page -> Node]
BY LastPageAssumption DEF PageMemory, MemoryTypes, MemoryInv, Tree

(* A call begins at the root and changes nothing that is read.             *)
LEMMA CallStep ==
  ASSUME NEW M, NEW U, NEW H, PageMemory(M, U, H), IInv(M, U, H), NEW c \in Calls, Call(c)
  PROVE  IInv(M, U, H)' /\ Tree' = Tree /\ before' = Entries(Tree)
<1> DEFINE last == mem.next_page_id - 1
<1>1. /\ pc = "rest" /\ pc' = "descend" /\ call' = c /\ cur' = 0
      /\ before' = Entries(Tree)
      /\ c.name = "insert" => NotInFullLeaf(c.key)
      /\ UNCHANGED <<ancestors, sep_key, right_id, left_id>>
  BY DEF Call, Tree, root_page_id
<1>2. /\ MemoryInv(M, U, H) /\ Types /\ Filled /\ RestInv
  BY <1>1 DEF IInv, TreeInv
<1>3. PICK lo, hi, h : Good(Tree, last, lo, hi, h)
  BY <1>2 DEF RestInv
<1>4. /\ last \in Nat /\ 0 \in 0 .. last /\ 0 \in Page /\ Shape(Tree, 0 .. last, lo, hi, h)
      /\ lo[0] = 0 /\ hi[0] = KeyLimit /\ h[0] \in Nat
      /\ Entries(Tree) = LeafEntries(Tree, 0 .. last, h)
  BY <1>3, GoodFacts
<1>5. mem.next_page_id \in Nat /\ 0 < mem.next_page_id
  BY <1>2, <1>4, PagesCounted
<1>6. MemoryInv(M, U, H)' /\ Tree' = Tree /\ mem'.next_page_id = mem.next_page_id
  BY ONLY PageMemory(M, U, H), <1>2, <1>5, Call(c), CallMemory
<1>7. Types' /\ Filled'
  BY <1>1, <1>2, <1>4, <1>6 DEF Types, Filled
<1>8. c.key \in Nat /\ 0 <= c.key /\ c.key < KeyLimit
  BY CallsAssumption
<1>9. Descending(lo, hi, h)'
  <2>1. c.name = "insert" => Path(Tree, 0 .. last, h, ancestors, 0)
    <3>1. Len(<<>>) = 0 /\ 1 .. 0 = {}
      OBVIOUS
    <3>2. ancestors = <<>>
      BY <1>2 DEF RestInv
    <3> QED BY <1>4, <3>1, <3>2 DEF Path
  <2>2. c.name = "insert" => NotInFullLeaf(c.key)'
    BY <1>1, <1>6 DEF NotInFullLeaf, Tree
  <2>3. mem'.next_page_id - 1 = last
    BY <1>6
  <2> HIDE DEF last
  <2> QED BY <1>1, <1>3, <1>4, <1>6, <1>8, <2>1, <2>2, <2>3 DEF Descending
<1>10. TreeInv'
  BY <1>1, <1>9 DEF TreeInv
<1> QED BY <1>1, <1>6, <1>7, <1>10 DEF IInv

(* A restart between calls changes nothing that is read.                   *)
LEMMA ReopenStep ==
  ASSUME NEW M, NEW U, NEW H, PageMemory(M, U, H), IInv(M, U, H), Reopen
  PROVE  IInv(M, U, H)' /\ Tree' = Tree
<1> DEFINE last == mem.next_page_id - 1
<1>1. /\ pc = "rest" /\ pc' = "rest"
      /\ UNCHANGED <<call, cur, ancestors, sep_key, right_id, left_id>>
  BY DEF Reopen, locals
<1>2. /\ MemoryInv(M, U, H) /\ Types /\ Filled /\ RestInv
  BY <1>1 DEF IInv, TreeInv
<1>3. PICK lo, hi, h : Good(Tree, last, lo, hi, h)
  BY <1>2 DEF RestInv
<1>4. last \in Nat
  BY <1>3, GoodFacts
<1>5. mem.next_page_id \in Nat /\ 0 < mem.next_page_id
  BY <1>2, <1>4, PagesCounted
<1>6. MemoryInv(M, U, H)' /\ Tree' = Tree /\ mem'.next_page_id = mem.next_page_id
  BY ONLY PageMemory(M, U, H), <1>2, <1>5, Reopen, ReopenMemory
<1>7. Types' /\ Filled' /\ RestInv'
  BY <1>1, <1>2, <1>6 DEF Types, Filled, RestInv
<1> QED BY <1>1, <1>6, <1>7 DEF IInv, TreeInv

(* A descent goes to the child whose span has the key.                     *)
LEMMA DescendStep ==
  ASSUME NEW M, NEW U, NEW H, PageMemory(M, U, H), IInv(M, U, H), Descend
  PROVE  IInv(M, U, H)' /\ Tree' = Tree
<1> DEFINE last == mem.next_page_id - 1
           slot == child_slot(node, call.key)
           p == Child(node, slot)
<1>1. /\ pc = "descend" /\ pc' = "descend" /\ node.type = "internal"
      /\ cur' = Children(node)[slot + 1]
      /\ ancestors' = IF call.name = "insert" THEN Append(ancestors, <<cur, slot>>) ELSE <<>>
      /\ UNCHANGED <<call, sep_key, right_id, left_id, before>>
  BY DEF Descend
<1>2. /\ MemoryInv(M, U, H) /\ Types /\ Filled
  BY DEF IInv
<1>3. PICK lo, hi, h : Descending(lo, hi, h)
  BY <1>1 DEF IInv, TreeInv
<1>4. /\ Good(Tree, last, lo, hi, h) /\ call \in Calls /\ cur \in 0 .. last
      /\ lo[cur] <= call.key /\ call.key < hi[cur]
      /\ before = LeafEntries(Tree, 0 .. last, h)
      /\ call.name = "insert" => /\ Path(Tree, 0 .. last, h, ancestors, cur)
                                 /\ NotInFullLeaf(call.key)
  BY <1>3 DEF Descending
<1>5. /\ last \in Nat /\ Shape(Tree, 0 .. last, lo, hi, h) /\ h[cur] \in Nat
      /\ Tree[cur].type = "leaf" <=> h[cur] = 0
      /\ h[cur] > 0 => Tree[cur] \in InternalNode
      /\ 0 .. last \subseteq Page /\ num_cells(Tree[cur]) \in Nat
  BY <1>4, GoodFacts
<1>6. h[cur] > 0 /\ Tree[cur] \in InternalNode /\ node = Tree[cur]
  <2>1. node = Tree[cur]
    BY DEF node, Tree
  <2> QED BY <1>1, <1>5, <2>1
<1>7. call.key \in Nat
  BY <1>4, CallsAssumption
<1>8. /\ slot \in 0 .. num_cells(Tree[cur]) /\ lo[p] <= call.key /\ call.key < hi[p]
  BY ONLY <1>4, <1>5, <1>6, <1>7, ChildOfKey
<1>9. p \in 0 .. last /\ p \in Page
  BY <1>4, <1>5, <1>6, <1>8, ShapeFacts
<1>10. p = Children(node)[slot + 1]
  BY <1>6, <1>8, KeysAndChildren DEF InternalNode
<1>11. mem.next_page_id \in Nat /\ p < mem.next_page_id
  BY <1>2, <1>9, PagesCounted
<1> HIDE DEF p
<1>12. MemoryInv(M, U, H)' /\ Tree' = Tree /\ mem'.next_page_id = mem.next_page_id
  BY ONLY PageMemory(M, U, H), <1>2, <1>9, <1>10, <1>11, Descend, DescendMemory DEF slot
<1>13. /\ call.name = "insert" => /\ Append(ancestors, <<cur, slot>>) \in Ancestors
                                  /\ Path(Tree, 0 .. last, h, ancestors', p)
       /\ ancestors' \in Ancestors
  <2>1. <<>> \in Ancestors
    BY DEF Ancestors
  <2>2. num_cells(Tree[cur]) <= MaxCells /\ ancestors \in Ancestors
    BY <1>2 DEF Filled, Types
  <2>3. p = Child(Tree[cur], slot)
    BY <1>6 DEF p
  <2> HIDE DEF slot
  <2>4. ASSUME call.name = "insert"
        PROVE  /\ Append(ancestors, <<cur, slot>>) \in Ancestors
               /\ Path(Tree, 0 .. last, h, Append(ancestors, <<cur, slot>>), p)
    <3>1. Path(Tree, 0 .. last, h, ancestors, cur)
      BY <1>4, <2>4
    <3> QED BY ONLY <1>5, <1>6, <1>8, <2>2, <2>3, <3>1, PathPushed
  <2> QED BY <1>1, <2>1, <2>4
<1>14. Types' /\ Filled'
  BY <1>1, <1>2, <1>9, <1>10, <1>12, <1>13 DEF Types, Filled
<1>15. Descending(lo, hi, h)'
  <2>1. call.name = "insert" => NotInFullLeaf(call.key)'
    BY <1>1, <1>4, <1>12 DEF NotInFullLeaf, Tree
  <2>2. mem'.next_page_id - 1 = last /\ cur' = p
    BY <1>1, <1>10, <1>12
  <2> HIDE DEF last
  <2> QED BY <1>1, <1>4, <1>8, <1>9, <1>12, <1>13, <2>1, <2>2 DEF Descending
<1>16. TreeInv'
  BY <1>1, <1>15 DEF TreeInv
<1> QED BY <1>12, <1>14, <1>16 DEF IInv

(* The entry of the key, when the descent has reached a leaf.              *)
Answer == get_value(node, leaf_node_find(node, call.key))
(* The leaf reached holds a live cell of the key; all that a call that     *)
(* does not split needs to know of the whole tree.                         *)
Present == Holds(node, call.key) /\ Answer # Tombstone

AtLeafOf(lo, hi, h) ==
  /\ Descending(lo, hi, h) /\ h[cur] = 0 /\ node = Tree[cur] /\ cur \in Page
  /\ node \in LeafNode /\ LeafIn(node, lo[cur], hi[cur]) /\ Sorted(node)
  /\ call.key \in Nat /\ lo[cur] \in Nat /\ hi[cur] \in Nat
  /\ \A e : e \in before /\ e[1] = call.key <=> Present /\ e = <<call.key, Answer>>
  /\ before = Entries(Tree)

(* A descent that reached a leaf reached the one whose span has the key.   *)
LEMMA LeafReached ==
  ASSUME NEW M, NEW U, NEW H, PageMemory(M, U, H), IInv(M, U, H),
         pc = "descend", node.type = "leaf"
  PROVE  \E lo, hi, h : AtLeafOf(lo, hi, h)
<1> DEFINE last == mem.next_page_id - 1
           k == call.key
<1>1. PICK lo, hi, h : Descending(lo, hi, h)
  BY DEF IInv, TreeInv
<1>2. /\ Good(Tree, last, lo, hi, h) /\ call \in Calls /\ cur \in 0 .. last
      /\ lo[cur] <= k /\ k < hi[cur]
      /\ before = LeafEntries(Tree, 0 .. last, h)
  BY <1>1 DEF Descending
<1>3. node = Tree[cur]
  BY DEF node, Tree
<1>4. k \in Nat
  BY <1>2, CallsAssumption
<1>5. /\ cur \in Page /\ lo[cur] \in Nat /\ hi[cur] \in Nat
      /\ (Tree[cur].type = "leaf" <=> h[cur] = 0) /\ Shape(Tree, 0 .. last, lo, hi, h)
      /\ h[cur] = 0 => /\ LeafIn(Tree[cur], lo[cur], hi[cur])
                       /\ Tree[cur] \in LeafNode /\ Sorted(Tree[cur])
      /\ Entries(Tree) = LeafEntries(Tree, 0 .. last, h)
  BY <1>2, GoodFacts
<1>6. h[cur] = 0
  BY <1>3, <1>5
<1>7. \A e \in before : e[1] = k => e \in LiveIn(node)
  BY ONLY <1>2, <1>3, <1>4, <1>5, <1>6, EntriesOfKey
<1>8. \A e : e \in LiveIn(node) /\ e[1] = k <=>
         /\ Holds(node, k) /\ get_value(node, leaf_node_find(node, k)) # Tombstone
         /\ e = <<k, get_value(node, leaf_node_find(node, k))>>
  BY ONLY <1>3, <1>4, <1>5, <1>6, EntryFound
<1>9. LiveIn(node) \subseteq before
  BY <1>2, <1>3, <1>6 DEF LeafEntries
<1>10. ASSUME NEW e
       PROVE  e \in before /\ e[1] = k <=> Present /\ e = <<k, Answer>>
  BY <1>7, <1>8, <1>9 DEF Present, Answer
<1>11. before = Entries(Tree)
  BY <1>2, <1>5
<1> HIDE DEF k
<1>12. AtLeafOf(lo, hi, h)
  BY <1>1, <1>3, <1>4, <1>5, <1>6, <1>10, <1>11 DEF AtLeafOf, k
<1> QED BY <1>12

(* A call that leaves its leaf as it was.                                  *)
LEMMA ReadStep ==
  ASSUME NEW M, NEW U, NEW H, PageMemory(M, U, H), IInv(M, U, H),
         pc = "descend", node.type = "leaf", UNCHANGED mem, touched' = {cur},
         NEW r, Return(r)
  PROVE  IInv(M, U, H)' /\ Entries(Tree)' = before
<1>1. PICK lo, hi, h : AtLeafOf(lo, hi, h)
  BY LeafReached
<1>2. /\ MemoryInv(M, U, H) /\ Types /\ Filled /\ cur \in Page
  BY DEF IInv, Types
<1>3. Types' /\ pc' = "rest" /\ ancestors' = <<>>
  BY ReturnTypes
<1>4. MemoryInv(M, U, H)' /\ Tree' = Tree /\ mem'.next_page_id = mem.next_page_id
  BY <1>2, <1>3, ReadMemory
<1>5. Filled'
  BY <1>2, <1>4 DEF Filled
<1>6. RestInv'
  BY <1>1, <1>3, <1>4 DEF AtLeafOf, Descending, RestInv
<1>7. Entries(Tree)' = before
  BY <1>1, <1>4 DEF AtLeafOf
<1> QED BY <1>3, <1>4, <1>5, <1>6, <1>7 DEF IInv, TreeInv

(* A call that writes its leaf.                                            *)
LEMMA WriteStep ==
  ASSUME NEW M, NEW U, NEW H, PageMemory(M, U, H), IInv(M, U, H),
         NEW lo, NEW hi, NEW h, AtLeafOf(lo, hi, h), pc = "descend",
         NEW v, NEW n, LeafPut(node, n, lo[cur], hi[cur], call.key, v),
         num_cells(n) \in Nat, num_cells(n) <= MaxCells, num_cells(n) >= num_cells(node),
         mem' = Mark(Put(mem, cur, n), cur), touched' = {cur}, NEW r, Return(r)
  PROVE  IInv(M, U, H)' /\ Entries(Tree)' = Replaced(before, call.key, EntryOf(call.key, v))
<1> DEFINE last == mem.next_page_id - 1
           k == call.key
           W == [Tree EXCEPT ![cur] = n]
<1>1. /\ Good(Tree, last, lo, hi, h) /\ cur \in 0 .. last /\ h[cur] = 0 /\ cur \in Page
      /\ lo[cur] <= k /\ k < hi[cur] /\ k \in Nat /\ node = Tree[cur] /\ node \in LeafNode
      /\ before = LeafEntries(Tree, 0 .. last, h)
  BY DEF AtLeafOf, Descending
<1>2. /\ MemoryInv(M, U, H) /\ Types /\ Filled
  BY DEF IInv, Types
<1>3. Types' /\ pc' = "rest" /\ ancestors' = <<>>
  BY ReturnTypes
<1>4. /\ LeafIn(n, lo[cur], hi[cur]) /\ n.root = Tree[cur].root /\ n.link = Tree[cur].link
      /\ LiveIn(n) = Replaced(LiveIn(Tree[cur]), k, EntryOf(k, v))
  BY <1>1 DEF LeafPut
<1>5. n \in Node
  BY <1>4, NodeKinds DEF LeafIn
<1>6. /\ MemoryInv(M, U, H)' /\ mem'.next_page_id = mem.next_page_id /\ Tree' = W
  BY ONLY PageMemory(M, U, H), <1>1, <1>2, <1>3, <1>5, pc = "descend", touched' = {cur},
          mem' = Mark(Put(mem, cur, n), cur), WriteMemory
<1>7. /\ Shape(Tree, 0 .. last, lo, hi, h) /\ Tree \in [Page -> Node]
      /\ mem.next_page_id \in Nat /\ num_cells(node) \in Nat
  BY <1>1, <1>2, GoodFacts, PagesCounted
<1>8. Shape(W, 0 .. last, lo, hi, h)
  BY ONLY <1>1, <1>4, <1>7, LeafChanged
<1>9. LeafEntries(W, 0 .. last, h) = Replaced(before, k, EntryOf(k, v))
  <2> DEFINE X == EntryOf(k, v)
             P == 0 .. last
  <2>1. LiveIn(n) = Replaced(LiveIn(Tree[cur]), k, X)
    BY <1>4
  <2>2. /\ Shape(Tree, P, lo, hi, h) /\ cur \in P /\ h[cur] = 0 /\ k \in Nat
        /\ lo[cur] <= k /\ k < hi[cur] /\ before = LeafEntries(Tree, P, h)
    BY <1>1, <1>7
  <2> HIDE DEF X, P, last, k, W
  <2>3. LeafEntries([Tree EXCEPT ![cur] = n], P, h)
          = Replaced(LeafEntries(Tree, P, h), k, X)
    BY <2>1, <2>2, EntriesReplaced
  <2> QED BY <2>2, <2>3 DEF X, P, W
<1>10. W[cur] = n /\ \A p \in Page \ {cur} : W[p] = Tree[p]
  BY <1>1, <1>7
<1> HIDE DEF W, k
<1>11. Good(W, last, lo, hi, h)
  BY <1>1, <1>8 DEF Good
<1>12. Filled'
  <2>1. \A p \in Page : num_cells(W[p]) <= MaxCells
    BY <1>2, <1>10 DEF Filled
  <2>2. ASSUME NEW p \in 1 .. mem.next_page_id - 1 PROVE num_cells(W[p]) >= MaxCells \div 2
    <3>1. num_cells(Tree[p]) >= MaxCells \div 2
      BY <1>2 DEF Filled
    <3>2. p \in 0 .. last /\ p \in Page
      BY <1>1, GoodFacts
    <3>3. CASE p = cur
      BY <1>1, <1>7, <1>10, <3>1, <3>3, MaxCellsAssumption
    <3>4. CASE p # cur
      BY <1>10, <3>1, <3>2, <3>4
    <3> QED BY <3>3, <3>4
  <2> QED BY <1>6, <2>1, <2>2 DEF Filled
<1>13. RestInv'
  BY <1>3, <1>6, <1>11 DEF RestInv
<1>14. Entries(Tree)' = Replaced(before, k, EntryOf(k, v))
  <2>1. Entries(W) = LeafEntries(W, 0 .. last, h)
    BY <1>11, GoodFacts
  <2> QED BY <1>6, <1>9, <2>1
<1> QED BY <1>3, <1>6, <1>12, <1>13, <1>14 DEF IInv, TreeInv, k

-----------------------------------------------------------------------------
(* The steps of a call.                                                    *)

(* What the caller of the index finds under a key.                         *)
Under(D, k) == {v \in Value : <<k, v>> \in D}

(* A descent that has reached a leaf answers for the whole tree.           *)
LEMMA LeafAnswers ==
  ASSUME NEW lo, NEW hi, NEW h, AtLeafOf(lo, hi, h)
  PROVE  Under(before, call.key) = IF Present THEN {Answer} ELSE {}
<1> DEFINE k == call.key
<1>1. /\ node \in LeafNode /\ k \in Nat
      /\ \A e : e \in before /\ e[1] = k <=> Present /\ e = <<k, Answer>>
  BY DEF AtLeafOf
<1>2. \A i \in 0 .. num_cells(node) - 1 : get_value(node, i) \in Value \cup {Tombstone}
  BY <1>1, NodeParts DEF LeafNode
<1>3. Keyed(node) /\ leaf_node_find(node, k) \in 0 .. num_cells(node) /\ num_cells(node) \in Nat
  BY <1>1, NodeKinds, LeafNodeFind
<1>4. Present => Answer \in Value
  BY <1>2, <1>3 DEF Present, Answer, Holds
<1>5. ASSUME NEW v PROVE <<k, v>> \in before <=> Present /\ v = Answer
  <2>1. <<k, v>>[1] = k
    OBVIOUS
  <2>2. <<k, v>> = <<k, Answer>> <=> v = Answer
    OBVIOUS
  <2> HIDE DEF k
  <2> QED BY <1>1, <2>1, <2>2
<1> HIDE DEF k
<1>6. Under(before, k) = IF Present THEN {Answer} ELSE {}
  BY <1>4, <1>5 DEF Under
<1> QED BY <1>6 DEF k

(* find changes nothing and answers with the value of the key's entry.     *)
LEMMA FindStep ==
  ASSUME NEW M, NEW U, NEW H, PageMemory(M, U, H), IInv(M, U, H), Find
  PROVE  /\ IInv(M, U, H)' /\ Entries(Tree)' = before /\ call \in Calls
         /\ ret' \in IF Under(before, call.key) = {} THEN {"none"}
                     ELSE Under(before, call.key)
<1>1. /\ pc = "descend" /\ node.type = "leaf" /\ UNCHANGED mem /\ touched' = {cur}
      /\ Return(IF Present THEN Answer ELSE "none")
  BY DEF Find, AtLeaf, Present, Answer
<1>2. IInv(M, U, H)' /\ Entries(Tree)' = before
  BY <1>1, ReadStep
<1>3. PICK lo, hi, h : AtLeafOf(lo, hi, h)
  BY <1>1, LeafReached
<1>4. call \in Calls
  BY <1>3 DEF AtLeafOf, Descending
<1>5. Under(before, call.key) = IF Present THEN {Answer} ELSE {}
  BY <1>3, LeafAnswers
<1>6. ret' = IF Present THEN Answer ELSE "none"
  BY <1>1, ReturnTypes
<1> QED BY <1>2, <1>4, <1>5, <1>6

(* remove takes the key's entry and nothing else, and answers whether it   *)
(* was there.                                                              *)
LEMMA RemoveStep ==
  ASSUME NEW M, NEW U, NEW H, PageMemory(M, U, H), IInv(M, U, H), Remove
  PROVE  /\ IInv(M, U, H)' /\ Entries(Tree)' = {e \in before : e[1] # call.key}
         /\ call \in Calls
         /\ ret' = IF Under(before, call.key) = {} THEN "false" ELSE "true"
<1>1. /\ pc = "descend" /\ node.type = "leaf" /\ touched' = {cur}
      /\ IF Present THEN /\ mem' = Mark(Put(mem, cur, set_value(node, call.key, Tombstone)), cur)
                         /\ Return("true")
         ELSE UNCHANGED mem /\ Return("false")
  BY DEF Remove, AtLeaf, Present, Answer
<1>2. PICK lo, hi, h : AtLeafOf(lo, hi, h)
  BY <1>1, LeafReached
<1>3. call \in Calls
  BY <1>2 DEF AtLeafOf, Descending
<1>4. Under(before, call.key) = IF Present THEN {Answer} ELSE {}
  BY <1>2, LeafAnswers
<1>5. \A e : e \in before /\ e[1] = call.key => Present
  BY <1>2 DEF AtLeafOf
<1>6. CASE Present
  <2> DEFINE n == set_value(node, call.key, Tombstone)
  <2>1. LeafPut(node, n, lo[cur], hi[cur], call.key, Tombstone) /\ num_cells(n) = num_cells(node)
    BY <1>2, <1>6, LeafSetValue DEF AtLeafOf, Present
  <2>2. num_cells(node) \in Nat /\ num_cells(node) <= MaxCells
    BY <1>2, NodeKinds DEF AtLeafOf, IInv, Filled
  <2>3. mem' = Mark(Put(mem, cur, n), cur) /\ Return("true")
    BY <1>1, <1>6
  <2> HIDE DEF n
  <2>4. /\ IInv(M, U, H)'
        /\ Entries(Tree)' = Replaced(before, call.key, EntryOf(call.key, Tombstone))
    BY <1>1, <1>2, <2>1, <2>2, <2>3, WriteStep
  <2>5. ret' = "true"
    BY <2>3, ReturnTypes
  <2> QED BY <1>3, <1>4, <1>6, <2>4, <2>5 DEF Replaced, EntryOf
<1>7. CASE ~Present
  <2>1. UNCHANGED mem /\ Return("false")
    BY <1>1, <1>7
  <2>2. IInv(M, U, H)' /\ Entries(Tree)' = before
    BY <1>1, <2>1, ReadStep
  <2>3. ret' = "false"
    BY <2>1, ReturnTypes
  <2>4. before = {e \in before : e[1] # call.key}
    BY <1>5, <1>7
  <2> QED BY <1>3, <1>4, <1>7, <2>2, <2>3, <2>4
<1> QED BY <1>6, <1>7

(* The value of a call is no tombstone.                                    *)
LEMMA CallValue ==
  ASSUME call \in Calls
  PROVE  call.val \in Value /\ call.val # Tombstone /\ call.key \in 0 .. KeyLimit - 1
         /\ KeyLimit \in Nat
BY CallsAssumption, MarkersAssumption DEF Value

(* insert into a leaf that has room.                                       *)
LEMMA InsertInLeafStep ==
  ASSUME NEW M, NEW U, NEW H, PageMemory(M, U, H), IInv(M, U, H), InsertInLeaf
  PROVE  /\ IInv(M, U, H)' /\ Entries(Tree)' = Inserted
         /\ call \in Calls /\ ret' = "void"
<1> DEFINE v == call.val
           n == IF Holds(node, call.key) THEN set_value(node, call.key, v)
                ELSE insert_cell(node, call.key, v)
<1>1. /\ pc = "descend" /\ node.type = "leaf" /\ touched' = {cur} /\ ~Full(node)
      /\ mem' = Mark(Put(mem, cur, n), cur) /\ Return("void")
  BY DEF InsertInLeaf, AtLeaf
<1>2. PICK lo, hi, h : AtLeafOf(lo, hi, h)
  BY <1>1, LeafReached
<1>3. call \in Calls
  BY <1>2 DEF AtLeafOf, Descending
<1>4. /\ LeafIn(node, lo[cur], hi[cur]) /\ lo[cur] \in Nat /\ hi[cur] \in Nat
      /\ lo[cur] <= call.key /\ call.key < hi[cur] /\ call.key \in Nat /\ num_cells(node) \in Nat
  BY <1>2, NodeKinds DEF AtLeafOf, Descending
<1>5. v \in Value \cup {Tombstone}
  BY <1>3, CallValue
<1>6. /\ LeafPut(node, n, lo[cur], hi[cur], call.key, v)
      /\ num_cells(n) \in {num_cells(node), num_cells(node) + 1}
  BY <1>4, <1>5, LeafSetValue, LeafInsertCell
<1>7. num_cells(node) < MaxCells
  BY <1>1, <1>4, MaxCellsAssumption DEF Full
<1>8. num_cells(n) \in Nat /\ num_cells(n) <= MaxCells /\ num_cells(n) >= num_cells(node)
  BY <1>4, <1>6, <1>7, MaxCellsAssumption
<1> HIDE DEF n, v
<1>9. IInv(M, U, H)' /\ Entries(Tree)' = Replaced(before, call.key, EntryOf(call.key, v))
  BY <1>1, <1>2, <1>6, <1>8, WriteStep
<1>10. ret' = "void"
  BY <1>1, ReturnTypes
<1> QED BY <1>3, <1>9, <1>10 DEF Inserted, v

(* What an insert that has reached a full leaf knows of it.                *)
LEMMA FullLeaf ==
  ASSUME NEW M, NEW U, NEW H, PageMemory(M, U, H), IInv(M, U, H),
         AtLeaf("insert"), Full(node),
         NEW lo, NEW hi, NEW h, AtLeafOf(lo, hi, h),
         NEW V, V = [Tree EXCEPT ![cur] = insert_cell(node, call.key, call.val)]
  PROVE  /\ num_cells(node) = MaxCells /\ num_cells(V[cur]) = MaxCells + 1
         /\ call \in Calls /\ cur \in 0 .. mem.next_page_id - 1 /\ h[cur] = 0
         /\ node = Tree[cur] /\ node \in LeafNode /\ (node.root <=> cur = 0)
         /\ V[cur] = insert_cell(node, call.key, call.val)
         /\ \A x \in Page \ {cur} : V[x] = Tree[x]
         /\ Working(V, mem.next_page_id - 1, lo, hi, h)
<1> DEFINE last == mem.next_page_id - 1
           k == call.key
           v == call.val
           n == insert_cell(node, k, v)
           P == 0 .. last
<1>1. /\ Good(Tree, last, lo, hi, h) /\ cur \in P /\ h[cur] = 0 /\ cur \in Page
      /\ lo[cur] <= k /\ k < hi[cur] /\ k \in Nat /\ node = Tree[cur] /\ node \in LeafNode
      /\ before = LeafEntries(Tree, P, h) /\ LeafIn(node, lo[cur], hi[cur])
      /\ lo[cur] \in Nat /\ hi[cur] \in Nat /\ call \in Calls /\ call.name = "insert"
      /\ Path(Tree, P, h, ancestors, cur) /\ NotInFullLeaf(k)
  BY DEF AtLeafOf, Descending, AtLeaf
<1>2. Types /\ Filled
  BY DEF IInv
<1>3. /\ Shape(Tree, P, lo, hi, h) /\ Tree \in [Page -> Node] /\ cur \in Leaves(Tree)
      /\ (node.root <=> cur = 0) /\ num_cells(node) \in Nat
  <2> HIDE DEF last
  <2>1. Good(Tree, last, lo, hi, h) /\ cur \in 0 .. last /\ h[cur] = 0 /\ node = Tree[cur]
    BY <1>1
  <2>2. /\ Tree \in [Page -> Node] /\ Shape(Tree, 0 .. last, lo, hi, h)
        /\ num_cells(Tree[cur]) \in Nat /\ (Tree[cur].root <=> cur = 0)
        /\ Leaves(Tree) = {q \in 0 .. last : h[q] = 0}
    BY ONLY <2>1, GoodFacts
  <2> QED BY <2>1, <2>2
<1>4. num_cells(node) = MaxCells
  BY <1>1, <1>2, <1>3, MaxCellsAssumption DEF Filled, Full
<1>5. ~Holds(node, k)
  BY <1>1, <1>3 DEF NotInFullLeaf, Tree, Full
<1>6. v \in Value \cup {Tombstone}
  BY <1>1, CallValue
<1>7. LeafPut(node, n, lo[cur], hi[cur], k, v) /\ num_cells(n) = num_cells(node) + 1
  BY <1>1, <1>5, <1>6, LeafInsertCell
<1>8. V[cur] = n /\ \A x \in Page \ {cur} : V[x] = Tree[x]
  BY <1>1, <1>3
<1>9. V = [Tree EXCEPT ![cur] = n]
  OBVIOUS
<1> HIDE DEF n, k, v
<1>10. /\ LeafIn(n, lo[cur], hi[cur]) /\ n.root = Tree[cur].root /\ n.link = Tree[cur].link
       /\ LiveIn(n) = Replaced(LiveIn(Tree[cur]), k, EntryOf(k, v))
  BY <1>1, <1>7 DEF LeafPut
<1> HIDE DEF P
<1>11. Shape(V, P, lo, hi, h)
  <2>1. Shape([Tree EXCEPT ![cur] = n], P, lo, hi, h)
    BY ONLY <1>1, <1>3, <1>10, LeafChanged
  <2> QED BY <1>9, <2>1
<1>12. LeafEntries(V, P, h) = Replaced(before, k, EntryOf(k, v))
  <2> DEFINE X == EntryOf(k, v)
  <2>1. LiveIn(n) = Replaced(LiveIn(Tree[cur]), k, X)
    BY <1>10
  <2>2. /\ Shape(Tree, P, lo, hi, h) /\ cur \in P /\ h[cur] = 0 /\ k \in Nat
        /\ lo[cur] <= k /\ k < hi[cur] /\ before = LeafEntries(Tree, P, h)
    BY <1>1, <1>3
  <2> HIDE DEF X
  <2>3. LeafEntries([Tree EXCEPT ![cur] = n], P, h) = Replaced(LeafEntries(Tree, P, h), k, X)
    BY ONLY <2>1, <2>2, EntriesReplaced
  <2> QED BY <1>9, <2>2, <2>3 DEF X
<1>13. Path(V, P, h, ancestors, cur)
  <2>1. ancestors \in Ancestors /\ \A x \in P \ {cur} : V[x] = Tree[x]
    <3>1. P \subseteq Page
      BY <1>1, GoodFacts DEF P
    <3> QED BY <1>2, <1>8, <3>1 DEF Types
  <2> QED BY ONLY <1>1, <1>3, <2>1, PathKept
<1>14. Good(V, last, lo, hi, h)
  BY <1>1, <1>11 DEF Good, P
<1>15. Working(V, last, lo, hi, h)
  BY <1>1, <1>12, <1>13, <1>14 DEF Working, Inserted, P, k, v
<1> QED BY <1>1, <1>3, <1>4, <1>7, <1>8, <1>15 DEF n, k, v, P

(* The tree of an unfinished insert is the same after a step that works on *)
(* the same page.                                                          *)
LEMMA WorkingKept ==
  ASSUME NEW V, NEW last, NEW lo, NEW hi, NEW h, Working(V, last, lo, hi, h),
         UNCHANGED <<call, ancestors, cur, before>>
  PROVE  Working(V, last, lo, hi, h)'
BY DEF Working, Inserted

(* The two leaves that a full one is split into.                           *)
LEMMA LeafSplit ==
  ASSUME NEW n \in LeafNode, num_cells(n) = MaxCells, NEW k \in Nat,
         NEW v \in Value \cup {Tombstone}, NEW new \in Page,
         NEW left, left = split_left(n, k, v, new), NEW right, right = split_right(n, k, v)
  PROVE  /\ left \in LeafNode /\ right \in LeafNode /\ left.root = n.root
         /\ right.root = FALSE
         /\ LeafCut(insert_cell(n, k, v), left, right, new, get_key(right, 0))
         /\ num_cells(left) \in MaxCells \div 2 .. MaxCells
         /\ num_cells(right) \in MaxCells \div 2 .. MaxCells
<1> DEFINE S == Value \cup {Tombstone}
           L == Page \cup {NoLeaf}
<1>1. n \in NodeOf(S, L) /\ n.type = "leaf" /\ v \in S /\ new \in L /\ NoLeaf \in L
  BY DEF LeafNode
<1> HIDE DEF S, L
<1>2. /\ left \in NodeOf(S, L) /\ left.root = n.root
      /\ right \in NodeOf(S, L) /\ right.root = FALSE
      /\ LeafCut(insert_cell(n, k, v), left, right, new, get_key(right, 0))
      /\ num_cells(left) \in MaxCells \div 2 .. MaxCells
      /\ num_cells(right) \in MaxCells \div 2 .. MaxCells
  <2>1. left \in NodeOf(S, L) /\ right \in NodeOf(S, L)
    BY <1>1, SplitLeafCut
  <2>2. left.root = n.root /\ right.root = FALSE
    BY <1>1 DEF NodeOf, split_left, split_right, initialize_as_leaf
  <2>3. LeafCut(insert_cell(n, k, v), left, right, new, get_key(right, 0))
    BY <1>1, SplitLeafCut
  <2>4. num_cells(left) \in MaxCells \div 2 .. MaxCells
    BY <1>1, SplitLeafCut
  <2>5. num_cells(right) \in MaxCells \div 2 .. MaxCells
    BY <1>1, SplitLeafCut
  <2> QED BY <2>1, <2>2, <2>3, <2>4, <2>5
<1>3. left.type = "leaf" /\ right.type = "leaf"
  BY <1>2 DEF LeafCut
<1> QED BY <1>2, <1>3 DEF LeafNode, S, L

(* The first cut of an insert: that of a full leaf.                        *)
LEMMA SplitLeafStep ==
  ASSUME NEW M, NEW U, NEW H, PageMemory(M, U, H), IInv(M, U, H), SplitLeaf
  PROVE  IInv(M, U, H)' /\ pc # "rest" /\ pc' # "rest" /\ before' = before /\ ret' = ret
<1> DEFINE k == call.key
           v == call.val
           n == insert_cell(node, k, v)
<1>1. /\ AtLeaf("insert") /\ Full(node) /\ pc = "descend" /\ node.type = "leaf"
      /\ mem.next_page_id \in Page
      /\ sep_key' = get_key(split_right(node, k, v), 0) /\ right_id' = mem.next_page_id
      /\ pc' = IF node.root THEN "new_root" ELSE "parent"
      /\ UNCHANGED <<call, cur, ancestors, left_id, over, ret, before>>
  BY DEF SplitLeaf, AtLeaf, Room
<1>2. PICK new : new = mem.next_page_id
  OBVIOUS
<1>3. PICK V : V = [Tree EXCEPT ![cur] = n]
  OBVIOUS
<1>4. PICK lo, hi, h : AtLeafOf(lo, hi, h)
  BY <1>1, LeafReached
<1>5. PICK left, right : left = split_left(node, k, v, new) /\ right = split_right(node, k, v)
  OBVIOUS
<1>6. /\ num_cells(node) = MaxCells /\ num_cells(V[cur]) = MaxCells + 1
      /\ call \in Calls /\ cur \in 0 .. new - 1 /\ h[cur] = 0
      /\ node = Tree[cur] /\ node \in LeafNode /\ (node.root <=> cur = 0)
      /\ V[cur] = n /\ \A x \in Page \ {cur} : V[x] = Tree[x]
      /\ Working(V, new - 1, lo, hi, h)
  BY <1>1, <1>2, <1>3, <1>4, FullLeaf
<1>7. /\ new \in Page /\ new \in Nat /\ k \in Nat /\ v \in Value \cup {Tombstone}
      /\ cur \in Page /\ new # cur /\ MemoryInv(M, U, H) /\ Types /\ Filled
      /\ Tree \in [Page -> Node]
  <2>1. MemoryInv(M, U, H) /\ Types /\ Filled
    BY DEF IInv
  <2>2. /\ call \in Calls /\ cur \in 0 .. new - 1 /\ new \in Page
    BY <1>1, <1>2, <1>6
  <2>3. k \in Nat /\ v \in Value \cup {Tombstone}
    BY <2>2, CallValue
  <2>4. new \in Nat /\ cur \in Page /\ new # cur
    BY <2>1, <2>2 DEF Page, Types
  <2> QED BY <2>1, <2>2, <2>3, <2>4, PagesCounted
<1>8. /\ left \in LeafNode /\ right \in LeafNode /\ left.root = node.root /\ right.root = FALSE
      /\ LeafCut(n, left, right, new, get_key(right, 0))
      /\ num_cells(left) \in MaxCells \div 2 .. MaxCells
      /\ num_cells(right) \in MaxCells \div 2 .. MaxCells
  <2>1. /\ node \in LeafNode /\ num_cells(node) = MaxCells /\ k \in Nat
        /\ v \in Value \cup {Tombstone} /\ new \in Page
    BY <1>6, <1>7
  <2> HIDE DEF k, v
  <2>2. left \in LeafNode /\ right \in LeafNode
    BY ONLY <1>5, <2>1, LeafSplit
  <2>3. left.root = node.root /\ right.root = FALSE
    BY <1>5, <2>1 DEF LeafNode, NodeOf, split_left, split_right, initialize_as_leaf
  <2>4. LeafCut(n, left, right, new, get_key(right, 0))
    BY ONLY <1>5, <2>1, LeafSplit DEF n
  <2>5. num_cells(left) \in MaxCells \div 2 .. MaxCells
    BY ONLY <1>5, <2>1, LeafSplit
  <2>6. num_cells(right) \in MaxCells \div 2 .. MaxCells
    BY ONLY <1>5, <2>1, LeafSplit
  <2> QED BY <2>2, <2>3, <2>4, <2>5, <2>6
<1>9. left \in Node /\ right \in Node
  BY <1>8, NodeKinds
<1> HIDE DEF k, v, n
<1>10. /\ MemoryInv(M, U, H)' /\ mem'.next_page_id = new + 1
       /\ Tree' = [Tree EXCEPT ![cur] = left, ![new] = right]
  BY <1>2, <1>5, <1>7, <1>9, SplitLeafMemory DEF k, v
<1>11. /\ Tree'[cur] = left /\ Tree'[new] = right
       /\ \A x \in Page \ {cur, new} : Tree'[x] = Tree[x]
  BY <1>7, <1>10
<1>12. sep_key' = get_key(right, 0) /\ sep_key' \in Nat /\ right_id' = new
  <2>1. Keyed(right) /\ num_cells(right) \in Nat \ {0}
    BY <1>8, NodeKinds DEF LeafCut
  <2>2. get_key(right, 0) \in Nat
    BY <2>1 DEF Keyed
  <2> QED BY <1>1, <1>2, <1>5, <2>2
<1>13. Types'
  BY <1>1, <1>7, <1>12 DEF Types
<1>14. Filled'
  <2>1. \A x \in Page : num_cells(Tree'[x]) <= MaxCells
    BY <1>7, <1>8, <1>11, MaxCellsAssumption DEF Filled
  <2>2. ASSUME NEW x \in 1 .. new PROVE num_cells(Tree'[x]) >= MaxCells \div 2
    <3>1. CASE x \in {cur, new}
      BY <1>8, <1>11, <3>1, MaxCellsAssumption
    <3>2. CASE x \notin {cur, new}
      <4>1. x \in 1 .. mem.next_page_id - 1 /\ x \in Page
        BY <1>2, <1>7, <3>2, LastPageAssumption DEF Page
      <4> QED BY <1>7, <1>11, <3>2, <4>1 DEF Filled
    <3> QED BY <3>1, <3>2
  <2>3. mem'.next_page_id - 1 = new
    BY <1>7, <1>10
  <2> QED BY ONLY <2>1, <2>2, <2>3 DEF Filled
<1>15. Splitting(V, lo, hi, h)'
  <2>1. mem'.next_page_id - 2 = new - 1 /\ Working(V, new - 1, lo, hi, h)'
    BY <1>1, <1>6, <1>7, <1>10, WorkingKept
  <2>2. right_id' = mem'.next_page_id - 1 /\ right_id' = new /\ cur' = cur
    BY <1>1, <1>7, <1>10, <1>12
  <2>3. \A x \in Page \ {cur, new} : Tree'[x] = V[x]
    BY <1>6, <1>11
  <2>4. Cut(V[cur], left, right, new, sep_key', h[cur])
    BY <1>6, <1>8, <1>12 DEF Cut
  <2>5. right.root = FALSE /\ num_cells(left) >= MaxCells \div 2
    BY <1>8, MaxCellsAssumption
  <2>6. pc' = "parent" => cur # 0 /\ left.root = FALSE
    <3>1. node.root \in BOOLEAN
      BY <1>6, NodeKinds
    <3> QED BY <1>1, <1>6, <1>8, <3>1
  <2>7. pc' = "new_root" => cur = 0 /\ h[0] = 0
    BY <1>1, <1>6
  <2>8. pc' # "split_root"
    BY <1>1
  <2> QED BY <1>11, <2>1, <2>2, <2>3, <2>4, <2>5, <2>6, <2>7, <2>8 DEF Splitting
<1>16. pc' \in {"new_root", "parent"}
  BY <1>1
<1>17. TreeInv'
  BY <1>15, <1>16 DEF TreeInv
<1> QED BY <1>1, <1>10, <1>13, <1>14, <1>16, <1>17 DEF IInv

(* What is known when a node has been cut and its parent has not heard of  *)
(* the new half.                                                           *)
LEMMA SplittingFacts ==
  ASSUME NEW M, NEW U, NEW H, PageMemory(M, U, H), IInv(M, U, H),
         NEW V, NEW lo, NEW hi, NEW h, Splitting(V, lo, hi, h)
  PROVE  /\ mem.next_page_id \in Nat /\ mem.next_page_id - 2 \in Nat /\ cur \in Page
         /\ right_id \in Page /\ right_id = mem.next_page_id - 1 /\ right_id # cur /\ right_id # 0
         /\ cur \in 0 .. mem.next_page_id - 2 /\ Tree \in [Page -> Node]
         /\ Good(V, mem.next_page_id - 2, lo, hi, h)
         /\ 0 .. mem.next_page_id - 2 \subseteq Page \ {right_id}
         /\ MemoryInv(M, U, H) /\ Types /\ Filled
<1>1. MemoryInv(M, U, H) /\ Types /\ Filled
  BY DEF IInv
<1>2. mem.next_page_id \in Nat /\ Tree \in [Page -> Node]
  BY <1>1, PagesCounted
<1>3. cur \in Page /\ right_id \in Page
  BY <1>1 DEF Types
<1>4. /\ Good(V, mem.next_page_id - 2, lo, hi, h) /\ right_id = mem.next_page_id - 1
      /\ cur \in 0 .. mem.next_page_id - 2
  BY DEF Splitting, Working, Path
<1>5. mem.next_page_id - 2 \in Nat /\ 0 .. mem.next_page_id - 2 \subseteq Page
  BY <1>4, GoodFacts
<1>6. right_id # cur /\ right_id # 0 /\ 0 .. mem.next_page_id - 2 \subseteq Page \ {right_id}
  BY <1>2, <1>4, <1>5
<1> QED BY <1>1, <1>2, <1>3, <1>4, <1>5, <1>6

(* A leaf that was the root, turned into an internal node of one cell.     *)
LEMMA StubNode ==
  ASSUME NEW n \in LeafNode, num_cells(n) >= 1, NEW stub,
         stub = [n EXCEPT !.type = "internal", !.root = TRUE, !.cells = SubSeq(@, 1, 1)]
  PROVE  stub \in Node /\ num_cells(stub) = 1
<1> DEFINE S == CellOf(Value \cup {Tombstone})
           T == [key : Nat, val : Value \cup Page \cup {Tombstone}]
<1>1. /\ n.cells \in Seq(S) /\ n.link \in Page \cup {NoLeaf} /\ num_cells(n) = Len(n.cells)
      /\ n \in [type : {"leaf", "internal"}, root : BOOLEAN, cells : Seq(S),
                link : Page \cup {NoLeaf}]
  BY DEF LeafNode, NodeOf, num_cells
<1>2. S \subseteq T
  BY DEF CellOf
<1> HIDE DEF S, T
<1>3. 1 <= Len(n.cells)
  BY <1>1
<1>4. SubSeq(n.cells, 1, 1) \in Seq(S) /\ Len(SubSeq(n.cells, 1, 1)) = 1
  BY <1>1, <1>3, SubSeqIs DEF PartOf
<1>5. SubSeq(n.cells, 1, 1) \in Seq(T)
  BY <1>2, <1>4
<1>6. stub = [type |-> "internal", root |-> TRUE, cells |-> SubSeq(n.cells, 1, 1),
              link |-> n.link]
  BY <1>1
<1>7. stub \in Node
  BY <1>1, <1>5, <1>6 DEF Node, T
<1>8. num_cells(stub) = 1
  BY <1>4, <1>6 DEF num_cells
<1> QED BY <1>7, <1>8

(* The root leaf that was cut moves to a new page.                         *)
LEMMA NewRootCopyStep ==
  ASSUME NEW M, NEW U, NEW H, PageMemory(M, U, H), IInv(M, U, H), NewRootCopy
  PROVE  IInv(M, U, H)' /\ pc # "rest" /\ pc' # "rest" /\ before' = before /\ ret' = ret
<1>1. /\ pc = "new_root" /\ mem.next_page_id \in Page /\ left_id' = mem.next_page_id
      /\ pc' = "link_root"
      /\ UNCHANGED <<call, cur, ancestors, sep_key, right_id, over, ret, before>>
  BY DEF NewRootCopy, Room
<1>2. PICK new : new = mem.next_page_id
  OBVIOUS
<1>3. PICK V, lo, hi, h : Splitting(V, lo, hi, h)
  BY <1>1 DEF IInv, TreeInv
<1>4. /\ new \in Nat /\ new - 2 \in Nat /\ right_id \in Page /\ right_id = new - 1
      /\ right_id # 0 /\ Tree \in [Page -> Node] /\ 0 .. new - 2 \subseteq Page
      /\ MemoryInv(M, U, H) /\ Types /\ Filled /\ new \in Page /\ cur \in Page
  BY <1>1, <1>2, <1>3, SplittingFacts
<1>5. /\ Working(V, new - 2, lo, hi, h) /\ cur = 0 /\ h[0] = 0
      /\ \A x \in Page \ {0, right_id} : Tree[x] = V[x]
      /\ Cut(V[0], Tree[0], Tree[right_id], right_id, sep_key, 0)
      /\ Tree[right_id].root = FALSE /\ num_cells(Tree[0]) >= MaxCells \div 2
  BY <1>1, <1>2, <1>3 DEF Splitting
<1>6. /\ Tree[0] \in LeafNode /\ num_cells(Tree[0]) \in Nat /\ num_cells(Tree[0]) >= 1
      /\ node = Tree[0]
  BY <1>5, NodeKinds DEF Cut, LeafCut, node, Tree
<1>7. PICK copy, stub :
        /\ copy = [node EXCEPT !.root = FALSE]
        /\ stub = [node EXCEPT !.type = "internal", !.root = TRUE, !.cells = SubSeq(@, 1, 1)]
  OBVIOUS
<1>8. copy.root = FALSE /\ SameCells(Tree[0], copy)
  BY <1>6, <1>7, RootFlag
<1>9. copy \in Node /\ stub \in Node /\ num_cells(stub) = 1 /\ num_cells(copy) = num_cells(Tree[0])
  <2>1. copy \in LeafNode /\ num_cells(copy) = num_cells(Tree[0])
    BY <1>6, <1>8 DEF SameCells
  <2>2. stub \in Node /\ num_cells(stub) = 1
    BY <1>6, <1>7, StubNode
  <2> QED BY <2>1, <2>2, NodeKinds
<1>10. /\ MemoryInv(M, U, H)' /\ mem'.next_page_id = new + 1
       /\ Tree' = [Tree EXCEPT ![new] = copy, ![cur] = stub]
  BY <1>2, <1>4, <1>7, <1>9, NewRootCopyMemory
<1>11. new # 0 /\ new # right_id
  BY <1>4
<1>12. /\ Tree'[0] = stub /\ Tree'[new] = copy
       /\ \A x \in Page \ {0, new} : Tree'[x] = Tree[x]
  BY <1>4, <1>5, <1>10, <1>11
<1>13. Types'
  BY <1>1, <1>2, <1>4 DEF Types
<1>14. Filled'
  <2>1. ASSUME NEW x \in Page PROVE num_cells(Tree'[x]) <= MaxCells
    <3>1. num_cells(Tree[x]) <= MaxCells /\ num_cells(Tree[0]) <= MaxCells
      BY <1>4, <1>5 DEF Filled
    <3> QED BY <1>9, <1>12, <3>1, MaxCellsAssumption
  <2>2. ASSUME NEW x \in 1 .. new PROVE num_cells(Tree'[x]) >= MaxCells \div 2
    <3>1. CASE x = new
      BY <1>5, <1>9, <1>12, <3>1
    <3>2. CASE x # new
      <4>1. x \in 1 .. mem.next_page_id - 1 /\ x \in Page /\ x # 0
        BY <1>2, <1>4, <3>2, LastPageAssumption DEF Page
      <4> QED BY <1>4, <1>12, <3>2, <4>1 DEF Filled
    <3> QED BY <3>1, <3>2
  <2>3. mem'.next_page_id - 1 = new
    BY <1>4, <1>10
  <2> QED BY ONLY <2>1, <2>2, <2>3 DEF Filled
<1>15. Linking(V, lo, hi, h)'
  <2>1. mem'.next_page_id - 3 = new - 2 /\ Working(V, new - 2, lo, hi, h)'
    BY <1>1, <1>4, <1>5, <1>10, WorkingKept
  <2>2. /\ right_id' = mem'.next_page_id - 2 /\ left_id' = mem'.next_page_id - 1
        /\ right_id' = right_id /\ left_id' = new /\ cur' = 0 /\ sep_key' = sep_key
    BY <1>1, <1>2, <1>4, <1>5, <1>10
  <2>3. \A x \in Page \ {0, new, right_id} : Tree'[x] = V[x]
    BY <1>5, <1>12
  <2>4. Tree'[right_id] = Tree[right_id]
    BY <1>4, <1>11, <1>12
  <2>5. Cut(V[0], copy, Tree[right_id], right_id, sep_key, 0)
    BY <1>5, <1>8, CutLeftSame
  <2> QED BY <1>5, <1>8, <1>12, <2>1, <2>2, <2>3, <2>4, <2>5 DEF Linking
<1>16. TreeInv'
  BY <1>1, <1>15 DEF TreeInv
<1> QED BY <1>1, <1>10, <1>13, <1>14, <1>16 DEF IInv

(* A root is Internal.                                                     *)
LEMMA RootNode ==
  ASSUME NEW sep \in Nat, NEW l \in Page, NEW r \in Page
  PROVE  LET n == Internal(TRUE, <<sep>>, <<l, r>>)
         IN  n \in Node /\ num_cells(n) = 1 /\ n \in InternalNode
<1> DEFINE keys == <<sep>>
           children == <<l, r>>
<1>1. /\ keys \in Seq(Nat) /\ children \in Seq(Page) /\ Len(keys) = 1
      /\ Len(children) = Len(keys) + 1
  OBVIOUS
<1> HIDE DEF keys, children
<1>2. /\ Internal(TRUE, keys, children) \in InternalNode
      /\ InternalParts(Internal(TRUE, keys, children), TRUE, keys, children)
  BY <1>1, InternalIs DEF InternalNode
<1>3. num_cells(Internal(TRUE, keys, children)) = 1
  BY <1>1, <1>2 DEF InternalParts
<1> QED BY <1>2, <1>3, NodeKinds DEF keys, children

(* An insert that has put a new root above the halves of the old one is    *)
(* over.                                                                   *)
LEMMA RootReturned ==
  ASSUME NEW M, NEW U, NEW H, NEW V, NEW last, NEW lo, NEW hi, NEW h, Working(V, last, lo, hi, h),
         NEW l, NEW r, NEW sep, NEW W, RootDivided(V, last, h, l, r, sep, W),
         Tree' = W, mem'.next_page_id = last + 3, MemoryInv(M, U, H)', Filled',
         NEW x, Return(x)
  PROVE  IInv(M, U, H)' /\ Entries(Tree)' = Inserted
<1>1. Good(V, last, lo, hi, h) /\ LeafEntries(V, 0 .. last, h) = Inserted
  BY DEF Working
<1>2. PICK top : top = last + 2
  OBVIOUS
<1>3. PICK lo2, hi2, h2 : /\ Good(W, top, lo2, hi2, h2)
                          /\ LeafEntries(W, 0 .. top, h2) = LeafEntries(V, 0 .. last, h)
  BY <1>1, <1>2, RootCommitted
<1>4. last \in Nat
  BY <1>1, GoodFacts
<1>5. mem'.next_page_id - 1 = top
  BY <1>2, <1>4
<1>6. Types' /\ pc' = "rest" /\ ancestors' = <<>>
  BY ReturnTypes
<1>7. RestInv'
  BY <1>3, <1>5, <1>6 DEF RestInv
<1>8. Entries(W) = LeafEntries(W, 0 .. top, h2)
  BY <1>3, GoodFacts
<1>9. Entries(Tree)' = Inserted
  BY <1>1, <1>3, <1>8
<1> QED BY <1>6, <1>7, <1>9 DEF IInv, TreeInv

(* The new root above the two halves of the leaf that was the root.        *)
LEMMA NewRootLinkStep ==
  ASSUME NEW M, NEW U, NEW H, PageMemory(M, U, H), IInv(M, U, H), NewRootLink
  PROVE  /\ IInv(M, U, H)' /\ Entries(Tree)' = Inserted
         /\ pc # "rest" /\ call \in Calls /\ ret' = "void"
<1>1. pc = "link_root" /\ Return("void")
  BY DEF NewRootLink
<1>2. PICK V, lo, hi, h : Linking(V, lo, hi, h)
  BY <1>1 DEF IInv, TreeInv
<1>3. PICK last : last = mem.next_page_id - 3
  OBVIOUS
<1>4. /\ Working(V, last, lo, hi, h) /\ Good(V, last, lo, hi, h) /\ call \in Calls
      /\ cur = 0 /\ h[0] = 0
      /\ right_id = mem.next_page_id - 2 /\ left_id = mem.next_page_id - 1
      /\ \A x \in Page \ {0, left_id, right_id} : Tree[x] = V[x]
      /\ Cut(V[0], Tree[left_id], Tree[right_id], right_id, sep_key, 0)
      /\ Tree[left_id].root = FALSE /\ Tree[right_id].root = FALSE
  BY <1>2, <1>3 DEF Linking, Working
<1>5. MemoryInv(M, U, H) /\ Types /\ Filled
  BY DEF IInv
<1>6. /\ mem.next_page_id \in Nat /\ Tree \in [Page -> Node] /\ cur \in Page /\ right_id \in Page
      /\ left_id \in Page /\ sep_key \in Nat
  BY <1>5, PagesCounted DEF Types
<1>7. last \in Nat
  BY <1>4, GoodFacts
<1>8. /\ right_id = last + 1 /\ left_id = last + 2 /\ right_id < mem.next_page_id
      /\ mem.next_page_id = last + 3
  BY <1>3, <1>4, <1>6, <1>7
<1>9. sep_key = get_key(Tree[right_id], 0)
  BY <1>4 DEF Cut, LeafCut
<1>10. PICK root : root = Internal(TRUE, <<sep_key>>, <<left_id, right_id>>)
  OBVIOUS
<1>11. root \in Node /\ num_cells(root) = 1
  BY <1>6, <1>10, RootNode
<1>12. /\ MemoryInv(M, U, H)' /\ mem'.next_page_id = mem.next_page_id
       /\ Tree' = [Tree EXCEPT ![cur] = root]
  BY <1>5, <1>6, <1>8, <1>9, <1>10, <1>11, NewRootLinkMemory
<1>13. PICK W : W = [Tree EXCEPT ![0] = root]
  OBVIOUS
<1>14. 0 \in Page /\ left_id # 0 /\ right_id # 0
  BY <1>4, <1>6, <1>7, <1>8
<1>15. /\ W \in [Page -> Node] /\ W[0] = root /\ \A x \in Page \ {0} : W[x] = Tree[x]
  BY <1>6, <1>11, <1>13, <1>14
<1>16. Filled'
  <2>1. ASSUME NEW x \in Page PROVE num_cells(W[x]) <= MaxCells
    <3>1. num_cells(Tree[x]) <= MaxCells
      BY <1>5 DEF Filled
    <3> QED BY <1>11, <1>15, <3>1, MaxCellsAssumption
  <2>2. ASSUME NEW x \in 1 .. mem.next_page_id - 1 PROVE num_cells(W[x]) >= MaxCells \div 2
    <3>1. num_cells(Tree[x]) >= MaxCells \div 2
      BY <1>5 DEF Filled
    <3>2. x \in Page /\ x # 0
      BY <1>6, <1>4, LastPageAssumption DEF Page
    <3> QED BY <1>15, <3>1, <3>2
  <2> QED BY <1>4, <1>12, <1>13, <2>1, <2>2 DEF Filled
<1>17. /\ W[left_id] = Tree[left_id] /\ W[right_id] = Tree[right_id]
       /\ \A x \in Page \ {0, left_id, right_id} : W[x] = V[x]
  BY <1>4, <1>6, <1>14, <1>15
<1>18. /\ {left_id, right_id} = {last + 1, last + 2} /\ left_id # right_id
  BY <1>7, <1>8
<1>19. Cut(V[0], W[left_id], W[right_id], right_id, sep_key, h[0])
  BY <1>4, <1>17
<1>20. Tree' = W /\ mem'.next_page_id = last + 3
  BY <1>4, <1>8, <1>12, <1>13
<1>21. W[0] = Internal(TRUE, <<sep_key>>, <<left_id, right_id>>)
  BY <1>10, <1>15
<1>22. W[left_id].root = FALSE /\ W[right_id].root = FALSE
  BY <1>4, <1>17
<1>23. PICK l, r, sep : l = left_id /\ r = right_id /\ sep = sep_key
  OBVIOUS
<1>24. RootDivided(V, last, h, left_id, right_id, sep_key, W)
  BY <1>6, <1>15, <1>17, <1>18, <1>19, <1>21, <1>22 DEF RootDivided
<1>25. RootDivided(V, last, h, l, r, sep, W)
  BY <1>23, <1>24
<1>26. IInv(M, U, H)' /\ Entries(Tree)' = Inserted
  BY ONLY <1>1, <1>4, <1>12, <1>16, <1>20, <1>25, RootReturned
<1> QED BY <1>1, <1>4, <1>26, ReturnTypes

(* The new root above the two halves of an internal node that was the root.*)
LEMMA SplitRootStep ==
  ASSUME NEW M, NEW U, NEW H, PageMemory(M, U, H), IInv(M, U, H), SplitRoot
  PROVE  /\ IInv(M, U, H)' /\ Entries(Tree)' = Inserted
         /\ pc # "rest" /\ call \in Calls /\ ret' = "void"
<1>1. pc = "split_root" /\ Return("void") /\ mem.next_page_id \in Page
  BY DEF SplitRoot, Room
<1>2. PICK V, lo, hi, h : Splitting(V, lo, hi, h)
  BY <1>1 DEF IInv, TreeInv
<1>3. PICK last, new : last = mem.next_page_id - 2 /\ new = mem.next_page_id
  OBVIOUS
<1>4. /\ new \in Nat /\ last \in Nat /\ right_id \in Page /\ right_id = new - 1
      /\ right_id # 0 /\ Tree \in [Page -> Node] /\ Good(V, last, lo, hi, h)
      /\ MemoryInv(M, U, H) /\ Types /\ Filled /\ new \in Page /\ cur \in Page
  BY <1>1, <1>2, <1>3, SplittingFacts
<1>5. /\ Working(V, last, lo, hi, h) /\ cur = 0 /\ call \in Calls
      /\ \A x \in Page \ {0, right_id} : Tree[x] = V[x]
      /\ Cut(V[0], Tree[0], Tree[right_id], right_id, sep_key, h[0])
      /\ Tree[right_id].root = FALSE /\ Tree[0].root = FALSE
      /\ num_cells(Tree[0]) >= MaxCells \div 2
  BY <1>1, <1>2, <1>3 DEF Splitting, Working
<1>6. sep_key \in Nat /\ node = Tree[0] /\ node \in Node
  BY <1>4, <1>5 DEF Types, node, Tree
<1>7. PICK root : root = Internal(TRUE, <<sep_key>>, <<new, right_id>>)
  OBVIOUS
<1>8. root \in Node /\ num_cells(root) = 1
  BY <1>4, <1>6, <1>7, RootNode
<1>9. /\ MemoryInv(M, U, H)' /\ mem'.next_page_id = new + 1
      /\ Tree' = [Tree EXCEPT ![new] = node, ![cur] = root]
  <2>1. /\ MemoryInv(M, U, H) /\ cur \in Page /\ right_id \in Page /\ node \in Node
        /\ new = mem.next_page_id /\ root \in Node
        /\ root = Internal(TRUE, <<sep_key>>, <<new, right_id>>)
    BY <1>3, <1>4, <1>6, <1>7, <1>8
  <2>2. /\ MemoryInv(M, U, H)' /\ mem'.next_page_id = mem.next_page_id + 1
        /\ Tree' = [Tree EXCEPT ![new] = node, ![cur] = root]
    BY ONLY PageMemory(M, U, H), SplitRoot, <2>1, SplitRootMemory
  <2> QED BY <2>1, <2>2
<1>10. new # 0 /\ new # right_id /\ right_id = last + 1 /\ new = last + 2 /\ new + 1 = last + 3
  BY <1>3, <1>4
<1>11. PICK W : W = [Tree EXCEPT ![new] = node, ![0] = root]
  OBVIOUS
<1>12. /\ W \in [Page -> Node] /\ W[0] = root /\ W[new] = Tree[0]
       /\ \A x \in Page \ {0, new} : W[x] = Tree[x]
  BY <1>4, <1>5, <1>6, <1>8, <1>10, <1>11
<1>13. Filled'
  <2>1. ASSUME NEW x \in Page PROVE num_cells(W[x]) <= MaxCells
    <3>1. num_cells(Tree[x]) <= MaxCells /\ num_cells(Tree[0]) <= MaxCells
      BY <1>4, <1>5 DEF Filled
    <3> QED BY <1>8, <1>12, <3>1, MaxCellsAssumption
  <2>2. ASSUME NEW x \in 1 .. new PROVE num_cells(W[x]) >= MaxCells \div 2
    <3>1. CASE x = new
      BY <1>5, <1>12, <3>1
    <3>2. CASE x # new
      <4>1. x \in 1 .. mem.next_page_id - 1 /\ x \in Page /\ x # 0
        BY <1>3, <1>4, <3>2, LastPageAssumption DEF Page
      <4> QED BY <1>4, <1>12, <3>2, <4>1 DEF Filled
    <3> QED BY <3>1, <3>2
  <2>3. mem'.next_page_id - 1 = new /\ Tree' = W
    BY <1>4, <1>5, <1>9, <1>11
  <2> QED BY ONLY <2>1, <2>2, <2>3 DEF Filled
<1>14. /\ W[right_id] = Tree[right_id] /\ \A x \in Page \ {0, new, right_id} : W[x] = V[x]
  BY <1>4, <1>5, <1>10, <1>12
<1>15. {new, right_id} = {last + 1, last + 2} /\ new # right_id
  BY <1>10
<1>16. Cut(V[0], W[new], W[right_id], right_id, sep_key, h[0])
  BY <1>5, <1>12, <1>14
<1>17. Tree' = W /\ mem'.next_page_id = last + 3
  BY <1>5, <1>9, <1>10, <1>11
<1>18. W[0] = Internal(TRUE, <<sep_key>>, <<new, right_id>>)
  BY <1>7, <1>12
<1>19. W[new].root = FALSE /\ W[right_id].root = FALSE
  BY <1>5, <1>12, <1>14
<1>20. PICK r, sep : r = right_id /\ sep = sep_key
  OBVIOUS
<1>21. RootDivided(V, last, h, new, right_id, sep_key, W)
  BY <1>4, <1>6, <1>12, <1>14, <1>15, <1>16, <1>18, <1>19 DEF RootDivided
<1>22. RootDivided(V, last, h, new, r, sep, W)
  BY <1>20, <1>21
<1>23. IInv(M, U, H)' /\ Entries(Tree)' = Inserted
  BY ONLY <1>1, <1>5, <1>9, <1>13, <1>17, <1>22, RootReturned
<1> QED BY <1>1, <1>5, <1>23, ReturnTypes

(* The separator of a cut is between the keys of the node that was cut.    *)
LEMMA CutBetween ==
  ASSUME NEW V, NEW last, NEW lo, NEW hi, NEW h, Good(V, last, lo, hi, h),
         NEW p \in 0 .. last, NEW left, NEW right, NEW r, NEW sep,
         Cut(V[p], left, right, r, sep, h[p])
  PROVE  sep \in Nat /\ lo[p] < sep /\ sep < hi[p]
<1>1. /\ lo[p] \in Nat /\ hi[p] \in Nat /\ h[p] \in Nat
      /\ h[p] = 0 => LeafIn(V[p], lo[p], hi[p])
      /\ h[p] > 0 => InternalIn(V[p], lo[p], hi[p])
  BY GoodFacts
<1>2. CASE h[p] = 0
  <2>1. left \in LeafNode /\ right \in LeafNode /\ LeafCut(V[p], left, right, r, sep)
    BY <1>2 DEF Cut
  <2> QED BY ONLY <1>1, <1>2, <2>1, LeafCutIn
<1>3. CASE h[p] > 0
  <2>1. left \in InternalNode /\ right \in InternalNode /\ InternalCut(V[p], left, right, sep)
    BY <1>1, <1>3 DEF Cut
  <2> QED BY ONLY <1>1, <1>3, <2>1, InternalCutIn
<1> QED BY <1>1, <1>2, <1>3

(* The parent of a node that was cut has the node in the slot the descent  *)
(* took, and that is where the separator belongs.                          *)
LEMMA ParentOfCut ==
  ASSUME NEW V, NEW last, NEW lo, NEW hi, NEW h, Good(V, last, lo, hi, h),
         NEW anc \in Ancestors, NEW c, c # 0, Path(V, 0 .. last, h, anc, c),
         NEW left, NEW right, NEW r, NEW sep, Cut(V[c], left, right, r, sep, h[c]),
         NEW q, NEW s, q = anc[Len(anc)][1], s = anc[Len(anc)][2]
  PROVE  /\ q \in 0 .. last /\ h[q] = h[c] + 1 /\ q # c /\ h[q] > 0 /\ V[q] \in InternalNode
         /\ s \in 0 .. num_cells(V[q]) /\ Child(V[q], s) = c /\ sep \in Nat
         /\ child_slot(V[q], sep) = s /\ c \in 0 .. last
<1> DEFINE P == 0 .. last
<1>1. Shape(V, P, lo, hi, h) /\ c \in P
  BY GoodFacts DEF Path
<1>2. /\ q \in P /\ h[q] = h[c] + 1 /\ s \in 0 .. num_cells(V[q]) /\ Child(V[q], s) = c
  <2>1. Path(V, P, h, anc, c)
    OBVIOUS
  <2> HIDE DEF P
  <2>2. LET a == anc[Len(anc)][1]
            b == anc[Len(anc)][2]
        IN  /\ Len(anc) \in Nat \ {0} /\ a \in P /\ h[a] = h[c] + 1
            /\ b \in 0 .. num_cells(V[a]) /\ Child(V[a], b) = c
    BY <1>1, <2>1, PathEnds
  <2> QED BY <2>2
<1>3. h[c] \in Nat /\ h[q] \in Nat
  BY <1>1, <1>2, GoodFacts
<1>4. h[q] > 0 /\ q # c
  BY <1>2, <1>3
<1>5. V[q] \in InternalNode
  BY <1>2, <1>4, GoodFacts
<1>6. sep \in Nat /\ lo[c] < sep /\ sep < hi[c]
  BY <1>1, CutBetween
<1>7. /\ lo[q] \in Nat /\ hi[q] \in Nat /\ lo[c] \in Nat /\ hi[c] \in Nat
  BY <1>1, <1>2, GoodFacts
<1>8. lo[q] <= lo[c] /\ hi[c] <= hi[q]
  <2>1. lo[q] <= lo[Child(V[q], s)] /\ hi[Child(V[q], s)] <= hi[q]
    BY ONLY <1>1, <1>2, <1>4, ShapeFacts
  <2> QED BY <1>2, <2>1
<1>9. lo[q] <= sep /\ sep < hi[q] /\ lo[c] <= sep
  BY <1>6, <1>7, <1>8
<1>10. \A j \in 0 .. num_cells(V[q]) :
         lo[Child(V[q], j)] <= sep /\ sep < hi[Child(V[q], j)] => j = child_slot(V[q], sep)
  <2>1. Shape(V, P, lo, hi, h) /\ q \in P /\ h[q] > 0 /\ sep \in Nat /\ lo[q] <= sep /\ sep < hi[q]
    BY <1>1, <1>2, <1>4, <1>6, <1>9
  <2> HIDE DEF P
  <2>2. LET i == child_slot(V[q], sep)
            d == Child(V[q], i)
        IN  /\ i \in 0 .. num_cells(V[q]) /\ lo[d] <= sep /\ sep < hi[d]
            /\ \A j \in 0 .. num_cells(V[q]) :
                 lo[Child(V[q], j)] <= sep /\ sep < hi[Child(V[q], j)] => j = i
    BY ONLY <2>1, ChildOfKey
  <2> QED BY <2>2
<1>11. child_slot(V[q], sep) = s
  BY <1>2, <1>6, <1>9, <1>10
<1> QED BY <1>1, <1>2, <1>4, <1>5, <1>6, <1>11

(* The parent with the new half as a child: the tree is whole again.       *)
LEMMA ParentTakes ==
  ASSUME NEW M, NEW U, NEW H, PageMemory(M, U, H), IInv(M, U, H), pc = "parent",
         NEW V, NEW lo, NEW hi, NEW h, Splitting(V, lo, hi, h),
         NEW q, NEW s, q = ancestors[Len(ancestors)][1], s = ancestors[Len(ancestors)][2],
         NEW n, n = insert_child(Tree[q], s, sep_key, right_id)
  PROVE  /\ q \in 0 .. mem.next_page_id - 2 /\ q # cur /\ q # right_id /\ cur # 0 /\ h[q] > 0
         /\ Tree[q] = V[q] /\ num_cells(Tree[q]) \in Nat /\ q \in Page
         /\ child_slot(Tree[q], sep_key) = s
         /\ n \in InternalNode /\ num_cells(n) = num_cells(Tree[q]) + 1
         /\ Divided(V, 0 .. mem.next_page_id - 2, h, cur, right_id, sep_key, q, s,
                    [Tree EXCEPT ![q] = n])
<1> DEFINE last == mem.next_page_id - 2
<1>1. /\ mem.next_page_id \in Nat /\ last \in Nat /\ right_id \in Page
      /\ right_id = mem.next_page_id - 1 /\ right_id # cur /\ right_id # 0 /\ cur \in 0 .. last
      /\ Tree \in [Page -> Node] /\ Good(V, last, lo, hi, h)
      /\ 0 .. last \subseteq Page \ {right_id} /\ Types
  BY SplittingFacts
<1>2. /\ \A x \in Page \ {cur, right_id} : Tree[x] = V[x]
      /\ Cut(V[cur], Tree[cur], Tree[right_id], right_id, sep_key, h[cur])
      /\ Tree[right_id].root = FALSE /\ Tree[cur].root = FALSE /\ cur # 0
      /\ Path(V, 0 .. last, h, ancestors, cur)
  BY DEF Splitting, Working
<1> HIDE DEF last
<1>3. ancestors \in Ancestors
  BY <1>1 DEF Types
<1>4. /\ q \in 0 .. last /\ h[q] = h[cur] + 1 /\ q # cur /\ h[q] > 0 /\ V[q] \in InternalNode
      /\ s \in 0 .. num_cells(V[q]) /\ Child(V[q], s) = cur /\ sep_key \in Nat
      /\ child_slot(V[q], sep_key) = s
  BY <1>1, <1>2, <1>3, ParentOfCut
<1>5. q \in Page /\ q # right_id /\ Tree[q] = V[q]
  BY <1>1, <1>2, <1>4
<1>6. n = insert_child(V[q], s, sep_key, right_id)
  BY <1>5
<1>7. n \in InternalNode /\ n.root = V[q].root /\ ChildPut(V[q], n, s, sep_key, right_id)
  <2>1. V[q] \in InternalOf(Page)
    BY <1>4 DEF InternalNode
  <2>2. n \in InternalOf(Page) /\ ChildPut(V[q], n, s, sep_key, right_id)
    BY ONLY <1>1, <1>4, <1>6, <2>1, InsertChild
  <2>3. n.root = V[q].root
    BY <1>6 DEF insert_child, Internal
  <2> QED BY <2>2, <2>3 DEF InternalNode
<1>8. num_cells(n) = num_cells(Tree[q]) + 1 /\ num_cells(Tree[q]) \in Nat
  BY <1>4, <1>5, <1>7, NodeKinds DEF ChildPut
<1>9. PICK W : W = [Tree EXCEPT ![q] = n]
  OBVIOUS
<1>10. n \in Node
  BY <1>7, NodeKinds
<1>11. W \in [Page -> Node] /\ W[q] = n /\ \A x \in Page \ {q} : W[x] = Tree[x]
  BY <1>1, <1>5, <1>9, <1>10
<1>12. W[cur] = Tree[cur] /\ W[right_id] = Tree[right_id]
  BY <1>1, <1>4, <1>5, <1>11
<1>13. \A x \in 0 .. last \ {cur, q} : W[x] = V[x]
  BY <1>1, <1>2, <1>11
<1>14. Divided(V, 0 .. last, h, cur, right_id, sep_key, q, s, W)
  BY <1>1, <1>2, <1>4, <1>7, <1>11, <1>12, <1>13 DEF Divided
<1> QED BY <1>2, <1>4, <1>5, <1>7, <1>8, <1>9, <1>14 DEF last

(* insert_into_parent: either the insert is over, or the parent has one    *)
(* key too many.                                                           *)
LEMMA InsertIntoParentStep ==
  ASSUME NEW M, NEW U, NEW H, PageMemory(M, U, H), IInv(M, U, H), InsertIntoParent
  PROVE  /\ IInv(M, U, H)' /\ pc # "rest"
         /\ \/ pc' # "rest" /\ before' = before /\ ret' = ret
            \/ pc' = "rest" /\ Entries(Tree)' = Inserted /\ call \in Calls /\ ret' = "void"
<1>1. PICK q, s : q = ancestors[Len(ancestors)][1] /\ s = ancestors[Len(ancestors)][2]
  OBVIOUS
<1>2. PICK V, lo, hi, h : Splitting(V, lo, hi, h)
  BY DEF IInv, TreeInv, InsertIntoParent
<1>3. PICK n : n = insert_child(Tree[q], s, sep_key, right_id)
  OBVIOUS
<1>4. PICK last, r : last = mem.next_page_id - 2 /\ r = right_id
  OBVIOUS
<1>5. PICK W : W = [Tree EXCEPT ![q] = n]
  OBVIOUS
<1>6. pc = "parent"
  BY DEF InsertIntoParent
<1>7. /\ q \in 0 .. last /\ q # cur /\ q # r /\ cur # 0 /\ h[q] > 0
      /\ Tree[q] = V[q] /\ num_cells(Tree[q]) \in Nat /\ q \in Page
      /\ child_slot(Tree[q], sep_key) = s
      /\ n \in InternalNode /\ num_cells(n) = num_cells(Tree[q]) + 1
      /\ Divided(V, 0 .. last, h, cur, r, sep_key, q, s, W)
  <2>1. /\ q \in 0 .. mem.next_page_id - 2 /\ q # cur /\ q # right_id /\ cur # 0
        /\ h[q] > 0 /\ Tree[q] = V[q] /\ num_cells(Tree[q]) \in Nat /\ q \in Page
        /\ child_slot(Tree[q], sep_key) = s
        /\ n \in InternalNode /\ num_cells(n) = num_cells(Tree[q]) + 1
        /\ Divided(V, 0 .. mem.next_page_id - 2, h, cur, right_id, sep_key, q, s,
                   [Tree EXCEPT ![q] = n])
    BY ONLY PageMemory(M, U, H), IInv(M, U, H), <1>1, <1>2, <1>3, <1>6, ParentTakes
  <2> QED BY ONLY <2>1, <1>4, <1>5
<1>8. /\ mem.next_page_id \in Nat /\ last \in Nat /\ r \in Page /\ r = last + 1
      /\ r = mem.next_page_id - 1 /\ cur \in 0 .. last /\ Tree \in [Page -> Node]
      /\ MemoryInv(M, U, H) /\ Types /\ Filled
  <2>1. /\ mem.next_page_id \in Nat /\ mem.next_page_id - 2 \in Nat /\ right_id \in Page
        /\ right_id = mem.next_page_id - 1 /\ cur \in 0 .. mem.next_page_id - 2
        /\ Tree \in [Page -> Node] /\ MemoryInv(M, U, H) /\ Types /\ Filled
    BY <1>2, SplittingFacts
  <2> QED BY <1>4, <2>1
<1>9. /\ Working(V, last, lo, hi, h) /\ Good(V, last, lo, hi, h) /\ call \in Calls
      /\ call.name = "insert" /\ LeafEntries(V, 0 .. last, h) = Inserted
      /\ Path(V, 0 .. last, h, ancestors, cur)
  BY <1>2, <1>4 DEF Splitting, Working
<1>10. PICK c, sep : c = cur /\ sep = sep_key
  OBVIOUS
<1>11. Divided(V, 0 .. last, h, c, r, sep, q, s, W)
  BY <1>7, <1>10
<1>12. PICK lo2, hi2, h2 :
         /\ Good(W, r, lo2, hi2, h2) /\ \A x \in 0 .. last : h2[x] = h[x]
         /\ LeafEntries(W, 0 .. r, h2) = LeafEntries(V, 0 .. last, h)
  <2>1. r = last + 1 /\ Good(V, last, lo, hi, h)
    BY <1>8, <1>9
  <2> QED BY ONLY <1>11, <2>1, ChildCommitted
<1>13. q < mem.next_page_id
  BY <1>4, <1>7, <1>8
<1>14. Pages(Fetch(mem, q)) = Tree
  <2>1. mem \in M /\ U[mem] = {}
    BY <1>6, <1>8 DEF MemoryInv
  <2> QED BY <1>7, <1>13, <2>1, Fetched DEF Tree
<1>15. /\ touched' = {q}
       /\ \/ /\ ~Full(Tree[q])
             /\ mem' = Mark(Put(Fetch(mem, q), q, n), q)
             /\ Return("void")
          \/ /\ Full(Tree[q])
             /\ over' = n
             /\ mem' = Put(Fetch(mem, q), q, internal_left(over'))
             /\ cur' = q
             /\ ancestors' = SubSeq(ancestors, 1, Len(ancestors) - 1)
             /\ pc' = "split_internal"
             /\ UNCHANGED <<call, sep_key, right_id, left_id, ret, before>>
  BY <1>1, <1>3, <1>4, <1>7, <1>14 DEF InsertIntoParent
<1>16. n \in Node
  BY <1>7, NodeKinds
<1>17. CASE /\ ~Full(Tree[q]) /\ mem' = Mark(Put(Fetch(mem, q), q, n), q) /\ Return("void")
  <2>1. pc' = "rest" /\ ancestors' = <<>> /\ Types' /\ ret' = "void"
    BY <1>17, ReturnTypes
  <2>2. MemoryInv(M, U, H)' /\ mem'.next_page_id = mem.next_page_id /\ Tree' = W
    BY <1>5, <1>6, <1>7, <1>8, <1>13, <1>15, <1>16, <1>17, <2>1, ParentMemory
  <2>3. num_cells(n) <= MaxCells /\ num_cells(n) >= num_cells(Tree[q]) /\ num_cells(n) \in Nat
    BY <1>7, <1>17, MaxCellsAssumption DEF Full
  <2>4. W[q] = n /\ \A x \in Page \ {q} : W[x] = Tree[x]
    BY <1>5, <1>7, <1>8
  <2>5. Filled'
    <3>1. ASSUME NEW x \in Page PROVE num_cells(W[x]) <= MaxCells
      <4>1. num_cells(Tree[x]) <= MaxCells
        BY <1>8 DEF Filled
      <4> QED BY <2>3, <2>4, <4>1
    <3>2. ASSUME NEW x \in 1 .. mem.next_page_id - 1 PROVE num_cells(W[x]) >= MaxCells \div 2
      <4>1. num_cells(Tree[x]) >= MaxCells \div 2
        BY <1>8 DEF Filled
      <4>2. x \in Page
        BY <1>8, LastPageAssumption DEF Page
      <4>3. CASE x = q
        BY <1>7, <2>3, <2>4, <4>1, <4>3, MaxCellsAssumption
      <4>4. CASE x # q
        BY <2>4, <4>1, <4>2, <4>4
      <4> QED BY <4>3, <4>4
    <3> QED BY ONLY <2>2, <3>1, <3>2 DEF Filled
  <2>6. mem'.next_page_id - 1 = r
    BY <1>8, <2>2
  <2>7. RestInv'
    BY <1>12, <2>1, <2>2, <2>6 DEF RestInv
  <2>8. Entries(W) = LeafEntries(W, 0 .. r, h2)
    BY <1>12, GoodFacts
  <2>9. Entries(Tree)' = Inserted
    BY <1>9, <1>12, <2>2, <2>8
  <2> QED BY <1>6, <1>9, <2>1, <2>2, <2>5, <2>7, <2>9 DEF IInv, TreeInv
<1>18. CASE /\ Full(Tree[q]) /\ over' = n
            /\ mem' = Put(Fetch(mem, q), q, internal_left(over')) /\ cur' = q
            /\ ancestors' = SubSeq(ancestors, 1, Len(ancestors) - 1)
            /\ pc' = "split_internal"
            /\ UNCHANGED <<call, sep_key, right_id, left_id, ret, before>>
  <2>1. num_cells(n) = MaxCells + 1
    <3>1. num_cells(Tree[q]) <= MaxCells /\ num_cells(Tree[q]) >= MaxCells
      BY <1>7, <1>8, <1>18 DEF Filled, Full
    <3> QED BY <1>7, <3>1, MaxCellsAssumption
  <2>2. PICK left : left = internal_left(n)
    OBVIOUS
  <2>3. /\ left \in InternalNode
        /\ num_cells(left) \in MaxCells \div 2 .. MaxCells
    <3>1. n \in InternalOf(Page)
      BY <1>7 DEF InternalNode
    <3>2. left \in InternalOf(Page)
      BY <2>1, <2>2, <3>1, SplitInternalCut
    <3>3. num_cells(left) \in MaxCells \div 2 .. MaxCells
      BY <2>1, <2>2, <3>1, SplitInternalCut
    <3> QED BY <3>2, <3>3 DEF InternalNode
  <2>4. left \in Node
    BY <2>3, NodeKinds
  <2>5. mem' = Put(Fetch(mem, q), q, left)
    BY <1>18, <2>2
  <2>6. /\ MemoryInv(M, U, H)' /\ mem'.next_page_id = mem.next_page_id
        /\ Tree' = [Tree EXCEPT ![q] = left]
    BY <1>6, <1>7, <1>8, <1>13, <1>15, <1>18, <2>4, <2>5, ParentMemory
  <2>7. /\ Tree'[q] = left /\ W = [Tree' EXCEPT ![q] = n]
        /\ \A x \in Page \ {q} : Tree'[x] = Tree[x]
    BY <1>5, <1>7, <1>8, <2>6
  <2>8. Filled'
    <3>1. ASSUME NEW x \in Page PROVE num_cells(Tree'[x]) <= MaxCells
      <4>1. num_cells(Tree[x]) <= MaxCells
        BY <1>8 DEF Filled
      <4>2. num_cells(left) <= MaxCells
        BY <2>3, MaxCellsAssumption
      <4> QED BY <2>7, <4>1, <4>2
    <3>2. ASSUME NEW x \in 1 .. mem.next_page_id - 1 PROVE num_cells(Tree'[x]) >= MaxCells \div 2
      <4>1. num_cells(Tree[x]) >= MaxCells \div 2
        BY <1>8 DEF Filled
      <4>2. num_cells(left) >= MaxCells \div 2
        BY <2>3, MaxCellsAssumption
      <4>3. x \in Page
        BY <1>8, LastPageAssumption DEF Page
      <4> QED BY <2>7, <4>1, <4>2, <4>3
    <3>3. mem'.next_page_id = mem.next_page_id
      BY <2>6
    <3> QED BY ONLY <3>1, <3>2, <3>3 DEF Filled
  <2>9. PICK anc : anc = SubSeq(ancestors, 1, Len(ancestors) - 1)
    OBVIOUS
  <2>10. anc \in Ancestors /\ Path(W, 0 .. r, h2, anc, q)
    <3>1. Shape(V, 0 .. last, lo, hi, h)
      BY <1>9, GoodFacts
    <3>2. 0 .. last \subseteq 0 .. r
      BY <1>8
    <3>3. \A x \in 0 .. last \ {cur, q} : W[x] = V[x]
      BY <1>7 DEF Divided
    <3>4. ancestors \in Ancestors
      BY <1>8 DEF Types
    <3>6. PICK P, Q : P = 0 .. last /\ Q = 0 .. r
      OBVIOUS
    <3>7. /\ Shape(V, P, lo, hi, h) /\ Path(V, P, h, ancestors, cur) /\ cur # 0
          /\ P \subseteq Q /\ \A x \in P : h2[x] = h[x]
          /\ \A x \in P \ {cur, q} : W[x] = V[x]
      BY <1>7, <1>9, <1>12, <3>1, <3>2, <3>3, <3>6
    <3>8. anc \in Ancestors /\ Path(W, Q, h2, anc, q)
      <4>1. Popped(ancestors, q, anc)
        BY <1>1, <2>9 DEF Popped
      <4> QED BY ONLY <3>4, <3>7, <4>1, PathPopped
    <3> QED BY <3>6, <3>8
  <2>11. Types'
    BY <1>7, <1>8, <1>18, <2>9, <2>10 DEF Types
  <2>12. h2[q] > 0
    BY <1>7, <1>12
  <2>13. Working(W, r, lo2, hi2, h2)'
    <3>1. LeafEntries(W, 0 .. r, h2) = Inserted
      BY <1>9, <1>12
    <3>2. Path(W, 0 .. r, h2, ancestors', cur')
      BY <1>18, <2>9, <2>10
    <3>3. call' = call /\ before' = before
      BY <1>18
    <3> QED BY <1>9, <1>12, <3>1, <3>2, <3>3 DEF Working, Inserted
  <2>14. Overfull(W, lo2, hi2, h2)'
    <3>1. mem'.next_page_id - 1 = r
      BY <1>8, <2>6
    <3>2. W = [Tree' EXCEPT ![cur'] = over'] /\ h2[cur'] > 0
      BY <1>18, <2>7, <2>12
    <3>3. num_cells(over') = MaxCells + 1 /\ Tree'[cur'] = internal_left(over')
      BY <1>18, <2>1, <2>2, <2>7
    <3> QED BY ONLY <2>13, <3>1, <3>2, <3>3 DEF Overfull
  <2>15. TreeInv'
    BY <1>18, <2>14 DEF TreeInv
  <2> QED BY <1>6, <1>18, <2>6, <2>8, <2>11, <2>15 DEF IInv
<1> QED BY <1>15, <1>17, <1>18

(* internal_node_split_and_insert: the node in over is cut in two.         *)
LEMMA SplitInternalStep ==
  ASSUME NEW M, NEW U, NEW H, PageMemory(M, U, H), IInv(M, U, H), SplitInternal
  PROVE  IInv(M, U, H)' /\ pc # "rest" /\ pc' # "rest" /\ before' = before /\ ret' = ret
<1>1. /\ pc = "split_internal" /\ mem.next_page_id \in Page
      /\ right_id' = mem.next_page_id /\ sep_key' = pushed_key(over)
      /\ pc' = IF over.root THEN "split_root" ELSE "parent"
      /\ UNCHANGED <<call, cur, ancestors, left_id, over, ret, before>>
  BY DEF SplitInternal, Room
<1>2. PICK new, last, right : /\ new = mem.next_page_id /\ last = mem.next_page_id - 1
                              /\ right = internal_right(over)
  OBVIOUS
<1>3. PICK V, lo, hi, h : Overfull(V, lo, hi, h)
  BY <1>1 DEF IInv, TreeInv
<1>4. /\ Working(V, last, lo, hi, h) /\ Good(V, last, lo, hi, h) /\ cur \in 0 .. last
      /\ V = [Tree EXCEPT ![cur] = over] /\ h[cur] > 0
      /\ num_cells(over) = MaxCells + 1 /\ Tree[cur] = internal_left(over)
  BY <1>2, <1>3 DEF Overfull, Working, Path
<1>5. MemoryInv(M, U, H) /\ Types /\ Filled
  BY DEF IInv
<1>6. /\ new \in Nat /\ new \in Page /\ last \in Nat /\ new = last + 1 /\ new # cur
      /\ Tree \in [Page -> Node] /\ cur \in Page
  <2>1. mem.next_page_id \in Nat /\ Tree \in [Page -> Node] /\ last \in Nat
    BY <1>4, <1>5, PagesCounted, GoodFacts
  <2> QED BY <1>1, <1>2, <1>4, <1>5, <2>1 DEF Types
<1>7. V[cur] = over /\ \A x \in Page \ {cur} : V[x] = Tree[x]
  BY <1>4, <1>6
<1>8. over \in InternalNode /\ (over.root <=> cur = 0)
  <2>1. Good(V, last, lo, hi, h) /\ cur \in 0 .. last /\ h[cur] > 0
    BY <1>4
  <2>2. V[cur] \in InternalNode /\ (V[cur].root <=> cur = 0)
    BY ONLY <2>1, GoodFacts
  <2> QED BY <1>7, <2>2
<1>9. /\ right \in InternalNode /\ Tree[cur] \in InternalNode
      /\ InternalCut(over, Tree[cur], right, pushed_key(over))
      /\ num_cells(Tree[cur]) \in MaxCells \div 2 .. MaxCells
      /\ num_cells(right) \in MaxCells \div 2 .. MaxCells
      /\ Tree[cur].root = FALSE /\ right.root = FALSE
  <2>1. over \in InternalOf(Page)
    BY <1>8 DEF InternalNode
  <2>2. internal_left(over) \in InternalOf(Page) /\ internal_right(over) \in InternalOf(Page)
    BY <1>4, <2>1, SplitInternalCut
  <2>3. InternalCut(over, internal_left(over), internal_right(over), pushed_key(over))
    BY <1>4, <2>1, SplitInternalCut
  <2>4. num_cells(internal_left(over)) \in MaxCells \div 2 .. MaxCells
    BY <1>4, <2>1, SplitInternalCut
  <2>5. num_cells(internal_right(over)) \in MaxCells \div 2 .. MaxCells
    BY <1>4, <2>1, SplitInternalCut
  <2>6. internal_left(over).root = FALSE /\ internal_right(over).root = FALSE
    BY DEF internal_left, internal_right, Internal
  <2> QED BY <1>2, <1>4, <2>2, <2>3, <2>4, <2>5, <2>6 DEF InternalNode
<1>10. right \in Node
  BY <1>9, NodeKinds
<1>11. /\ MemoryInv(M, U, H)' /\ mem'.next_page_id = new + 1
       /\ Tree' = [Tree EXCEPT ![new] = right]
  BY <1>2, <1>5, <1>6, <1>10, SplitInternalMemory
<1>12. Tree'[new] = right /\ Tree'[cur] = Tree[cur] /\ \A x \in Page \ {new} : Tree'[x] = Tree[x]
  BY <1>6, <1>11
<1>13. sep_key' \in Nat
  <2>1. Cut(V[cur], Tree[cur], right, new, pushed_key(over), h[cur])
    BY <1>4, <1>7, <1>9 DEF Cut
  <2>2. pushed_key(over) \in Nat
    BY <1>4, <2>1, CutBetween
  <2> QED BY <1>1, <2>2
<1>14. Types'
  BY <1>1, <1>2, <1>5, <1>6, <1>13 DEF Types
<1>15. Filled'
  <2>1. num_cells(right) <= MaxCells /\ num_cells(right) >= MaxCells \div 2
    BY <1>9, MaxCellsAssumption
  <2>2. ASSUME NEW x \in Page PROVE num_cells(Tree'[x]) <= MaxCells
    <3>1. num_cells(Tree[x]) <= MaxCells
      BY <1>5 DEF Filled
    <3> QED BY <1>12, <2>1, <3>1
  <2>3. ASSUME NEW x \in 1 .. new PROVE num_cells(Tree'[x]) >= MaxCells \div 2
    <3>1. CASE x = new
      BY <1>12, <2>1, <3>1
    <3>2. CASE x # new
      <4>1. x \in 1 .. mem.next_page_id - 1 /\ x \in Page
        BY <1>2, <1>6, <3>2, LastPageAssumption DEF Page
      <4> QED BY <1>5, <1>12, <3>2, <4>1 DEF Filled
    <3> QED BY <3>1, <3>2
  <2>4. mem'.next_page_id - 1 = new
    BY <1>6, <1>11
  <2> QED BY ONLY <2>2, <2>3, <2>4 DEF Filled
<1>16. Splitting(V, lo, hi, h)'
  <2>1. mem'.next_page_id - 2 = last /\ Working(V, last, lo, hi, h)'
    BY <1>1, <1>4, <1>6, <1>11, WorkingKept
  <2>2. right_id' = mem'.next_page_id - 1 /\ right_id' = new /\ cur' = cur
    BY <1>1, <1>2, <1>6, <1>11
  <2>3. \A x \in Page \ {cur, new} : Tree'[x] = V[x]
    BY <1>7, <1>12
  <2>4. Cut(V[cur], Tree'[cur], Tree'[new], new, sep_key', h[cur])
    BY <1>1, <1>4, <1>7, <1>9, <1>12 DEF Cut
  <2>5. /\ Tree'[new].root = FALSE /\ num_cells(Tree'[cur]) >= MaxCells \div 2
        /\ Tree'[cur].root = FALSE
    BY <1>9, <1>12, MaxCellsAssumption
  <2>6. pc' = "parent" => cur # 0
    BY <1>1, <1>8
  <2>7. pc' = "split_root" => cur = 0 /\ h[0] > 0
    BY <1>1, <1>4, <1>8
  <2>8. pc' # "new_root"
    BY <1>1
  <2> QED BY <2>1, <2>2, <2>3, <2>4, <2>5, <2>6, <2>7, <2>8 DEF Splitting
<1>17. pc' \in {"split_root", "parent"}
  BY <1>1
<1>18. TreeInv'
  BY <1>16, <1>17 DEF TreeInv
<1> QED BY <1>1, <1>11, <1>14, <1>15, <1>17, <1>18 DEF IInv

-----------------------------------------------------------------------------
(* The invariant holds in every state.                                     *)
LEMMA Unchanged ==
  ASSUME NEW M, NEW U, NEW H, IInv(M, U, H), UNCHANGED vars
  PROVE  IInv(M, U, H)'
<1>1. /\ mem' = mem /\ pc' = pc /\ call' = call /\ cur' = cur /\ ancestors' = ancestors
      /\ sep_key' = sep_key /\ right_id' = right_id /\ left_id' = left_id /\ over' = over
      /\ before' = before /\ touched' = touched /\ Tree' = Tree
  BY DEF vars, locals, Tree
<1>2. MemoryInv(M, U, H)' /\ Types' /\ Filled'
  BY <1>1 DEF IInv, MemoryInv, Types, Filled
<1>3. RestInv => RestInv'
  BY <1>1 DEF RestInv
<1>4. \A lo, hi, h : Descending(lo, hi, h) => Descending(lo, hi, h)'
  BY <1>1 DEF Descending, NotInFullLeaf
<1>5. \A V, last, lo, hi, h : Working(V, last, lo, hi, h) => Working(V, last, lo, hi, h)'
  BY <1>1 DEF Working, Inserted
<1>6. \A V, lo, hi, h : Splitting(V, lo, hi, h) => Splitting(V, lo, hi, h)'
  BY <1>1, <1>5 DEF Splitting
<1>7. \A V, lo, hi, h : Linking(V, lo, hi, h) => Linking(V, lo, hi, h)'
  BY <1>1, <1>5 DEF Linking
<1>8. \A V, lo, hi, h : Overfull(V, lo, hi, h) => Overfull(V, lo, hi, h)'
  BY <1>1, <1>5 DEF Overfull
<1>9. TreeInv'
  BY <1>1, <1>3, <1>4, <1>6, <1>7, <1>8 DEF IInv, TreeInv
<1> QED BY <1>2, <1>9 DEF IInv

(* Every step keeps the invariant.                                         *)
LEMMA NextTree ==
  ASSUME NEW M, NEW U, NEW H, PageMemory(M, U, H), IInv(M, U, H), [Next]_vars
  PROVE  IInv(M, U, H)'
<1>1. CASE Descend
  BY <1>1, DescendStep
<1>2. CASE Find
  BY <1>2, FindStep
<1>3. CASE Remove
  BY <1>3, RemoveStep
<1>4. CASE InsertInLeaf
  BY <1>4, InsertInLeafStep
<1>5. CASE SplitLeaf
  BY <1>5, SplitLeafStep
<1>6. CASE NewRootCopy
  BY <1>6, NewRootCopyStep
<1>7. CASE NewRootLink
  BY <1>7, NewRootLinkStep
<1>8. CASE InsertIntoParent
  BY <1>8, InsertIntoParentStep
<1>9. CASE SplitInternal
  BY <1>9, SplitInternalStep
<1>10. CASE SplitRoot
  BY <1>10, SplitRootStep
<1>11. CASE Reopen
  BY <1>11, ReopenStep
<1>12. CASE \E c \in Calls : Call(c)
  BY <1>12, CallStep
<1>13. CASE UNCHANGED vars
  BY <1>13, Unchanged
<1> QED BY <1>1, <1>2, <1>3, <1>4, <1>5, <1>6, <1>7, <1>8, <1>9, <1>10, <1>11, <1>12, <1>13
        DEF Next, Step

(* The invariant that the properties of the tree follow from.              *)
THEOREM Invariance ==
  ASSUME NEW M, NEW U, NEW H, PageMemory(M, U, H)
  PROVE  Spec => []IInv(M, U, H)
<1>1. Init => IInv(M, U, H)
  BY InitTree
<1>2. IInv(M, U, H) /\ [Next]_vars => IInv(M, U, H)'
  BY NextTree
<1> QED BY <1>1, <1>2, PTL DEF Spec

(* The invariant counts the cells of every page.                           *)
LEMMA TypesGood ==
  ASSUME NEW M, NEW U, NEW H, PageMemory(M, U, H), IInv(M, U, H)
  PROVE  TypeOK
<1>1. Tree \in [Page -> Node] /\ Types /\ Filled
  BY PagesCounted DEF IInv
<1> QED BY <1>1 DEF TypeOK, Types, Filled, Ancestors

(* No page ever has more cells than fit, over any memory of pages.         *)
THEOREM TypesCorrect ==
  ASSUME NEW M, NEW U, NEW H, PageMemory(M, U, H)
  PROVE  Spec => []TypeOK
<1>1. IInv(M, U, H) => TypeOK
  BY TypesGood
<1> QED BY <1>1, Invariance, PTL

(* Between calls the pages are a search tree in which each has one parent, *)
(* at least half full and chained in the order of their keys.              *)
LEMMA AtRestGood ==
  ASSUME NEW M, NEW U, NEW H, PageMemory(M, U, H), IInv(M, U, H)
  PROVE  SearchTree /\ OneParent /\ LeafChain /\ HalfFull
<1>1. CASE AtRest
  <2>1. PICK lo, hi, h : Good(Tree, mem.next_page_id - 1, lo, hi, h)
    BY <1>1 DEF IInv, TreeInv, RestInv, AtRest
  <2>2. PICK P : P = 0 .. mem.next_page_id - 1
    OBVIOUS
  <2>3. Shape(Tree, P, lo, hi, h) /\ h[0] <= LastPage /\ P \subseteq Page
    BY <2>1, <2>2, GoodFacts
  <2>4. mem.next_page_id \in Nat
    BY PagesCounted DEF IInv
  <2>5. /\ \A p \in P : num_cells(Tree[p]) <= MaxCells
        /\ \A p \in P \ {0} : num_cells(Tree[p]) >= MaxCells \div 2
    <3>1. \A p \in P \ {0} : p \in 1 .. mem.next_page_id - 1
      BY <2>2, <2>4
    <3> QED BY <2>3, <3>1 DEF IInv, Filled
  <2>6. SearchTree
    BY <2>3, ShapeSearches
  <2>7. OneParent
    BY <2>2, <2>3, <2>5, ShapeOneParent
  <2>8. LeafChain
    BY <2>3, <2>5, ShapeChain
  <2>9. HalfFull
    BY <2>3, <2>5, ShapeHalfFull
  <2> QED BY <2>6, <2>7, <2>8, <2>9
<1>2. CASE ~AtRest
  BY <1>2 DEF SearchTree, OneParent, LeafChain, HalfFull
<1> QED BY <1>1, <1>2

(* Between calls the pages are a search tree of even depth, over any       *)
(* memory of pages: every separator keeps the keys on its left, which are  *)
(* smaller, from those on its right, which are not.                        *)
THEOREM SearchTreeKept ==
  ASSUME NEW M, NEW U, NEW H, PageMemory(M, U, H)
  PROVE  Spec => []SearchTree
<1>1. IInv(M, U, H) => SearchTree
  BY AtRestGood
<1> QED BY <1>1, Invariance, PTL

(* No page is lost or shared, over any memory of pages: between calls each *)
(* page handed out is the child of one node in one slot, and only page 0   *)
(* is the root.                                                            *)
THEOREM OneParentKept ==
  ASSUME NEW M, NEW U, NEW H, PageMemory(M, U, H)
  PROVE  Spec => []OneParent
<1>1. IInv(M, U, H) => OneParent
  BY AtRestGood
<1> QED BY <1>1, Invariance, PTL

(* The next-leaf links visit the leaves in key order, over any memory of   *)
(* pages, through splits of leaves and of the root leaf.                   *)
THEOREM LeafChainKept ==
  ASSUME NEW M, NEW U, NEW H, PageMemory(M, U, H)
  PROVE  Spec => []LeafChain
<1>1. IInv(M, U, H) => LeafChain
  BY AtRestGood
<1> QED BY <1>1, Invariance, PTL

(* Splits leave both halves filled, over any memory of pages.              *)
THEOREM HalfFullKept ==
  ASSUME NEW M, NEW U, NEW H, PageMemory(M, U, H)
  PROVE  Spec => []HalfFull
<1>1. IInv(M, U, H) => HalfFull
  BY AtRestGood
<1> QED BY <1>1, Invariance, PTL

-----------------------------------------------------------------------------
(* The tree is a dictionary.                                               *)
Dictionary == IF AtRest THEN Entries(Tree) ELSE before

(* The call that waits for its answer: none between calls, and the one that *)
(* was asked until it returns.  Only an insert goes on after its leaf.     *)
Asked ==
  /\ pc = "rest" => call = NoCall
  /\ pc # "rest" => call \in Calls
  /\ pc \notin {"rest", "descend"} => call.name = "insert"

(* No call is "none".                                                      *)
LEMMA NoCallIsNone == NoCall \notin Calls
BY CallsAssumption DEF NoCall

LEMMA AskedKept ==
  ASSUME Asked, [Next]_vars
  PROVE  /\ Asked'
         /\ pc # "rest" /\ pc' # "rest" => call' = call
         /\ pc # "rest" /\ pc' = "rest" => call' = NoCall
<1>1. CASE Descend
  BY <1>1 DEF Descend, Asked
<1>2. CASE Find
  BY <1>2 DEF Find, AtLeaf, Return, Asked, NoCall
<1>3. CASE Remove
  BY <1>3 DEF Remove, AtLeaf, Return, Asked, NoCall
<1>4. CASE InsertInLeaf
  BY <1>4 DEF InsertInLeaf, AtLeaf, Return, Asked, NoCall
<1>5. CASE SplitLeaf
  <2>1. /\ pc = "descend" /\ call.name = "insert" /\ call' = call
        /\ pc' = IF node.root THEN "new_root" ELSE "parent"
    BY <1>5 DEF SplitLeaf, AtLeaf
  <2> QED BY <2>1 DEF Asked
<1>6. CASE NewRootCopy
  <2>1. pc = "new_root" /\ pc' = "link_root" /\ call' = call
    BY <1>6 DEF NewRootCopy
  <2> QED BY <2>1 DEF Asked
<1>7. CASE NewRootLink
  BY <1>7 DEF NewRootLink, Return, Asked, NoCall
<1>8. CASE InsertIntoParent
  <2>1. /\ pc = "parent"
        /\ \/ pc' = "rest" /\ call' = NoCall
           \/ pc' = "split_internal" /\ call' = call
    BY <1>8 DEF InsertIntoParent, Return
  <2> QED BY <2>1 DEF Asked
<1>9. CASE SplitInternal
  <2>1. pc = "split_internal" /\ pc' \in {"split_root", "parent"} /\ call' = call
    BY <1>9 DEF SplitInternal
  <2> QED BY <2>1 DEF Asked
<1>10. CASE SplitRoot
  BY <1>10 DEF SplitRoot, Return, Asked, NoCall
<1>11. CASE Reopen
  BY <1>11 DEF Reopen, locals, Asked
<1>12. CASE \E c \in Calls : Call(c)
  BY <1>12 DEF Call, Asked
<1>13. CASE UNCHANGED vars
  BY <1>13 DEF vars, locals, Asked
<1> QED BY <1>1, <1>2, <1>3, <1>4, <1>5, <1>6, <1>7, <1>8, <1>9, <1>10, <1>11, <1>12, <1>13
        DEF Next, Step

(* A step of a call that is not over changes nothing the caller sees.      *)
LEMMA Silent ==
  ASSUME Asked, [Next]_vars, pc # "rest", pc' # "rest", before' = before, ret' = ret
  PROVE  UNCHANGED <<Dictionary, call, ret>>
BY AskedKept DEF Dictionary, AtRest

(* Every step of the tree is a call that is asked, the answer of the call  *)
(* that was asked, or nothing to the caller.                               *)
LEMMA StepImplements ==
  ASSUME NEW M, NEW U, NEW H, PageMemory(M, U, H), IInv(M, U, H), Asked, [Next]_vars
  PROVE  \/ UNCHANGED <<Dictionary, call, ret>>
         \/ call = NoCall /\ call' \in Calls /\ UNCHANGED <<Dictionary, ret>>
         \/ /\ call \in Calls /\ call' = NoCall
            /\ \/ /\ call.name = "insert"
                  /\ Dictionary' = {e \in Dictionary : e[1] # call.key} \cup {<<call.key, call.val>>}
                  /\ ret' = "void"
               \/ /\ call.name = "remove"
                  /\ Dictionary' = {e \in Dictionary : e[1] # call.key}
                  /\ ret' = IF Under(Dictionary, call.key) = {} THEN "false" ELSE "true"
               \/ /\ call.name = "find"
                  /\ Dictionary' = Dictionary
                  /\ ret' \in IF Under(Dictionary, call.key) = {} THEN {"none"}
                              ELSE Under(Dictionary, call.key)
<1>1. ASSUME pc # "rest", pc' = "rest"
      PROVE  Dictionary = before /\ Dictionary' = Entries(Tree)' /\ call' = NoCall
  BY <1>1, AskedKept DEF Dictionary, AtRest
<1>2. ASSUME call \in Calls, Entries(Tree)' = Inserted, pc # "rest", pc' = "rest"
      PROVE  Dictionary' = {e \in Dictionary : e[1] # call.key} \cup {<<call.key, call.val>>}
  <2>1. call.val # Tombstone
    BY <1>2, CallValue
  <2>2. Inserted = {e \in before : e[1] # call.key} \cup {<<call.key, call.val>>}
    BY <2>1 DEF Inserted, Replaced, EntryOf
  <2> QED BY <1>1, <1>2, <2>2
<1>3. CASE Descend
  <2>1. pc = "descend" /\ pc' = "descend" /\ before' = before /\ ret' = ret
    BY <1>3 DEF Descend
  <2> QED BY <2>1, Silent
<1>4. CASE Find
  <2>1. /\ pc = "descend" /\ pc' = "rest" /\ Entries(Tree)' = before /\ call \in Calls
        /\ call.name = "find"
        /\ ret' \in IF Under(before, call.key) = {} THEN {"none"} ELSE Under(before, call.key)
    BY <1>4, FindStep DEF Find, AtLeaf, Return
  <2> QED BY <1>1, <2>1
<1>5. CASE Remove
  <2>1. /\ pc = "descend" /\ pc' = "rest" /\ call \in Calls /\ call.name = "remove"
        /\ Entries(Tree)' = {e \in before : e[1] # call.key}
        /\ ret' = IF Under(before, call.key) = {} THEN "false" ELSE "true"
    BY <1>5, RemoveStep DEF Remove, AtLeaf, Return
  <2> QED BY <1>1, <2>1
<1>6. CASE InsertInLeaf
  <2>1. /\ pc = "descend" /\ pc' = "rest" /\ call \in Calls /\ Entries(Tree)' = Inserted
        /\ call.name = "insert" /\ ret' = "void"
    BY <1>6, InsertInLeafStep DEF InsertInLeaf, AtLeaf, Return
  <2> QED BY <1>1, <1>2, <2>1
<1>7. CASE SplitLeaf
  BY <1>7, SplitLeafStep, Silent
<1>8. CASE NewRootCopy
  BY <1>8, NewRootCopyStep, Silent
<1>9. CASE NewRootLink
  <2>1. /\ pc = "link_root" /\ pc' = "rest" /\ call \in Calls /\ Entries(Tree)' = Inserted
        /\ ret' = "void"
    BY <1>9, NewRootLinkStep DEF NewRootLink, Return
  <2> QED BY <1>1, <1>2, <2>1 DEF Asked
<1>10. CASE InsertIntoParent
  <2>1. /\ pc = "parent"
        /\ \/ pc' # "rest" /\ before' = before /\ ret' = ret
           \/ pc' = "rest" /\ Entries(Tree)' = Inserted /\ call \in Calls /\ ret' = "void"
    BY <1>10, InsertIntoParentStep DEF InsertIntoParent
  <2> QED BY <1>1, <1>2, <2>1, Silent DEF Asked
<1>11. CASE SplitInternal
  BY <1>11, SplitInternalStep, Silent
<1>12. CASE SplitRoot
  <2>1. /\ pc = "split_root" /\ pc' = "rest" /\ call \in Calls /\ Entries(Tree)' = Inserted
        /\ ret' = "void"
    BY <1>12, SplitRootStep DEF SplitRoot, Return
  <2> QED BY <1>1, <1>2, <2>1 DEF Asked
<1>13. CASE Reopen
  <2>1. pc = "rest" /\ pc' = "rest" /\ ret' = ret /\ call' = call /\ Tree' = Tree
    BY <1>13, ReopenStep DEF Reopen, locals
  <2> QED BY <2>1 DEF Dictionary, AtRest
<1>14. CASE \E c \in Calls : Call(c)
  <2>1. /\ pc = "rest" /\ pc' = "descend" /\ ret' = ret /\ call' \in Calls
        /\ before' = Entries(Tree)
    BY <1>14, CallStep DEF Call
  <2> QED BY <2>1 DEF Dictionary, AtRest, Asked
<1>15. CASE UNCHANGED vars
  BY <1>15 DEF vars, locals, Dictionary, AtRest, Tree
<1> QED BY <1>3, <1>4, <1>5, <1>6, <1>7, <1>8, <1>9, <1>10, <1>11, <1>12, <1>13, <1>14, <1>15
        DEF Next, Step

(* The B-tree implements the dictionary its callers rely on: insert,       *)
(* remove and find take effect at their return, on the key and with the    *)
(* value they were asked with, through every split.                        *)
THEOREM Implements ==
  ASSUME NEW M, NEW U, NEW H, PageMemory(M, U, H)
  PROVE  Spec => ImplementsIndex
<1>1. Init => Index!Init /\ Asked
  <2> SUFFICES ASSUME Init PROVE Index!Init /\ Asked
    OBVIOUS
  <2>1. Entries(Tree) = {} /\ AtRest /\ ret = "void" /\ call = NoCall /\ pc = "rest"
    BY InitTree DEF Init, AtRest
  <2> QED BY <2>1 DEF Index!Init, Asked
<1>2. Asked /\ [Next]_vars => Asked'
  BY AskedKept
<1>3. IInv(M, U, H) /\ Asked /\ [Next]_vars => [Index!Next]_(Index!vars)
  <2> SUFFICES ASSUME IInv(M, U, H), Asked, [Next]_vars PROVE [Index!Next]_(Index!vars)
    OBVIOUS
  <2>1. \A k : Index!ValuesOf(k) = Under(Dictionary, k)
    BY DEF Index!ValuesOf, Index!Values, Under, Value, Dictionary
  <2>2. CASE UNCHANGED <<Dictionary, call, ret>>
    BY <2>2 DEF Index!vars, Dictionary
  <2>3. CASE call = NoCall /\ call' \in Calls /\ UNCHANGED <<Dictionary, ret>>
    BY <2>3 DEF Index!Next, Index!Ask, Dictionary
  <2>4. ASSUME call \in Calls, call' = NoCall, call.name = "insert",
               Dictionary' = {e \in Dictionary : e[1] # call.key} \cup {<<call.key, call.val>>},
               ret' = "void"
        PROVE  Index!Insert
    BY <2>4, NoCallIsNone DEF Index!Insert, Index!Answer, Index!Without, Dictionary
  <2>5. ASSUME call \in Calls, call' = NoCall, call.name = "remove",
               Dictionary' = {e \in Dictionary : e[1] # call.key},
               ret' = IF Under(Dictionary, call.key) = {} THEN "false" ELSE "true"
        PROVE  Index!Remove
    BY <2>1, <2>5, NoCallIsNone DEF Index!Remove, Index!Answer, Index!Without, Dictionary
  <2>6. ASSUME call \in Calls, call' = NoCall, call.name = "find",
               Dictionary' = Dictionary,
               ret' \in IF Under(Dictionary, call.key) = {} THEN {"none"}
                        ELSE Under(Dictionary, call.key)
        PROVE  Index!Find
    BY <2>1, <2>6, NoCallIsNone DEF Index!Find, Index!Answer, Dictionary
  <2> QED BY <2>2, <2>3, <2>4, <2>5, <2>6, StepImplements DEF Index!Next
<1> QED BY <1>1, <1>2, <1>3, Invariance, PTL DEF Spec, ImplementsIndex, Index!Spec

-----------------------------------------------------------------------------
(* The lemmas about the pool, for pages that hold nodes and a call that    *)
(* works with three of them.  They speak of pools alone, so that it does   *)
(* not matter here what a state of PoolClient is.                          *)
NoNode == CHOOSE c : c \notin Node
Laws == INSTANCE PoolClientProofs
          WITH Content <- Node, Zero <- Blank, Window <- 3, None <- NoNode,
               pool <- mem, recent <- mem, unmarked <- mem, phase <- mem, pos <- mem,
               versions <- mem, taken <- mem

(* The buffer pool.                                                        *)
OverPool ==
  /\ EmptyFile = pool_file
  /\ \A b, p : Fetch(b, p) = pool_fetch(b, p)
  /\ \A b, p, c : Put(b, p, c) = pool_put(b, p, c)
  /\ \A b, p : Mark(b, p) = pool_mark(b, p)
  /\ \A b : Pages(b) = pool_pages(b)
  /\ \A b : Restart(b) = pool_restart(b)

(* A pool that has handed out every page it caches and every page of its   *)
(* file, so that the next new page is past them all.                       *)
PoolM ==
  {b \in Laws!PoolRecord :
     /\ Laws!PoolOK(b) /\ b.next_page_id \in 0 .. LastPage + 1
     /\ \A p \in Laws!Cached(b) : p < b.next_page_id
     /\ b.num_pages <= b.next_page_id}

(* Its unmarked pages: a cached page that differs from the file, and a     *)
(* page past the end of the file, unless it is cached and dirty.           *)
Unmarked(b) ==
  {p \in Page :
     \/ p \in Laws!Cached(b) /\ ~b.entry[p].dirty /\ b.entry[p].buffer # b.disk[p]
     \/ /\ b.num_pages <= p /\ p < b.next_page_id
        /\ ~(p \in Laws!Cached(b) /\ b.entry[p].dirty)}
PoolU == [b \in PoolM |-> Unmarked(b)]

(* A page is held while it is cached behind two pages at the most.         *)
PoolH ==
  {h \in PoolM \X Page \X Page \X Page :
     h[2] \in Laws!Cached(h[1]) /\ Laws!Ahead(h[1], h[2]) \subseteq {h[3], h[4]}}

(* What the lemmas about the pool ask of its constants.                    *)
LEMMA PoolConstants ==
  /\ LastPage \in Nat /\ MaxPages \in Nat \ {0} /\ MaxPages >= 3 /\ Blank \in Node
  /\ Laws!Page = Page /\ Page \subseteq Nat /\ NoNode \notin Node /\ 3 <= MaxPages
<1>1. NoNode \notin Node
  BY NoSetContainsEverything DEF NoNode
<1> QED BY <1>1, LastPageAssumption, CapacityAssumption DEF Blank, Node, Page, Laws!Page

(* The module that runs the pool and the one that has the lemmas speak of  *)
(* the same operations.                                                    *)
LEMMA SamePool ==
  /\ pool_file = Laws!Open([p \in Page |-> Blank], 0)
  /\ \A b, p : pool_fetch(b, p) = Laws!get_page(b, p)
  /\ \A b, p, c : pool_put(b, p, c) = Laws!store(b, p, c)
  /\ \A b, p : pool_mark(b, p) = Laws!mark_dirty(b, p)
  /\ \A b : pool_pages(b) = Laws!View(b)
  /\ \A b : pool_restart(b) = Laws!Restarted(b)
  /\ \A b : Pool!Cached(b) = Laws!Cached(b)
<1>1. pool_file = Laws!Open([p \in Page |-> Blank], 0)
  BY DEF pool_file, Page, Pool!Open, Laws!Open
<1>2. \A b : Pool!Cached(b) = Laws!Cached(b)
  BY DEF Pool!Cached, Laws!Cached
<1>3. \A b, p : pool_fetch(b, p) = Laws!get_page(b, p)
  BY DEF pool_fetch, Pool!get_page, Laws!get_page, Pool!Cached, Laws!Cached,
         Pool!bump, Laws!bump, Pool!Promote, Laws!Promote, Pool!load, Laws!load,
         Pool!read_in, Laws!read_in, Pool!evict, Laws!evict, Pool!PushFront,
         Laws!PushFront, Pool!write_back, Laws!write_back, Pool!write_page,
         Laws!write_page, Pool!seek, Laws!seek, Pool!File, Laws!File
<1>4. \A b, p, c : pool_put(b, p, c) = Laws!store(b, p, c)
  BY DEF pool_put, Pool!store, Laws!store
<1>5. \A b, p : pool_mark(b, p) = Laws!mark_dirty(b, p)
  BY DEF pool_mark, Pool!mark_dirty, Laws!mark_dirty
<1>6. \A b : pool_pages(b) = Laws!View(b)
  BY DEF pool_pages, Pool!View, Laws!View, Pool!Cached, Laws!Cached, Pool!Page, Laws!Page
<1>7. \A b : pool_restart(b) = Laws!Restarted(b)
  BY DEF pool_restart, Pool!Restarted, Laws!Restarted, Pool!Open, Laws!Open,
         Pool!flush_all, Laws!flush_all, Pool!write_back, Laws!write_back,
         Pool!write_page, Laws!write_page, Pool!seek, Laws!seek, Pool!File, Laws!File
<1> QED BY <1>1, <1>2, <1>3, <1>4, <1>5, <1>6, <1>7

(* The types of a pool of PoolM.                                           *)
LEMMA PoolMTypes ==
  ASSUME NEW b \in PoolM
  PROVE  /\ Laws!PoolOK(b) /\ b.next_page_id \in 0 .. LastPage + 1
         /\ b.num_pages \in Nat /\ b.num_pages <= b.next_page_id
         /\ b.disk \in [Page -> Node]
         /\ Laws!Cached(b) \subseteq Page
         /\ \A p \in Laws!Cached(b) : /\ p < b.next_page_id
                                      /\ b.entry[p].buffer \in Node
                                      /\ b.entry[p].dirty \in BOOLEAN
<1>1. Laws!PoolOK(b)
  BY DEF PoolM
<1>2. /\ b.disk \in [Page -> Node] /\ b.num_pages \in Nat
      /\ Laws!Cached(b) \subseteq Page
      /\ \A p \in Laws!Cached(b) : /\ b.entry[p].buffer \in Node
                                   /\ b.entry[p].dirty \in BOOLEAN
  BY <1>1, PoolConstants, Laws!PoolTypes
<1> QED BY <1>1, <1>2 DEF PoolM

(* What a reader sees of a pool.                                           *)
LEMMA ViewType ==
  ASSUME NEW b \in PoolM
  PROVE  /\ Laws!View(b) \in [Page -> Node]
         /\ \A p \in Page : Laws!View(b)[p] = IF p \in Laws!Cached(b)
                                              THEN b.entry[p].buffer ELSE b.disk[p]
<1>1. Laws!View(b) = [p \in Page |-> IF p \in Laws!Cached(b) THEN b.entry[p].buffer
                                     ELSE b.disk[p]]
  BY PoolConstants DEF Laws!View
<1> QED BY <1>1, PoolMTypes

(* A page that is not held behind two others is the one in lru.back() of a *)
(* full cache only if nothing but it would have to go: with three pages or *)
(* more, the page in lru.back() has two others ahead of it.                *)
LEMMA HeldStays ==
  ASSUME NEW b \in PoolM, NEW p \in Page, NEW a \in Page, NEW q \in Laws!Cached(b),
         Laws!Ahead(b, q) \subseteq {p, a}
  PROVE  q \in Laws!Cached(Laws!get_page(b, p))
<1> DEFINE g == Laws!get_page(b, p)
<1>1. Laws!PoolOK(b)
  BY PoolMTypes
<1>2. Laws!Fetched(b, p, g)
  BY <1>1, PoolConstants, Laws!GetPageContract
<1> SUFFICES ASSUME q \notin Laws!Cached(g) PROVE FALSE
  OBVIOUS
<1>3. /\ p \notin Laws!Cached(b) /\ Len(b.lru) = MaxPages /\ q = b.lru[MaxPages]
  BY <1>2 DEF Laws!Fetched
<1>4. 1 \in 1 .. MaxPages /\ 2 \in 1 .. MaxPages /\ MaxPages \in 1 .. MaxPages
      /\ 1 < MaxPages /\ 2 < MaxPages
  BY PoolConstants
<1>5. b.lru[1] \in Laws!Cached(b) /\ b.lru[2] \in Laws!Cached(b)
  BY <1>3, <1>4 DEF Laws!Cached
<1>6. b.lru[1] \in Laws!Ahead(b, q) /\ b.lru[2] \in Laws!Ahead(b, q)
  BY <1>3, <1>4, <1>5 DEF Laws!Ahead
<1>7. b.lru[1] # b.lru[2]
  BY <1>1, <1>3, <1>4 DEF Laws!PoolOK
<1> QED BY <1>3, <1>5, <1>6, <1>7

(* A fetch from a pool whose unmarked pages are held: nothing that a       *)
(* reader sees changes, for a page that is evicted was written or equals   *)
(* the file.                                                               *)
LEMMA PoolFetches ==
  ASSUME NEW b \in PoolM, NEW p \in Page, p <= b.next_page_id,
         \A q \in Unmarked(b) \ {p} : \E a \in Page : <<b, q, p, a>> \in PoolH
  PROVE  LET g == Laws!get_page(b, p)
         IN  /\ g \in PoolM /\ Laws!View(g) = Laws!View(b)
             /\ g.next_page_id = IF p = b.next_page_id THEN p + 1 ELSE b.next_page_id
             /\ Unmarked(g) \subseteq Unmarked(b) \cup {q \in {p} : p = b.next_page_id}
             /\ \A a, c \in Page : <<g, p, a, c>> \in PoolH
             /\ \A q, a \in Page : <<b, q, p, a>> \in PoolH => <<g, q, p, a>> \in PoolH
<1> DEFINE g == Laws!get_page(b, p)
           C == Laws!Cached(b)
           D == Laws!Cached(g)
<1>1. /\ Laws!PoolOK(b) /\ b.next_page_id \in 0 .. LastPage + 1
      /\ b.num_pages \in Nat /\ b.num_pages <= b.next_page_id
      /\ b.disk \in [Page -> Node] /\ C \subseteq Page
      /\ \A q \in C : q < b.next_page_id /\ b.entry[q].dirty \in BOOLEAN
  BY PoolMTypes
<1>2. /\ LastPage \in Nat /\ Page \subseteq Nat /\ p \in Nat /\ p <= LastPage
  BY PoolConstants DEF Page
<1>3. /\ Laws!Fetched(b, p, g)
      /\ g.next_page_id = IF p >= b.next_page_id THEN p + 1 ELSE b.next_page_id
  BY <1>1, PoolConstants, Laws!GetPageContract
<1>4. /\ Laws!PoolOK(g) /\ p \in D /\ D \subseteq C \cup {p} /\ Laws!Ahead(g, p) = {}
      /\ \A q \in D \ {p} : Laws!Ahead(g, q) \subseteq Laws!Ahead(b, q) \cup {p}
      /\ \A q \in C \ D : p \notin C
      /\ \A q \in D \cap C : g.entry[q] = b.entry[q]
      /\ p \notin C => g.entry[p] = [buffer |-> b.disk[p], dirty |-> FALSE]
      /\ \A q \in Page : g.disk[q] = IF q \in C \ D /\ b.entry[q].dirty
                                     THEN b.entry[q].buffer ELSE b.disk[q]
      /\ b.num_pages <= g.num_pages
      /\ \A q \in C \ D : b.entry[q].dirty => q < g.num_pages
      /\ g.num_pages = b.num_pages \/ \E q \in C : g.num_pages = q + 1
  BY <1>3, PoolConstants DEF Laws!Fetched
<1>5. ASSUME NEW q \in Page, NEW a \in Page, <<b, q, p, a>> \in PoolH
      PROVE  q \in C /\ q \in D /\ Laws!Ahead(b, q) \subseteq {p, a}
  BY <1>5, HeldStays DEF PoolH
<1>6. \A q \in C \ D : q # p /\ (b.entry[q].dirty \/ b.entry[q].buffer = b.disk[q])
  <2> SUFFICES ASSUME NEW q \in C \ D, ~b.entry[q].dirty, b.entry[q].buffer # b.disk[q]
               PROVE  FALSE
    BY <1>4
  <2>1. q \in Unmarked(b) \ {p}
    BY <1>1, <1>4 DEF Unmarked
  <2>2. PICK a \in Page : <<b, q, p, a>> \in PoolH
    BY <2>1
  <2> QED BY <1>1, <1>5, <2>2
<1> HIDE DEF C, D, g
<1>7. g.next_page_id = IF p = b.next_page_id THEN p + 1 ELSE b.next_page_id
  BY <1>1, <1>2, <1>3
<1>8. g \in PoolM
  <2>1. g.next_page_id \in 0 .. LastPage + 1 /\ b.next_page_id <= g.next_page_id
        /\ p < g.next_page_id
    BY <1>1, <1>2, <1>7
  <2>2. g.num_pages \in Nat
    BY <1>4, PoolConstants, Laws!PoolTypes
  <2>3. \A q \in D : q < g.next_page_id
    <3>1. D \subseteq C \cup {p} /\ C \subseteq Nat
      BY <1>1, <1>2, <1>4
    <3>2. (\A q \in C : q < b.next_page_id) /\ b.next_page_id \in Nat
      BY <1>1, <1>2
    <3>3. g.next_page_id \in Nat
      BY <1>2, <2>1
    <3> QED BY ONLY <2>1, <3>1, <3>2, <3>3
  <2>4. g.num_pages <= g.next_page_id
    BY <1>1, <1>2, <1>4, <2>1, <2>2
  <2>5. g \in Laws!PoolRecord
    BY <1>4 DEF Laws!PoolOK
  <2> QED BY <1>4, <2>1, <2>3, <2>4, <2>5 DEF PoolM, D
<1>9. Laws!View(g) = Laws!View(b)
  <2>1. ASSUME NEW q \in Page PROVE Laws!View(g)[q] = Laws!View(b)[q]
    <3>1. /\ Laws!View(b)[q] = IF q \in C THEN b.entry[q].buffer ELSE b.disk[q]
          /\ Laws!View(g)[q] = IF q \in D THEN g.entry[q].buffer ELSE g.disk[q]
      BY <1>8, ViewType DEF C, D
    <3>2. CASE q \in C /\ q \in D
      BY <1>4, <3>1, <3>2
    <3>3. CASE q \in C /\ q \notin D
      BY <1>4, <1>6, <3>1, <3>3
    <3>4. CASE q \notin C /\ q \in D
      <4>1. q = p
        BY <1>4, <3>4
      <4> QED BY <1>4, <3>1, <3>4, <4>1
    <3>5. CASE q \notin C /\ q \notin D
      BY <1>4, <3>1, <3>5
    <3> QED BY <3>2, <3>3, <3>4, <3>5
  <2>2. Laws!View(g) \in [Page -> Node] /\ Laws!View(b) \in [Page -> Node]
    BY <1>8, ViewType
  <2> QED BY <2>1, <2>2
<1>10. Unmarked(g) \subseteq Unmarked(b) \cup {q \in {p} : p = b.next_page_id}
  <2> SUFFICES ASSUME NEW q \in Page, q \in Unmarked(g), q \notin Unmarked(b)
               PROVE  q = p /\ p = b.next_page_id
    BY DEF Unmarked
  <2>1. /\ ~(q \in C /\ ~b.entry[q].dirty /\ b.entry[q].buffer # b.disk[q])
        /\ ~(b.num_pages <= q /\ q < b.next_page_id /\ ~(q \in C /\ b.entry[q].dirty))
    BY DEF Unmarked, C
  <2>2. CASE q \in D /\ ~g.entry[q].dirty /\ g.entry[q].buffer # g.disk[q]
    <3>1. CASE q \in C
      BY <1>4, <2>1, <2>2, <3>1
    <3>2. CASE q \notin C
      <4>1. q = p
        BY <1>4, <2>2, <3>2
      <4> QED BY <1>4, <2>2, <3>2, <4>1
    <3> QED BY <3>1, <3>2
  <2>3. CASE g.num_pages <= q /\ q < g.next_page_id /\ ~(q \in D /\ g.entry[q].dirty)
    <3>0. g.num_pages \in Nat /\ q \in Nat
      <4>1. Laws!PoolOK(g)
        BY <1>4
      <4>2. g.num_pages \in Nat
        BY ONLY <4>1, PoolConstants, Laws!PoolTypes
      <4>3. q \in Nat
        BY <1>2
      <4> QED BY <4>2, <4>3
    <3>1. b.num_pages <= q
      BY <1>1, <1>4, <2>3, <3>0
    <3>2. ~(q \in C /\ b.entry[q].dirty)
      <4> SUFFICES ASSUME q \in C, b.entry[q].dirty PROVE FALSE
        OBVIOUS
      <4>1. CASE q \in D
        BY <1>4, <2>3, <4>1
      <4>2. CASE q \notin D
        <5>1. q < g.num_pages
          BY <1>4, <4>2
        <5> QED BY <2>3, <3>0, <5>1
      <4> QED BY <4>1, <4>2
    <3>3. ~(q < b.next_page_id)
      BY <2>1, <3>1, <3>2
    <3> QED BY <1>1, <1>2, <1>7, <2>3, <3>0, <3>3
  <2> QED BY <2>2, <2>3 DEF Unmarked, D
<1>11. \A a, c \in Page : <<g, p, a, c>> \in PoolH
  BY <1>4, <1>8 DEF PoolH, D
<1>12. ASSUME NEW q \in Page, NEW a \in Page, <<b, q, p, a>> \in PoolH
       PROVE  <<g, q, p, a>> \in PoolH
  <2>1. q \in D /\ Laws!Ahead(b, q) \subseteq {p, a}
    BY <1>5, <1>12
  <2>2. Laws!Ahead(g, q) \subseteq {p, a}
    BY <1>4, <2>1
  <2> QED BY <1>8, <2>1, <2>2 DEF PoolH, D
<1> QED BY <1>7, <1>8, <1>9, <1>10, <1>11, <1>12 DEF g

(* A write through the pointer to a cached page changes what is read of    *)
(* that page only.                                                         *)
LEMMA PoolPuts ==
  ASSUME NEW b \in PoolM, NEW p \in Page, NEW c \in Node, p \in Laws!Cached(b)
  PROVE  LET g == Laws!store(b, p, c)
         IN  /\ g \in PoolM /\ Laws!View(g) = [Laws!View(b) EXCEPT ![p] = c]
             /\ g.next_page_id = b.next_page_id
             /\ Unmarked(g) \subseteq Unmarked(b) \cup {p}
             /\ \A q, x, y \in Page : <<b, q, x, y>> \in PoolH => <<g, q, x, y>> \in PoolH
<1> DEFINE g == Laws!store(b, p, c)
           C == Laws!Cached(b)
<1>1. /\ Laws!PoolOK(b) /\ b.next_page_id \in 0 .. LastPage + 1
      /\ b.num_pages \in Nat /\ b.num_pages <= b.next_page_id
      /\ \A q \in C : q < b.next_page_id
  BY PoolMTypes
<1>2. /\ Laws!PoolOK(g) /\ Laws!Cached(g) = C /\ g.lru = b.lru
      /\ g.entry[p] = [buffer |-> c, dirty |-> b.entry[p].dirty]
      /\ \A q \in C \ {p} : g.entry[q] = b.entry[q]
      /\ g.disk = b.disk /\ g.num_pages = b.num_pages
      /\ g.next_page_id = b.next_page_id
  BY <1>1, PoolConstants, Laws!StoreContract
<1> HIDE DEF g
<1>3. g \in PoolM
  BY <1>1, <1>2 DEF PoolM, Laws!PoolOK
<1>4. Laws!View(g) = [Laws!View(b) EXCEPT ![p] = c]
  <2>1. /\ Laws!View(g) \in [Page -> Node] /\ Laws!View(b) \in [Page -> Node]
        /\ \A q \in Page : Laws!View(g)[q] = IF q \in C THEN g.entry[q].buffer
                                             ELSE g.disk[q]
        /\ \A q \in Page : Laws!View(b)[q] = IF q \in C THEN b.entry[q].buffer
                                             ELSE b.disk[q]
    BY <1>2, <1>3, ViewType
  <2>2. \A q \in Page : Laws!View(g)[q] = IF q = p THEN c ELSE Laws!View(b)[q]
    BY <1>2, <2>1
  <2> QED BY <2>1, <2>2
<1>5. Unmarked(g) \subseteq Unmarked(b) \cup {p}
  BY <1>2 DEF Unmarked
<1>6. \A q : Laws!Ahead(g, q) = Laws!Ahead(b, q)
  BY <1>2 DEF Laws!Ahead
<1>7. \A q, x, y \in Page : <<b, q, x, y>> \in PoolH => <<g, q, x, y>> \in PoolH
  BY <1>2, <1>3, <1>6 DEF PoolH
<1> QED BY <1>2, <1>3, <1>4, <1>5, <1>7 DEF g

(* mark_dirty changes nothing that is read, and the page is marked.        *)
LEMMA PoolMarks ==
  ASSUME NEW b \in PoolM, NEW p \in Page, p \in Laws!Cached(b)
  PROVE  LET g == Laws!mark_dirty(b, p)
         IN  /\ g \in PoolM /\ Laws!View(g) = Laws!View(b)
             /\ g.next_page_id = b.next_page_id
             /\ Unmarked(g) \subseteq Unmarked(b) \ {p}
             /\ \A q, x, y \in Page : <<b, q, x, y>> \in PoolH => <<g, q, x, y>> \in PoolH
<1> DEFINE g == Laws!mark_dirty(b, p)
           C == Laws!Cached(b)
<1>1. /\ Laws!PoolOK(b) /\ b.next_page_id \in 0 .. LastPage + 1
      /\ b.num_pages \in Nat /\ b.num_pages <= b.next_page_id
      /\ \A q \in C : q < b.next_page_id
  BY PoolMTypes
<1>2. /\ Laws!PoolOK(g) /\ Laws!Cached(g) = C /\ g.lru = b.lru
      /\ g.entry[p].buffer = b.entry[p].buffer /\ g.entry[p].dirty = TRUE
      /\ \A q \in C \ {p} : g.entry[q] = b.entry[q]
      /\ g.disk = b.disk /\ g.num_pages = b.num_pages
      /\ g.next_page_id = b.next_page_id
  <2>1. /\ LastPage \in Nat /\ MaxPages \in Nat \ {0} /\ Blank \in Node
        /\ 3 \in Nat \ {0} /\ 3 <= MaxPages /\ NoNode \notin Node
        /\ Laws!PoolOK(b) /\ p \in Laws!Cached(b)
    BY <1>1, PoolConstants
  <2> QED BY <2>1, Laws!MarkDirtyContract, Zenon
<1> HIDE DEF g
<1>3. g \in PoolM
  BY <1>1, <1>2 DEF PoolM, Laws!PoolOK
<1>4. Laws!View(g) = Laws!View(b)
  <2>1. /\ Laws!View(g) \in [Page -> Node] /\ Laws!View(b) \in [Page -> Node]
        /\ \A q \in Page : Laws!View(g)[q] = IF q \in C THEN g.entry[q].buffer
                                             ELSE g.disk[q]
        /\ \A q \in Page : Laws!View(b)[q] = IF q \in C THEN b.entry[q].buffer
                                             ELSE b.disk[q]
    BY <1>2, <1>3, ViewType
  <2>2. \A q \in Page : Laws!View(g)[q] = Laws!View(b)[q]
    BY <1>2, <2>1
  <2> QED BY <2>1, <2>2
<1>5. Unmarked(g) \subseteq Unmarked(b) \ {p}
  BY <1>2 DEF Unmarked
<1>6. \A q : Laws!Ahead(g, q) = Laws!Ahead(b, q)
  BY <1>2 DEF Laws!Ahead
<1>7. \A q, x, y \in Page : <<b, q, x, y>> \in PoolH => <<g, q, x, y>> \in PoolH
  BY <1>2, <1>3, <1>6 DEF PoolH
<1> QED BY <1>2, <1>3, <1>4, <1>5, <1>7 DEF g

(* get_unused_page_num changes nothing that is read; the page it hands out *)
(* is past the end of the file and not cached.                             *)
LEMMA PoolNewPage ==
  ASSUME NEW b \in PoolM, b.next_page_id \in Page
  PROVE  LET g == NewPage(b)
         IN  /\ g \in PoolM /\ Laws!View(g) = Laws!View(b)
             /\ g.next_page_id = b.next_page_id + 1
             /\ Unmarked(g) \subseteq Unmarked(b) \cup {b.next_page_id}
             /\ \A q, x, y \in Page : <<b, q, x, y>> \in PoolH => <<g, q, x, y>> \in PoolH
<1> DEFINE g == NewPage(b)
           C == Laws!Cached(b)
<1>1. /\ Laws!PoolOK(b) /\ b.next_page_id \in 0 .. LastPage + 1
      /\ b.num_pages \in Nat /\ b.num_pages <= b.next_page_id
      /\ \A q \in C : q < b.next_page_id
  BY PoolMTypes
<1>2. g = Laws!get_unused_page_num(b)
  BY DEF NewPage, Laws!get_unused_page_num
<1> HIDE DEF g
<1>3. /\ Laws!PoolOK(g) /\ Laws!Cached(g) = C
      /\ g.lru = b.lru /\ g.entry = b.entry
      /\ g.disk = b.disk /\ g.num_pages = b.num_pages
      /\ g.next_page_id = b.next_page_id + 1
  BY <1>1, <1>2, PoolConstants, Laws!GetUnused
<1>4. b.next_page_id + 1 \in 0 .. LastPage + 1
  BY PoolConstants DEF Page
<1>5. g \in PoolM
  <2>1. C \subseteq Nat
    BY PoolMTypes, PoolConstants
  <2>2. \A q \in C : q < b.next_page_id + 1
    BY <1>1, <2>1
  <2>3. b.num_pages <= b.next_page_id + 1
    BY <1>1
  <2> QED BY <1>3, <1>4, <2>2, <2>3 DEF PoolM, Laws!PoolOK
<1>6. Laws!View(g) = Laws!View(b)
  BY <1>3 DEF Laws!View
<1>7. Unmarked(g) \subseteq Unmarked(b) \cup {b.next_page_id}
  <2>1. \A q \in Page : q < b.next_page_id + 1 => q < b.next_page_id \/ q = b.next_page_id
    BY <1>1, PoolConstants
  <2> QED BY <1>3, <2>1 DEF Unmarked
<1>8. \A q : Laws!Ahead(g, q) = Laws!Ahead(b, q)
  BY <1>3 DEF Laws!Ahead
<1>9. \A q, x, y \in Page : <<b, q, x, y>> \in PoolH => <<g, q, x, y>> \in PoolH
  BY <1>3, <1>5, <1>8 DEF PoolH
<1> QED BY <1>3, <1>5, <1>6, <1>7, <1>9 DEF g

(* A restart of a pool with nothing unmarked changes nothing that is read: *)
(* the flush writes the dirty pages, the others equal the file, and the    *)
(* file reaches as far as the pages that were handed out.                  *)
LEMMA PoolRestarts ==
  ASSUME NEW b \in PoolM, Unmarked(b) = {}
  PROVE  LET g == Laws!Restarted(b)
         IN  /\ g \in PoolM /\ Laws!View(g) = Laws!View(b)
             /\ g.next_page_id = b.next_page_id /\ Unmarked(g) = {}
<1> DEFINE g == Laws!Restarted(b)
           C == Laws!Cached(b)
<1>1. /\ Laws!PoolOK(b) /\ b.next_page_id \in 0 .. LastPage + 1
      /\ b.num_pages \in Nat /\ b.num_pages <= b.next_page_id
      /\ C \subseteq Page /\ \A q \in C : q < b.next_page_id
  BY PoolMTypes
<1>2. /\ Laws!PoolOK(g) /\ Laws!Cached(g) = {} /\ g.next_page_id = g.num_pages
      /\ \A q \in Page : g.disk[q] = IF q \in C /\ b.entry[q].dirty
                                     THEN b.entry[q].buffer ELSE b.disk[q]
      /\ b.num_pages <= g.num_pages
      /\ \A q \in C : b.entry[q].dirty => q < g.num_pages
      /\ g.num_pages = b.num_pages \/ \E q \in C : g.num_pages = q + 1
  BY <1>1, PoolConstants, Laws!RestartContract
<1>3. /\ \A q \in C : ~b.entry[q].dirty => b.entry[q].buffer = b.disk[q]
      /\ \A q \in Page : b.num_pages <= q /\ q < b.next_page_id
                         => q \in C /\ b.entry[q].dirty
  BY <1>1 DEF Unmarked
<1> HIDE DEF g, C
<1>4. g.num_pages \in Nat
  BY <1>2, PoolConstants, Laws!PoolTypes
<1>5. g.num_pages = b.next_page_id
  <2>1. g.num_pages <= b.next_page_id
    <3>1. CASE g.num_pages = b.num_pages
      BY <1>1, <3>1
    <3>2. ASSUME NEW q \in C, g.num_pages = q + 1 PROVE g.num_pages <= b.next_page_id
      <4>1. q \in Nat /\ q < b.next_page_id /\ b.next_page_id \in Nat
        BY <1>1, PoolConstants
      <4> QED BY <3>2, <4>1
    <3> QED BY <1>2, <3>1, <3>2
  <2>2. ASSUME g.num_pages < b.next_page_id PROVE FALSE
    <3>1. /\ g.num_pages \in Page /\ b.num_pages <= g.num_pages
          /\ g.num_pages < b.next_page_id
      BY <1>1, <1>2, <1>4, <2>2, PoolConstants DEF Page
    <3>2. g.num_pages < g.num_pages
      BY <1>2, <1>3, <3>1
    <3> QED BY <1>4, <3>2
  <2> QED BY <1>1, <1>4, <2>1, <2>2
<1>6. g \in PoolM
  <2>1. g \in Laws!PoolRecord
    BY <1>2 DEF Laws!PoolOK
  <2>2. g.num_pages <= g.next_page_id /\ g.next_page_id \in 0 .. LastPage + 1
    BY <1>1, <1>2, <1>4, <1>5
  <2> QED BY <1>2, <2>1, <2>2 DEF PoolM
<1>7. Laws!View(g) = Laws!View(b)
  <2>1. /\ Laws!View(g) \in [Page -> Node] /\ Laws!View(b) \in [Page -> Node]
        /\ \A q \in Page : Laws!View(g)[q] = g.disk[q]
        /\ \A q \in Page : Laws!View(b)[q] = IF q \in C THEN b.entry[q].buffer
                                             ELSE b.disk[q]
    BY <1>2, <1>6, ViewType DEF C
  <2>2. \A q \in Page : Laws!View(g)[q] = Laws!View(b)[q]
    BY <1>2, <1>3, <2>1
  <2> QED BY <2>1, <2>2
<1>8. Unmarked(g) = {}
  <2>1. ASSUME NEW q \in Page PROVE ~(g.num_pages <= q /\ q < g.next_page_id)
    <3>1. g.next_page_id = g.num_pages
      BY <1>2
    <3>2. q \in Nat
      BY PoolConstants
    <3> QED BY <1>4, <3>1, <3>2
  <2> QED BY <1>2, <2>1 DEF Unmarked
<1> QED BY <1>2, <1>5, <1>6, <1>7, <1>8 DEF g

(* The buffer pool is a memory the tree may be built on.                   *)
LEMMA PoolIsMemory ==
  ASSUME OverPool
  PROVE  PageMemory(PoolM, PoolU, PoolH)
<1> USE SamePool
<1>1. /\ EmptyFile = Laws!Open([p \in Page |-> Blank], 0)
      /\ \A b, p : Fetch(b, p) = Laws!get_page(b, p)
      /\ \A b, p, c : Put(b, p, c) = Laws!store(b, p, c)
      /\ \A b, p : Mark(b, p) = Laws!mark_dirty(b, p)
      /\ \A b : Pages(b) = Laws!View(b)
      /\ \A b : Restart(b) = Laws!Restarted(b)
  BY DEF OverPool
<1>2. \A b \in PoolM : PoolU[b] = Unmarked(b)
  BY DEF PoolU
<1>3. \A b, p, x, y : <<b, p, x, y>> \in PoolH =>
                        b \in PoolM /\ p \in Page /\ p \in Laws!Cached(b)
  BY DEF PoolH
<1>4. MemoryTypes(PoolM, PoolU, PoolH)
  <2>1. ASSUME NEW b \in PoolM
        PROVE  /\ Pages(b) \in [Page -> Node] /\ b.next_page_id \in 0 .. LastPage + 1
               /\ PoolU[b] \subseteq Page
    BY <1>1, <1>2, ViewType, PoolMTypes DEF Unmarked
  <2>2. \A b \in PoolM : \A p, x, y \in Page :
          <<b, p, x, y>> \in PoolH => <<b, p, y, x>> \in PoolH
    BY DEF PoolH
  <2> QED BY <2>1, <2>2 DEF MemoryTypes
<1>5. EmptyFileLaw(PoolM, PoolU)
  <2> DEFINE d == [p \in Page |-> Blank]
             b == Laws!Open(d, 0)
  <2>1. d \in [Page -> Node]
    BY PoolConstants
  <2>2. /\ Laws!PoolOK(b) /\ Laws!Cached(b) = {}
        /\ b.disk = d /\ b.num_pages = 0 /\ b.next_page_id = 0
    <3> HIDE DEF d
    <3> QED BY <2>1, PoolConstants, Laws!OpenContract
  <2> HIDE DEF b
  <2>3. b \in PoolM
    <3>1. 0 \in 0 .. LastPage + 1 /\ b.num_pages <= b.next_page_id
      BY <2>2, PoolConstants
    <3> QED BY <2>2, <3>1 DEF PoolM, Laws!PoolOK
  <2>4. Laws!View(b) \in [Page -> Node] /\ \A p \in Page : Laws!View(b)[p] = d[p]
    BY <2>2, <2>3, ViewType
  <2>5. Laws!View(b) = d
    BY <2>1, <2>4
  <2>6. Unmarked(b) = {}
    <3>1. \A p \in Page : ~(p < 0)
      BY PoolConstants
    <3> QED BY <2>2, <3>1 DEF Unmarked
  <2> QED BY <1>1, <1>2, <2>2, <2>3, <2>5, <2>6 DEF EmptyFileLaw, b
<1>6. FetchLaw(PoolM, PoolU, PoolH)
  <2> SUFFICES ASSUME NEW m \in PoolM, NEW p \in Page, p <= m.next_page_id,
                      \A q \in PoolU[m] \ {p} : \E a \in Page : <<m, q, p, a>> \in PoolH
               PROVE  LET f == Fetch(m, p) IN
                      /\ f \in PoolM /\ Pages(f) = Pages(m)
                      /\ f.next_page_id = IF p = m.next_page_id THEN p + 1
                                                                ELSE m.next_page_id
                      /\ PoolU[f] \subseteq PoolU[m] \cup {q \in {p} : p = m.next_page_id}
                      /\ \A a, b \in Page : <<f, p, a, b>> \in PoolH
                      /\ \A q, a \in Page : <<m, q, p, a>> \in PoolH
                                            => <<f, q, p, a>> \in PoolH
    BY DEF FetchLaw
  <2>1. \A q \in Unmarked(m) \ {p} : \E a \in Page : <<m, q, p, a>> \in PoolH
    BY <1>2
  <2>2. LET g == Laws!get_page(m, p)
        IN  /\ g \in PoolM /\ Laws!View(g) = Laws!View(m)
            /\ g.next_page_id = IF p = m.next_page_id THEN p + 1 ELSE m.next_page_id
            /\ Unmarked(g) \subseteq Unmarked(m) \cup {q \in {p} : p = m.next_page_id}
            /\ \A a, c \in Page : <<g, p, a, c>> \in PoolH
            /\ \A q, a \in Page : <<m, q, p, a>> \in PoolH => <<g, q, p, a>> \in PoolH
    BY <2>1, PoolFetches
  <2> QED BY <1>1, <1>2, <2>2
<1>7. PutLaw(PoolM, PoolU, PoolH)
  <2> SUFFICES ASSUME NEW m \in PoolM, NEW p \in Page, NEW c \in Node,
                      HeldIn(PoolH, m, p)
               PROVE  LET f == Put(m, p, c) IN
                      /\ f \in PoolM /\ Pages(f) = [Pages(m) EXCEPT ![p] = c]
                      /\ f.next_page_id = m.next_page_id
                      /\ PoolU[f] \subseteq PoolU[m] \cup {p} /\ KeepsHeld(PoolH, m, f)
    BY DEF PutLaw
  <2>1. p \in Laws!Cached(m)
    BY <1>3 DEF HeldIn
  <2>2. LET g == Laws!store(m, p, c)
        IN  /\ g \in PoolM /\ Laws!View(g) = [Laws!View(m) EXCEPT ![p] = c]
            /\ g.next_page_id = m.next_page_id
            /\ Unmarked(g) \subseteq Unmarked(m) \cup {p}
            /\ \A q, x, y \in Page : <<m, q, x, y>> \in PoolH => <<g, q, x, y>> \in PoolH
    BY <2>1, PoolPuts
  <2> QED BY <1>1, <1>2, <2>2 DEF KeepsHeld
<1>8. MarkLaw(PoolM, PoolU, PoolH)
  <2> SUFFICES ASSUME NEW m \in PoolM, NEW p \in Page, HeldIn(PoolH, m, p)
               PROVE  LET f == Mark(m, p) IN
                      /\ f \in PoolM /\ Pages(f) = Pages(m)
                      /\ f.next_page_id = m.next_page_id
                      /\ PoolU[f] \subseteq PoolU[m] \ {p} /\ KeepsHeld(PoolH, m, f)
    BY DEF MarkLaw
  <2>1. p \in Laws!Cached(m)
    BY <1>3 DEF HeldIn
  <2>2. LET g == Laws!mark_dirty(m, p)
        IN  /\ g \in PoolM /\ Laws!View(g) = Laws!View(m)
            /\ g.next_page_id = m.next_page_id
            /\ Unmarked(g) \subseteq Unmarked(m) \ {p}
            /\ \A q, x, y \in Page : <<m, q, x, y>> \in PoolH => <<g, q, x, y>> \in PoolH
    BY <2>1, PoolMarks
  <2> QED BY <1>1, <1>2, <2>2 DEF KeepsHeld
<1>9. NewPageLaw(PoolM, PoolU, PoolH)
  <2> SUFFICES ASSUME NEW m \in PoolM, m.next_page_id \in Page
               PROVE  LET f == NewPage(m) IN
                      /\ f \in PoolM /\ Pages(f) = Pages(m)
                      /\ f.next_page_id = m.next_page_id + 1
                      /\ PoolU[f] \subseteq PoolU[m] \cup {m.next_page_id}
                      /\ KeepsHeld(PoolH, m, f)
    BY DEF NewPageLaw
  <2>1. LET g == NewPage(m)
        IN  /\ g \in PoolM /\ Laws!View(g) = Laws!View(m)
            /\ g.next_page_id = m.next_page_id + 1
            /\ Unmarked(g) \subseteq Unmarked(m) \cup {m.next_page_id}
            /\ \A q, x, y \in Page : <<m, q, x, y>> \in PoolH => <<g, q, x, y>> \in PoolH
    BY PoolNewPage
  <2> QED BY <1>1, <1>2, <2>1 DEF KeepsHeld
<1>10. RestartLaw(PoolM, PoolU)
  <2> SUFFICES ASSUME NEW m \in PoolM, PoolU[m] = {}
               PROVE  LET f == Restart(m) IN
                      /\ f \in PoolM /\ Pages(f) = Pages(m)
                      /\ f.next_page_id = m.next_page_id /\ PoolU[f] = {}
    BY DEF RestartLaw
  <2>1. LET g == Laws!Restarted(m)
        IN  /\ g \in PoolM /\ Laws!View(g) = Laws!View(m)
            /\ g.next_page_id = m.next_page_id /\ Unmarked(g) = {}
    BY <1>2, PoolRestarts
  <2> QED BY <1>1, <1>2, <2>1
<1> QED BY <1>4, <1>5, <1>6, <1>7, <1>8, <1>9, <1>10 DEF PageMemory

(* Every page that a call reads or writes through a pointer is cached: a   *)
(* cache of three pages never evicts a page that a call still works with.  *)
THEOREM NoneDangling ==
  ASSUME OverPool
  PROVE  Spec => []NoDanglingPointer
<1>1. IInv(PoolM, PoolU, PoolH) => NoDanglingPointer
  <2> SUFFICES ASSUME IInv(PoolM, PoolU, PoolH), NEW p \in touched
               PROVE  p \in Pool!Cached(mem)
    BY DEF NoDanglingPointer
  <2>1. HeldIn(PoolH, mem, p)
    BY DEF IInv, MemoryInv
  <2>2. p \in Laws!Cached(mem)
    BY <2>1 DEF HeldIn, PoolH
  <2> QED BY <2>2, SamePool
<1>2. Init => IInv(PoolM, PoolU, PoolH)
  BY PoolIsMemory, InitTree
<1>3. IInv(PoolM, PoolU, PoolH) /\ [Next]_vars => IInv(PoolM, PoolU, PoolH)'
  BY PoolIsMemory, NextTree
<1> QED BY <1>1, <1>2, <1>3, PTL DEF Spec

(* Between calls every page that differs from the file is marked: no path  *)
(* through the splits forgets a mark_dirty.                                *)
THEOREM WritesMarked ==
  ASSUME OverPool
  PROVE  Spec => []EveryWriteMarked
<1>1. IInv(PoolM, PoolU, PoolH) => EveryWriteMarked
  <2> SUFFICES ASSUME IInv(PoolM, PoolU, PoolH), AtRest, NEW p \in Pool!Cached(mem),
                      ~mem.entry[p].dirty
               PROVE  mem.entry[p].buffer = mem.disk[p]
    BY DEF EveryWriteMarked
  <2>1. mem \in PoolM /\ PoolU[mem] = {}
    BY DEF IInv, MemoryInv, AtRest
  <2>2. Unmarked(mem) = {}
    BY <2>1 DEF PoolU
  <2>3. p \in Laws!Cached(mem) /\ p \in Page
    BY <2>1, SamePool, PoolMTypes
  <2> QED BY <2>2, <2>3 DEF Unmarked
<1>2. Init => IInv(PoolM, PoolU, PoolH)
  BY PoolIsMemory, InitTree
<1>3. IInv(PoolM, PoolU, PoolH) /\ [Next]_vars => IInv(PoolM, PoolU, PoolH)'
  BY PoolIsMemory, NextTree
<1> QED BY <1>1, <1>2, <1>3, PTL DEF Spec

(* Over the pool as over any memory, each call does to the dictionary what *)
(* it was asked, with its key and its value.                               *)
THEOREM ImplementsOverPool ==
  ASSUME OverPool
  PROVE  Spec => ImplementsIndex
BY PoolIsMemory, Implements

(* The invariants of the tree, over the pool.                              *)
THEOREM TreeOverPool ==
  ASSUME OverPool
  PROVE  Spec => [](TypeOK /\ SearchTree /\ OneParent /\ LeafChain /\ HalfFull)
<1>1. IInv(PoolM, PoolU, PoolH)
      => TypeOK /\ SearchTree /\ OneParent /\ LeafChain /\ HalfFull
  BY PoolIsMemory, TypesGood, AtRestGood
<1>2. Init => IInv(PoolM, PoolU, PoolH)
  BY PoolIsMemory, InitTree
<1>3. IInv(PoolM, PoolU, PoolH) /\ [Next]_vars => IInv(PoolM, PoolU, PoolH)'
  BY PoolIsMemory, NextTree
<1> QED BY <1>1, <1>2, <1>3, PTL DEF Spec

-----------------------------------------------------------------------------
(* The flat array.                                                         *)
OverArray ==
  /\ EmptyFile = flat
  /\ \A m, p : Fetch(m, p) = flat_fetch(m, p)
  /\ \A m, p, c : Put(m, p, c) = flat_put(m, p, c)
  /\ \A m, p : Mark(m, p) = flat_mark(m, p)
  /\ \A m : Pages(m) = flat_pages(m)
  /\ \A m : Restart(m) = flat_restart(m)

ArrayM == [page : [Page -> Node], next_page_id : 0 .. LastPage + 1]
ArrayU == [m \in ArrayM |-> {}]
ArrayH == ArrayM \X Page \X Page \X Page

(* The array is a memory the tree may be built on: nothing is unmarked,    *)
(* and every page is held.                                                 *)
LEMMA ArrayIsMemory ==
  ASSUME OverArray
  PROVE  PageMemory(ArrayM, ArrayU, ArrayH)
<1>1. \A m \in ArrayM : /\ m.page \in [Page -> Node]
                        /\ m.next_page_id \in 0 .. LastPage + 1 /\ ArrayU[m] = {}
  BY DEF ArrayM, ArrayU
<1>2. LastPage \in Nat /\ \A p \in Page : p \in Nat /\ p <= LastPage
  BY LastPageAssumption DEF Page
<1>3. \A m, p, a, b : <<m, p, a, b>> \in ArrayH <=> (m \in ArrayM /\ p \in Page
                                                     /\ a \in Page /\ b \in Page)
  BY DEF ArrayH
<1>4. MemoryTypes(ArrayM, ArrayU, ArrayH)
  BY <1>1, <1>3 DEF MemoryTypes, OverArray, flat_pages
<1>5. EmptyFileLaw(ArrayM, ArrayU)
  <2>1. [p \in Page |-> Blank] \in [Page -> Node] /\ 0 \in 0 .. LastPage + 1
    BY PoolConstants
  <2>2. flat = [page |-> [p \in Page |-> Blank], next_page_id |-> 0]
    BY DEF flat, Page
  <2>3. flat \in ArrayM /\ flat.page = [p \in Page |-> Blank] /\ flat.next_page_id = 0
    BY <2>1, <2>2 DEF ArrayM
  <2> QED BY <1>1, <2>3 DEF EmptyFileLaw, OverArray, flat_pages
<1>6. FetchLaw(ArrayM, ArrayU, ArrayH)
  <2> SUFFICES ASSUME NEW m \in ArrayM, NEW p \in Page, p <= m.next_page_id
               PROVE  LET f == Fetch(m, p) IN
                      /\ f \in ArrayM /\ Pages(f) = Pages(m)
                      /\ f.next_page_id = IF p = m.next_page_id THEN p + 1
                                                                ELSE m.next_page_id
                      /\ ArrayU[f] = {}
    BY <1>3 DEF FetchLaw
  <2>1. PICK n : n = IF p >= m.next_page_id THEN p + 1 ELSE m.next_page_id
    OBVIOUS
  <2>2. n \in 0 .. LastPage + 1
        /\ n = IF p = m.next_page_id THEN p + 1 ELSE m.next_page_id
    BY <1>1, <1>2, <2>1
  <2>3. Fetch(m, p) = [m EXCEPT !.next_page_id = n]
    BY <2>1 DEF OverArray, flat_fetch
  <2>4. [m EXCEPT !.next_page_id = n] = [page |-> m.page, next_page_id |-> n]
    BY DEF ArrayM
  <2>5. Fetch(m, p) \in ArrayM /\ Fetch(m, p).page = m.page /\ Fetch(m, p).next_page_id = n
    BY <1>1, <2>2, <2>3, <2>4 DEF ArrayM
  <2> QED BY <1>1, <2>2, <2>5 DEF OverArray, flat_pages
<1>7. PutLaw(ArrayM, ArrayU, ArrayH)
  <2> SUFFICES ASSUME NEW m \in ArrayM, NEW p \in Page, NEW c \in Node
               PROVE  LET f == Put(m, p, c) IN
                      /\ f \in ArrayM /\ Pages(f) = [Pages(m) EXCEPT ![p] = c]
                      /\ f.next_page_id = m.next_page_id /\ ArrayU[f] = {}
    BY <1>3 DEF PutLaw, KeepsHeld
  <2>1. Put(m, p, c) = [m EXCEPT !.page = [m.page EXCEPT ![p] = c]]
    BY DEF OverArray, flat_put, ArrayM
  <2>2. [m EXCEPT !.page = [m.page EXCEPT ![p] = c]]
        = [page |-> [m.page EXCEPT ![p] = c], next_page_id |-> m.next_page_id]
    BY DEF ArrayM
  <2>3. [m.page EXCEPT ![p] = c] \in [Page -> Node]
    BY <1>1
  <2>4. /\ Put(m, p, c) \in ArrayM /\ Put(m, p, c).page = [m.page EXCEPT ![p] = c]
        /\ Put(m, p, c).next_page_id = m.next_page_id
    BY <1>1, <2>1, <2>2, <2>3 DEF ArrayM
  <2> QED BY <1>1, <2>4 DEF OverArray, flat_pages
<1>8. MarkLaw(ArrayM, ArrayU, ArrayH)
  BY <1>1 DEF MarkLaw, KeepsHeld, OverArray, flat_mark
<1>9. NewPageLaw(ArrayM, ArrayU, ArrayH)
  <2> SUFFICES ASSUME NEW m \in ArrayM, m.next_page_id \in Page
               PROVE  LET f == NewPage(m) IN
                      /\ f \in ArrayM /\ Pages(f) = Pages(m)
                      /\ f.next_page_id = m.next_page_id + 1 /\ ArrayU[f] = {}
    BY <1>3 DEF NewPageLaw, KeepsHeld
  <2>1. NewPage(m) = [page |-> m.page, next_page_id |-> m.next_page_id + 1]
    BY DEF NewPage, ArrayM
  <2>2. m.next_page_id + 1 \in 0 .. LastPage + 1
    BY <1>2
  <2>3. /\ NewPage(m) \in ArrayM /\ NewPage(m).page = m.page
        /\ NewPage(m).next_page_id = m.next_page_id + 1
    BY <1>1, <2>1, <2>2 DEF ArrayM
  <2> QED BY <1>1, <2>3 DEF OverArray, flat_pages
<1>10. RestartLaw(ArrayM, ArrayU)
  BY <1>1 DEF RestartLaw, OverArray, flat_restart
<1> QED BY <1>4, <1>5, <1>6, <1>7, <1>8, <1>9, <1>10 DEF PageMemory

(* The invariants of the tree, over the array.                             *)
THEOREM TreeOverArray ==
  ASSUME OverArray
  PROVE  Spec => [](TypeOK /\ SearchTree /\ OneParent /\ LeafChain /\ HalfFull)
<1>1. IInv(ArrayM, ArrayU, ArrayH)
      => TypeOK /\ SearchTree /\ OneParent /\ LeafChain /\ HalfFull
  BY ArrayIsMemory, TypesGood, AtRestGood
<1>2. Init => IInv(ArrayM, ArrayU, ArrayH)
  BY ArrayIsMemory, InitTree
<1>3. IInv(ArrayM, ArrayU, ArrayH) /\ [Next]_vars => IInv(ArrayM, ArrayU, ArrayH)'
  BY ArrayIsMemory, NextTree
<1> QED BY <1>1, <1>2, <1>3, PTL DEF Spec

(* Over the array, too, each call does what it was asked.                  *)
THEOREM ImplementsOverArray ==
  ASSUME OverArray
  PROVE  Spec => ImplementsIndex
BY ArrayIsMemory, Implements
=============================================================================
