-------------------------- MODULE SQLEngineProofs --------------------------
(***************************************************************************)
(* What the executors answer, for tables and schemas of every size and for *)
(* every statement.                                                        *)
(***************************************************************************)
EXTENDS SQLEngine, FiniteSetTheorems, SequenceTheorems, WellFoundedInduction, TLAPS

-----------------------------------------------------------------------------
(* Least and greatest numbers.                                             *)

(* Every nonempty set of natural numbers has a least element.              *)
LEMMA LeastNumber ==
  ASSUME NEW T \in SUBSET Nat, T # {}
  PROVE  \E x \in T : \A y \in T : x <= y
<1> DEFINE R == {ss \in Nat \X Nat : ss[1] < ss[2]}
<1>1. R = OpToRel(<, Nat)
  BY Zenon DEF OpToRel
<1>2. IsWellFoundedOn(R, Nat)
  BY <1>1, NatLessThanWellFounded, Zenon
<1>3. PICK x \in T : \A y \in T : ~(<<y, x>> \in R)
  <2> HIDE DEF R
  <2> QED BY <1>2, WFMin
<1> QED
  <2>1. ASSUME NEW y \in T PROVE x <= y
    <3>1. x \in Nat /\ y \in Nat /\ ~(y < x)
      BY <1>3
    <3> QED BY <3>1
  <2> QED BY <2>1

(* Min is the least of a nonempty set of numbers ...                       *)
LEMMA MinIsLeast ==
  ASSUME NEW T \in SUBSET Nat, T # {}
  PROVE  Sets!Min(T) \in T /\ \A y \in T : Sets!Min(T) <= y
<1>1. \E x \in T : \A y \in T : x =< y
  BY LeastNumber
<1> QED BY <1>1 DEF Sets!Min

(* ... and Max is a member of a nonempty bounded one.                      *)
LEMMA MaxIsIn ==
  ASSUME NEW n \in Nat, NEW T \in SUBSET (1 .. n), T # {}
  PROVE  Sets!Max(T) \in T
<1> DEFINE D == {n - x : x \in T}
<1>1. D \in SUBSET Nat /\ D # {}
  <2>1. ASSUME NEW x \in T PROVE n - x \in Nat
    OBVIOUS
  <2> QED BY <2>1
<1>2. PICK d \in D : \A e \in D : d <= e
  <2> HIDE DEF D
  <2> QED BY <1>1, LeastNumber
<1>3. PICK x \in T : d = n - x
  BY <1>2
<1>4. ASSUME NEW y \in T PROVE x >= y
  <2>1. n - y \in D
    OBVIOUS
  <2> QED BY <1>2, <1>3, <2>1
<1>5. \E z \in T : \A y \in T : z >= y
  BY <1>4
<1> QED BY <1>5 DEF Sets!Max

-----------------------------------------------------------------------------
(* Schemas and types.                                                      *)

(* The schemas that a run may create.                                      *)
Schemas == UNION {Schema[n] : n \in Name}

(* A schema is a sequence of columns, each an INT or a TEXT.               *)
LEMMA SchemaIs ==
  ASSUME NEW s \in Schemas
  PROVE  /\ Len(s) \in Nat /\ DOMAIN s = 1 .. Len(s)
         /\ \A c \in 1 .. Len(s) : s[c].type \in {"INT", "TEXT"}
<1>1. IsSeq(s) /\ \A c \in DOMAIN s : s[c].type \in {"INT", "TEXT"}
  BY SchemaAssumption DEF Schemas
<1>2. Len(s) \in Nat /\ DOMAIN s = 1 .. Len(s)
  BY <1>1, LenProperties DEF IsSeq
<1> QED BY <1>1, <1>2

(* find_col returns the first column of the name, or 0 for none.           *)
LEMMA FindCol ==
  ASSUME NEW s, Len(s) \in Nat, NEW name
  PROVE  /\ find_col(s, name) \in 0 .. Len(s)
         /\ find_col(s, name) # 0 => s[find_col(s, name)].name = name
         /\ find_col(s, name) = 0 <=> \A c \in 1 .. Len(s) : s[c].name # name
<1> DEFINE found == {c \in 1 .. Len(s) : s[c].name = name}
<1>1. find_col(s, name) = IF found = {} THEN 0 ELSE Sets!Min(found)
  BY DEF find_col
<1>2. found # {} => Sets!Min(found) \in found
  <2>1. found \in SUBSET Nat
    OBVIOUS
  <2> HIDE DEF found
  <2> QED BY <2>1, MinIsLeast
<1>3. found \subseteq 1 .. Len(s) /\ 0 \notin found
  OBVIOUS
<1>4. (found = {}) <=> \A c \in 1 .. Len(s) : s[c].name # name
  OBVIOUS
<1>5. \A c \in found : c \in 0 .. Len(s) /\ s[c].name = name
  OBVIOUS
<1> HIDE DEF found
<1>6. CASE found = {}
  BY <1>1, <1>4, <1>6
<1>7. CASE found # {}
  <2>1. find_col(s, name) \in found
    BY <1>1, <1>2, <1>7
  <2> QED BY <1>3, <1>4, <1>5, <1>7, <2>1
<1> QED BY <1>6, <1>7

(* A row of a table with schema s.                                         *)
RowOf(s) ==
  {row \in Row : /\ DOMAIN row = DOMAIN s
                 /\ \A c \in DOMAIN s : IF s[c].type = "INT" THEN row[c] \in ReadInt
                                        ELSE row[c] \in Text}
TableOf(n) == UNION {[schema : {s}, rows : Seq(RowOf(s) \cup {Gone})] : s \in Schema[n]}

(* The types of tables and rows, a schema's columns in each.               *)
Types ==
  /\ DOMAIN table = Name
  /\ \A n \in Name : Exists(n) => table[n] \in TableOf(n)
  /\ \A n \in tables_ : n \in Name /\ Exists(n)

(* They are stronger than the types that the runs check.                   *)
LEMMA TypesMean ==
  Types => TypeOK
<1> SUFFICES ASSUME Types PROVE TypeOK
  OBVIOUS
<1>1. ASSUME NEW n \in Name, Exists(n)
      PROVE  /\ table[n].schema \in Schema[n]
             /\ \A i \in scan(table[n]) :
                  /\ DOMAIN table[n].rows[i] = DOMAIN table[n].schema
                  /\ \A c \in DOMAIN table[n].schema :
                       IF table[n].schema[c].type = "INT" THEN table[n].rows[i][c] \in Int
                       ELSE table[n].rows[i][c] \in Text
  <2>1. PICK s \in Schema[n] : table[n] \in [schema : {s}, rows : Seq(RowOf(s) \cup {Gone})]
    BY <1>1 DEF Types, TableOf
  <2>2. table[n].schema = s /\ table[n].rows \in Seq(RowOf(s) \cup {Gone})
    BY <2>1
  <2>3. \A i \in scan(table[n]) : table[n].rows[i] \in RowOf(s)
    BY <2>2, ElementOfSeq DEF scan
  <2> QED BY <2>2, <2>3, TextAssumption DEF RowOf
<1> QED BY <1>1 DEF TypeOK, Types

(* A table that exists has a schema and rows of that schema.               *)
LEMMA TableTypes ==
  ASSUME Types, NEW n \in Name, Exists(n)
  PROVE  /\ table[n].schema \in Schema[n] /\ table[n].schema \in Schemas
         /\ table[n].rows \in Seq(RowOf(table[n].schema) \cup {Gone})
         /\ Len(table[n].rows) \in Nat
         /\ table[n] = [schema |-> table[n].schema, rows |-> table[n].rows]
<1>1. PICK s \in Schema[n] : table[n] \in [schema : {s}, rows : Seq(RowOf(s) \cup {Gone})]
  BY DEF Types, TableOf
<1>2. /\ table[n].schema = s /\ table[n].rows \in Seq(RowOf(s) \cup {Gone})
      /\ table[n] = [schema |-> table[n].schema, rows |-> table[n].rows]
  BY <1>1
<1>3. Len(table[n].rows) \in Nat
  BY <1>2, LenProperties
<1> QED BY <1>1, <1>2, <1>3 DEF Schemas

(* A table that rows of its schema make is a table, and is there.          *)
LEMMA TableMade ==
  ASSUME NEW n \in Name, NEW s \in Schema[n], NEW rows \in Seq(RowOf(s) \cup {Gone}),
         NEW t, t = [schema |-> s, rows |-> rows]
  PROVE  t \in TableOf(n) /\ t # NoTable
<1>1. t \in TableOf(n)
  BY DEF TableOf
<1>2. rows \in Seq(Row \cup {Gone})
  <2>1. RowOf(s) \cup {Gone} \subseteq Row \cup {Gone}
    BY DEF RowOf
  <2> QED BY <2>1, SeqMonotonic
<1>3. t \in [schema : Schemas, rows : Seq(Row \cup {Gone})]
  BY <1>2 DEF Schemas
<1> QED BY <1>1, <1>3, MarkersAssumption DEF Schemas

(* What INSERT gives values to.                                            *)
LEMMA GivenIs ==
  ASSUME Types, NEW q \in Inserts, Exists(q.table)
  PROVE  /\ Len(q.vals) \in Nat /\ Given(q) \subseteq 1 .. Len(q.vals)
         /\ \A j \in Given(q) : q.vals[j] \in Text
<1> DEFINE L == IF q.cols = <<>> THEN Len(table[q.table].schema) ELSE Len(q.cols)
           m == Sets!Min({Len(q.vals), L})
<1>1. q.table \in Name /\ q.vals \in Seq(Text) /\ IsSeq(q.cols)
  BY StatementsAssumption
<1>2. Len(q.vals) \in Nat /\ L \in Nat
  BY <1>1, TableTypes, SchemaIs, LenProperties DEF IsSeq
<1> HIDE DEF L
<1>3. m \in Nat /\ m <= Len(q.vals)
  BY <1>2, MinIsLeast
<1>4. Given(q) = 1 .. m
  BY DEF Given, L
<1> HIDE DEF m
<1>5. Given(q) \subseteq 1 .. Len(q.vals)
  BY <1>2, <1>3, <1>4
<1> QED BY <1>1, <1>2, <1>5, ElementOfSeq

(* The row that INSERT makes fits its table, whichever columns it names.   *)
LEMMA RowFits ==
  ASSUME Types, NEW q \in Inserts, Exists(q.table), ~insert_throws(q)
  PROVE  row_of(q) \in RowOf(table[q.table].schema)
<1> DEFINE s == table[q.table].schema
           js(c) == {j \in Given(q) : Target(q, j) = c}
           value(c) == IF js(c) = {} THEN IF s[c].type # "INT" THEN EmptyText ELSE 0
                       ELSE IF s[c].type # "INT" THEN q.vals[Sets!Max(js(c))]
                       ELSE stoi(q.vals[Sets!Max(js(c))])
<1>1. /\ Len(s) \in Nat /\ DOMAIN s = 1 .. Len(s)
      /\ \A c \in 1 .. Len(s) : s[c].type \in {"INT", "TEXT"}
  BY TableTypes, SchemaIs, StatementsAssumption
<1>2. row_of(q) = [c \in 1 .. Len(s) |-> value(c)]
  BY DEF row_of
<1>3. ASSUME NEW c \in 1 .. Len(s)
      PROVE  IF s[c].type = "INT" THEN value(c) \in ReadInt ELSE value(c) \in Text
  <2>1. CASE js(c) = {}
    BY <2>1, TextAssumption DEF ReadInt
  <2>2. CASE js(c) # {}
    <3> DEFINE j == Sets!Max(js(c))
    <3>1. js(c) \subseteq 1 .. Len(q.vals)
      BY GivenIs
    <3>2. j \in js(c)
      <4> HIDE DEF js
      <4> QED BY <2>2, <3>1, GivenIs, MaxIsIn
    <3>3. j \in Given(q) /\ Target(q, j) = c /\ q.vals[j] \in Text
      BY <3>2, GivenIs
    <3> HIDE DEF j
    <3>4. s[c].type = "INT" => stoi(q.vals[j]) # NaN
      BY <1>1, <3>3 DEF insert_throws
    <3>5. s[c].type = "INT" => stoi(q.vals[j]) \in ReadInt
      BY <3>3, <3>4 DEF ReadInt
    <3> QED BY <2>2, <3>3, <3>5 DEF j
  <2> QED BY <2>1, <2>2
<1> HIDE DEF value, s
<1>4. row_of(q) \in Seq(Int \cup Text)
  <2>1. row_of(q) \in [1 .. Len(s) -> Int \cup Text]
    BY <1>2, <1>3, TextAssumption
  <2> QED BY <1>1, <2>1, IsASeq
<1>5. DOMAIN row_of(q) = DOMAIN s /\ \A c \in DOMAIN s : row_of(q)[c] = value(c)
  BY <1>1, <1>2
<1> QED BY <1>1, <1>3, <1>4, <1>5 DEF RowOf, Row, s

(* They hold where there is no table yet ...                               *)
LEMMA TypesInit ==
  Init => Types
BY DEF Init, Types, Exists

(* Only INSERT, DELETE and CREATE change a table, and one at a time.       *)
LEMMA TableChanged ==
  ASSUME Types, NEW n \in Name, NEW t \in TableOf(n), t # NoTable,
         table' = [table EXCEPT ![n] = t], tables_' = tables_ \cup {n}
  PROVE  Types'
<1>1. DOMAIN table' = Name /\ table'[n] = t /\ \A m \in Name \ {n} : table'[m] = table[m]
  BY DEF Types
<1>2. \A m \in Name : table[m] # NoTable => table'[m] # NoTable
  BY <1>1
<1>3. \A m \in Name : table'[m] # NoTable => table'[m] \in TableOf(m)
  BY <1>1 DEF Types, Exists
<1>4. \A m \in tables_' : m \in Name /\ table'[m] # NoTable
  BY <1>1, <1>2 DEF Types, Exists
<1> QED BY <1>1, <1>3, <1>4 DEF Types, Exists

(* Opening tables that exist changes none.                                 *)
LEMMA TablesOpened ==
  ASSUME Types, table' = table, \A n \in tables_' : n \in tables_ \/ (n \in Name /\ Exists(n))
  PROVE  Types'
BY DEF Types, Exists

(* A statement on tables of which one is missing opens the others.         *)
LEMMA MissingTypes ==
  ASSUME Types, NEW kind, NEW q, NEW names \in Seq(Name), Missing(kind, q, names)
  PROVE  Types'
<1>1. \A i \in 1 .. Len(names) : names[i] \in Name
  BY ElementOfSeq
<1>2. ASSUME NEW n \in tables_' PROVE n \in tables_ \/ (n \in Name /\ Exists(n))
  <2>1. CASE n \notin tables_
    <3>1. PICK i \in 1 .. Len(names) : n = names[i] /\ \A k \in 1 .. i : Exists(names[k])
      BY <1>2, <2>1 DEF Missing
    <3>2. i \in 1 .. i
      OBVIOUS
    <3> QED BY <1>1, <3>1, <3>2
  <2> QED BY <2>1
<1> QED BY <1>2, TablesOpened DEF Missing

(* ... and each statement keeps them: a table is made empty, ...           *)
LEMMA CreateTypes ==
  ASSUME Types, NEW n \in Name, Create(n)
  PROVE  Types'
<1>1. CASE Exists(n)
  BY <1>1, TablesOpened DEF Create
<1>2. CASE ~Exists(n)
  <2>1. PICK s \in Schema[n] : table' = [table EXCEPT ![n] = [schema |-> s, rows |-> <<>>]]
    BY <1>2 DEF Create
  <2> DEFINE t == [schema |-> s, rows |-> <<>>]
  <2>2. t \in TableOf(n) /\ t # NoTable
    <3>1. <<>> \in Seq(RowOf(s) \cup {Gone})
      BY EmptySeq
    <3> QED BY <3>1, TableMade
  <2>3. table' = [table EXCEPT ![n] = t] /\ tables_' = tables_ \cup {n}
    BY <2>1 DEF Create
  <2> HIDE DEF t
  <2> QED BY <2>2, <2>3, TableChanged
<1> QED BY <1>1, <1>2

(* ... a row of its schema is added to it, ...                             *)
LEMMA InsertTypes ==
  ASSUME Types, NEW q \in Inserts, Insert(q)
  PROVE  Types'
<1> DEFINE n == q.table
<1>1. n \in Name
  BY StatementsAssumption
<1>2. CASE Missing("insert", q, <<n>>)
  <2>1. <<n>> \in Seq(Name)
    BY <1>1
  <2> QED BY <1>2, <2>1, MissingTypes
<1>3. CASE Exists(n) /\ insert_throws(q) /\ tables_' = tables_ \cup {n} /\ table' = table
  BY <1>1, <1>3, TablesOpened
<1>4. CASE /\ Exists(n) /\ ~insert_throws(q) /\ tables_' = tables_ \cup {n}
           /\ table' = [table EXCEPT ![n].rows = Append(@, row_of(q))]
  <2> DEFINE s == table[n].schema
             rows == Append(table[n].rows, row_of(q))
             t == [schema |-> s, rows |-> rows]
  <2>1. /\ s \in Schema[n] /\ table[n].rows \in Seq(RowOf(s) \cup {Gone})
        /\ table[n] = [schema |-> s, rows |-> table[n].rows]
    BY <1>1, <1>4, TableTypes
  <2>2. row_of(q) \in RowOf(s)
    BY <1>4, RowFits
  <2>3. rows \in Seq(RowOf(s) \cup {Gone})
    <3> HIDE DEF s
    <3> QED BY <2>1, <2>2, AppendProperties
  <2>4. [table[n] EXCEPT !.rows = rows] = t
    <3> HIDE DEF rows
    <3> QED BY <2>1
  <2>5. table' = [table EXCEPT ![n] = t]
    BY <1>4, <2>4
  <2> HIDE DEF s, rows
  <2>6. t \in TableOf(n) /\ t # NoTable
    BY <1>1, <2>1, <2>3, TableMade
  <2> HIDE DEF t
  <2> QED BY <1>1, <1>4, <2>5, <2>6, TableChanged
<1>5. Len(table[n].rows) \in Nat => (exec_insert(q) = Error <=> insert_throws(q))
  BY MarkersAssumption DEF exec_insert
<1> QED BY <1>1, <1>2, <1>3, <1>4, <1>5, TableTypes DEF Insert

(* ... rows are taken from it, ...                                         *)
LEMMA DeleteTypes ==
  ASSUME Types, NEW q \in Deletes, Delete(q)
  PROVE  Types'
<1> DEFINE n == q.table
<1>1. n \in Name
  BY StatementsAssumption
<1>2. CASE Missing("delete", q, <<n>>)
  <2>1. <<n>> \in Seq(Name)
    BY <1>1
  <2> QED BY <1>2, <2>1, MissingTypes
<1>3. CASE Exists(n) /\ tables_' = tables_ \cup {n} /\ table' = table
  BY <1>1, <1>3, TablesOpened
<1> DEFINE left == [i \in 1 .. Len(table[n].rows) |->
                      IF i \in doomed(q) THEN Gone ELSE table[n].rows[i]]
<1>4. CASE /\ Exists(n) /\ tables_' = tables_ \cup {n}
           /\ table' = [table EXCEPT ![n].rows = left]
  <2> DEFINE s == table[n].schema
             t == [schema |-> s, rows |-> left]
  <2>1. /\ s \in Schema[n] /\ table[n].rows \in Seq(RowOf(s) \cup {Gone})
        /\ Len(table[n].rows) \in Nat
        /\ table[n] = [schema |-> s, rows |-> table[n].rows]
    BY <1>1, <1>4, TableTypes
  <2>2. left \in Seq(RowOf(s) \cup {Gone})
    <3> HIDE DEF s
    <3>1. \A i \in 1 .. Len(table[n].rows) : table[n].rows[i] \in RowOf(s) \cup {Gone}
      BY <2>1, ElementOfSeq
    <3>2. left \in [1 .. Len(table[n].rows) -> RowOf(s) \cup {Gone}]
      BY <3>1
    <3> HIDE DEF left
    <3> QED BY <2>1, <3>2, IsASeq
  <2>3. [table[n] EXCEPT !.rows = left] = t
    <3> HIDE DEF left
    <3> QED BY <2>1
  <2>4. table' = [table EXCEPT ![n] = t]
    BY <1>4, <2>3
  <2> HIDE DEF s, left
  <2>5. t \in TableOf(n) /\ t # NoTable
    BY <1>1, <2>1, <2>2, TableMade
  <2> HIDE DEF t
  <2> QED BY <1>1, <1>4, <2>4, <2>5, TableChanged
<1> QED BY <1>1, <1>2, <1>3, <1>4 DEF Delete

(* ... and a SELECT or a JOIN only opens it.                               *)
LEMMA SelectTypes ==
  ASSUME Types, NEW q \in Selects, Select(q)
  PROVE  Types'
<1>1. q.table \in Name /\ <<q.table>> \in Seq(Name)
  BY StatementsAssumption
<1>2. CASE Missing("select", q, <<q.table>>)
  BY <1>1, <1>2, MissingTypes
<1>3. CASE Exists(q.table) /\ tables_' = tables_ \cup {q.table} /\ UNCHANGED table
  BY <1>1, <1>3, TablesOpened
<1> QED BY <1>2, <1>3 DEF Select

(* Both tables of a JOIN are there when it opens them.                     *)
LEMMA JoinTypes ==
  ASSUME Types, NEW q \in Joins, Join(q)
  PROVE  Types'
<1>1. /\ q.left \in Name /\ q.right \in Name
      /\ <<q.left, q.right>> \in Seq(Name)
  BY StatementsAssumption
<1>2. CASE Missing("join", q, <<q.left, q.right>>)
  BY <1>1, <1>2, MissingTypes
<1>3. CASE /\ Exists(q.left) /\ Exists(q.right)
           /\ tables_' = tables_ \cup {q.left, q.right} /\ UNCHANGED table
  BY <1>1, <1>3, TablesOpened
<1> QED BY <1>2, <1>3 DEF Join

(* Every step keeps the types.                                             *)
LEMMA TypesNext ==
  Types /\ [Next]_vars => Types'
<1> SUFFICES ASSUME Types, [Next]_vars PROVE Types'
  OBVIOUS
<1>1. CASE \E n \in Name : Create(n)
  BY <1>1, CreateTypes
<1>2. CASE \E q \in Inserts : Insert(q)
  BY <1>2, InsertTypes
<1>3. CASE \E q \in Deletes : Delete(q)
  BY <1>3, DeleteTypes
<1>4. CASE \E q \in Selects : Select(q)
  BY <1>4, SelectTypes
<1>5. CASE \E q \in Joins : Join(q)
  BY <1>5, JoinTypes
<1>6. CASE Exit
  BY <1>6, TablesOpened DEF Exit
<1>7. CASE UNCHANGED vars
  BY <1>7, TablesOpened DEF vars
<1> QED BY <1>1, <1>2, <1>3, <1>4, <1>5, <1>6, <1>7 DEF Next

(* Every row has a value of the right type in each column of its table,    *)
(* whichever columns its INSERT named.                                     *)
THEOREM TypeCorrect == Spec => []TypeOK
BY TypesInit, TypesNext, TypesMean, PTL DEF Spec

-----------------------------------------------------------------------------
(* Scans.                                                                  *)

(* Where the k-th of a set of numbers is, if it has one.                   *)
At(S, k) == {i \in S : Cardinality({j \in S : j <= i}) = k}

(* A greater number comes last.                                            *)
LEMMA NthAdded ==
  ASSUME NEW S \in SUBSET Nat, IsFiniteSet(S), NEW x \in Nat, \A y \in S : y < x
  PROVE  LET T == S \cup {x}
             c == Cardinality(S)
         IN  /\ IsFiniteSet(T) /\ c \in Nat /\ Cardinality(T) = c + 1
             /\ Nth(T, c + 1) = x /\ \A k \in 1 .. c : Nth(T, k) = Nth(S, k)
<1> DEFINE T == S \cup {x}
           c == Cardinality(S)
           Under(P, i) == {j \in P : j <= i}
<1>1. x \notin S
  OBVIOUS
<1>2. /\ IsFiniteSet(T) /\ c \in Nat /\ Cardinality(T) = c + 1
  BY <1>1, FS_AddElement, FS_CardinalityType
<1>3. ASSUME NEW i \in S
      PROVE  /\ Under(T, i) = Under(S, i)
             /\ Cardinality(Under(S, i)) \in Nat /\ Cardinality(Under(S, i)) <= c
  <2>1. Under(T, i) = Under(S, i)
    <3>1. ~(x <= i)
      OBVIOUS
    <3> QED BY <3>1
  <2>2. Under(S, i) \subseteq S
    OBVIOUS
  <2> HIDE DEF Under
  <2>3. /\ IsFiniteSet(Under(S, i)) /\ Cardinality(Under(S, i)) <= c
    BY <2>2, FS_Subset
  <2>4. Cardinality(Under(S, i)) \in Nat
    BY <2>3, FS_CardinalityType
  <2> QED BY <2>1, <2>3, <2>4
<1>4. Under(T, x) = T
  <2>1. \A y \in T : y <= x
    OBVIOUS
  <2> HIDE DEF T
  <2> QED BY <2>1
<1>5. /\ \A P, k : At(P, k) = {i \in P : Cardinality(Under(P, i)) = k}
      /\ \A P, k : Nth(P, k) = CHOOSE i \in At(P, k) : TRUE
  BY DEF At, Nth
<1> HIDE DEF Under, c
<1>6. ASSUME NEW k \in 1 .. c PROVE Nth(T, k) = Nth(S, k)
  <2>1. Cardinality(Under(T, x)) # k
    BY <1>2, <1>4
  <2>2. At(T, k) = At(S, k)
    BY <1>3, <1>5, <2>1
  <2> QED BY <1>5, <2>2
<1>7. Nth(T, c + 1) = x
  <2>1. \A i \in S : Cardinality(Under(T, i)) # c + 1
    BY <1>2, <1>3
  <2>2. At(T, c + 1) = {x}
    BY <1>2, <1>4, <1>5, <2>1
  <2> QED BY <1>5, <2>2
<1> QED BY <1>2, <1>6, <1>7 DEF c

(* The k-th of a set of rowids is one of them, and all are counted.        *)
LEMMA NthIsIn ==
  ASSUME NEW n \in Nat, NEW S \in SUBSET (1 .. n)
  PROVE  /\ IsFiniteSet(S) /\ Cardinality(S) \in Nat
         /\ \A k \in 1 .. Cardinality(S) : Nth(S, k) \in S
<1> DEFINE Good(P) == \A k \in 1 .. Cardinality(P) : Nth(P, k) \in P
           Bad == {m \in Nat : \E P \in SUBSET (1 .. m) : ~Good(P)}
<1>1. ASSUME NEW m \in Nat, NEW P \in SUBSET (1 .. m)
      PROVE  IsFiniteSet(P) /\ Cardinality(P) \in Nat
  <2>1. IsFiniteSet(1 .. m)
    BY FS_Interval
  <2>2. IsFiniteSet(P)
    BY <2>1, FS_Subset
  <2> QED BY <2>2, FS_CardinalityType
<1>2. Bad = {}
  <2>1. SUFFICES ASSUME Bad # {} PROVE FALSE
    OBVIOUS
  <2>2. PICK m \in Bad : \A l \in Bad : m <= l
    <3>1. Bad \in SUBSET Nat
      OBVIOUS
    <3> HIDE DEF Bad
    <3> QED BY <2>1, <3>1, LeastNumber
  <2>3. PICK P \in SUBSET (1 .. m) : ~Good(P)
    BY <2>2
  <2>4. m \in Nat
    BY <2>2
  <2>5. CASE m = 0
    <3>1. P = {}
      BY <2>5
    <3>2. Cardinality(P) = 0
      BY <3>1, FS_EmptySet
    <3> QED BY <2>3, <3>2
  <2>6. CASE m # 0
    <3> DEFINE Q == P \ {m}
    <3>1. m - 1 \in Nat /\ ~(m <= m - 1) /\ Q \in SUBSET (1 .. (m - 1))
      BY <2>4, <2>6
    <3>2. Good(Q)
      BY <2>2, <3>1
    <3>3. CASE m \notin P
      <4>1. Q = P
        BY <3>3
      <4> QED BY <2>3, <3>2, <4>1
    <3>4. CASE m \in P
      <4>1. P = Q \cup {m} /\ Q \in SUBSET Nat /\ \A y \in Q : y < m
        BY <2>4, <3>1, <3>4
      <4>2. IsFiniteSet(Q)
        BY <1>1, <3>1
      <4> HIDE DEF Q
      <4>3. /\ Cardinality(Q) \in Nat /\ Cardinality(P) = Cardinality(Q) + 1
            /\ Nth(P, Cardinality(Q) + 1) = m
            /\ \A k \in 1 .. Cardinality(Q) : Nth(P, k) = Nth(Q, k)
        BY <2>4, <4>1, <4>2, NthAdded
      <4>4. ASSUME NEW k \in 1 .. Cardinality(P) PROVE Nth(P, k) \in P
        <5>1. k = Cardinality(Q) + 1 \/ k \in 1 .. Cardinality(Q)
          BY <4>3
        <5> QED BY <3>2, <3>4, <4>1, <4>3, <5>1
      <4> QED BY <2>3, <4>4
    <3> QED BY <3>3, <3>4
  <2> QED BY <2>5, <2>6
<1> QED BY <1>1, <1>2

(* What a callback has collected of c rows, the k-th of which is G[k].     *)
Answers(c, limit, G) ==
  [out |-> [k \in Shown(c, limit) |-> G[k]], stop |-> limit > 0 /\ limit <= c]

(* One row more.                                                           *)
LEMMA OneMore ==
  ASSUME NEW c \in Nat, NEW limit, IsLimit(limit), NEW G, NEW H,
         \A k \in 1 .. c : H[k] = G[k],
         NEW acc, acc = Answers(c, limit, G)
  PROVE  (IF acc.stop THEN acc ELSE Collected(acc, H[c + 1], limit))
           = Answers(c + 1, limit, H)
<1>1. limit = -1 \/ (limit \in Nat /\ limit > 0)
  BY DEF IsLimit
<1>2. /\ acc.stop <=> (limit > 0 /\ limit <= c)
      /\ acc.out = [k \in Shown(c, limit) |-> G[k]]
  BY DEF Answers
<1>3. CASE acc.stop
  <2>1. limit \in Nat /\ limit > 0 /\ limit <= c
    BY <1>1, <1>2, <1>3
  <2>2. Shown(c, limit) = 1 .. limit /\ Shown(c + 1, limit) = 1 .. limit
    BY <2>1 DEF Shown
  <2>3. limit <= c + 1
    BY <2>1
  <2>4. \A k \in 1 .. limit : H[k] = G[k]
    BY <2>1
  <2>5. [k \in Shown(c, limit) |-> G[k]] = [k \in Shown(c + 1, limit) |-> H[k]]
    BY <2>2, <2>4
  <2>6. Answers(c, limit, G) = Answers(c + 1, limit, H)
    BY <2>1, <2>3, <2>5 DEF Answers
  <2> QED BY <1>3, <2>6
<1>4. CASE ~acc.stop
  <2>1. limit = -1 \/ (limit \in Nat /\ limit > 0 /\ c < limit)
    BY <1>1, <1>2, <1>4
  <2>2. Shown(c, limit) = 1 .. c /\ Shown(c + 1, limit) = 1 .. (c + 1)
    BY <2>1 DEF Shown
  <2> DEFINE out == Append(acc.out, H[c + 1])
  <2>3. acc.out = [k \in 1 .. c |-> G[k]]
    BY <1>2, <2>2
  <2>4. out = [k \in 1 .. (c + 1) |-> H[k]] /\ Len(out) = c + 1
    <3>1. Len(acc.out) = c
      BY <2>3
    <3>2. out = [k \in 1 .. (c + 1) |-> IF k <= c THEN acc.out[k] ELSE H[c + 1]]
      BY <2>3, <3>1
    <3>3. \A k \in 1 .. (c + 1) : (IF k <= c THEN acc.out[k] ELSE H[c + 1]) = H[k]
      BY <2>3
    <3>4. out = [k \in 1 .. (c + 1) |-> H[k]]
      BY <3>2, <3>3
    <3> QED BY <3>4
  <2> HIDE DEF out
  <2>5. Collected(acc, H[c + 1], limit) = [out |-> out, stop |-> limit > 0 /\ Len(out) >= limit]
    BY DEF Collected, out
  <2>6. (limit > 0 /\ Len(out) >= limit) = (limit > 0 /\ limit <= c + 1)
    BY <2>1, <2>4
  <2> QED BY <1>4, <2>2, <2>4, <2>5, <2>6 DEF Answers
<1> QED BY <1>3, <1>4

(* What the callback of SELECT makes of row i.                             *)
SelectStep(t, q, acc, i) ==
  IF acc.stop \/ i \notin scan(t) THEN acc
  ELSE IF match_where(t.rows[i], t.schema, q.where)
  THEN Collected(acc, out_row(t.schema, t.rows[i], q.cols), q.limit)
  ELSE acc

(* A scan is defined on tables of every length: were it not, there would   *)
(* be a shortest one on which it is not.                                   *)
LEMMA SelectedDefined ==
  ASSUME NEW t, Len(t.rows) \in Nat, NEW q
  PROVE  \E f : /\ f = [i \in 0 .. Len(t.rows) |->
                          IF i = 0 THEN Nothing ELSE SelectStep(t, q, f[i - 1], i)]
                /\ selected(t, q) = f[Len(t.rows)].out
<1> DEFINE L == Len(t.rows)
           To(k, f) == [i \in 0 .. k |->
                          IF i = 0 THEN Nothing ELSE SelectStep(t, q, f[i - 1], i)]
           g == CHOOSE f : f = To(L, f)
           Bad == {k \in Nat : ~ \E f : f = To(k, f)}
<1>1. selected(t, q) = g[L].out
  BY DEF selected, SelectStep
<1>2. Bad = {}
  <2>1. SUFFICES ASSUME Bad # {} PROVE FALSE
    OBVIOUS
  <2>2. PICK k \in Bad : \A j \in Bad : k <= j
    <3>1. Bad \in SUBSET Nat
      OBVIOUS
    <3> HIDE DEF Bad
    <3> QED BY <2>1, <3>1, LeastNumber
  <2>3. k # 0
    <3>1. SUFFICES ASSUME k = 0 PROVE FALSE
      OBVIOUS
    <3> DEFINE f == [i \in 0 .. 0 |-> Nothing]
    <3>2. f = To(0, f)
      OBVIOUS
    <3> QED BY <2>2, <3>1, <3>2
  <2>4. k - 1 \in Nat /\ ~(k <= k - 1)
    BY <2>2, <2>3
  <2>5. PICK f : f = To(k - 1, f)
    BY <2>2, <2>4
  <2> DEFINE h == To(k, f)
  <2>6. ASSUME NEW i \in 0 .. k, i # 0 PROVE h[i - 1] = f[i - 1]
    <3>1. i - 1 \in 0 .. k - 1 /\ i - 1 \in 0 .. k
      BY <2>2, <2>6
    <3> QED BY <2>5, <3>1
  <2>7. h = To(k, h)
    BY <2>6
  <2> QED BY <2>2, <2>7
<1>3. g = To(L, g)
  BY <1>2
<1> QED BY <1>1, <1>3

(* A SELECT that scans a table shows its matching rows in their order, and *)
(* no more of them than its limit.                                         *)
LEMMA SelectedIs ==
  ASSUME NEW t, Len(t.rows) \in Nat, NEW q, IsLimit(q.limit)
  PROVE  LET M == Matching(t, q.where)
         IN  selected(t, q) = [k \in Shown(Cardinality(M), q.limit) |->
                                 out_row(t.schema, t.rows[Nth(M, k)], q.cols)]
<1> DEFINE L == Len(t.rows)
           M(i) == {m \in Matching(t, q.where) : m <= i}
           c(i) == Cardinality(M(i))
           G(i) == [k \in 1 .. c(i) |-> out_row(t.schema, t.rows[Nth(M(i), k)], q.cols)]
<1>1. PICK f : /\ f = [i \in 0 .. L |->
                         IF i = 0 THEN Nothing ELSE SelectStep(t, q, f[i - 1], i)]
               /\ selected(t, q) = f[L].out
  BY SelectedDefined
<1> DEFINE Bad == {i \in 0 .. L : f[i] # Answers(c(i), q.limit, G(i))}
<1>2. Matching(t, q.where) \subseteq 1 .. L
  BY DEF Matching, scan
<1>3. M(0) = {} /\ M(L) = Matching(t, q.where)
  BY <1>2
<1>4. ASSUME NEW i \in 0 .. L
      PROVE  M(i) \in SUBSET (1 .. L) /\ IsFiniteSet(M(i)) /\ c(i) \in Nat
  <2>1. M(i) \in SUBSET (1 .. L)
    BY <1>2
  <2> HIDE DEF M
  <2> QED BY <2>1, NthIsIn
<1>5. Bad = {}
  <2>1. SUFFICES ASSUME Bad # {} PROVE FALSE
    OBVIOUS
  <2>2. PICK i \in Bad : \A j \in Bad : i <= j
    <3>1. Bad \in SUBSET Nat
      OBVIOUS
    <3> HIDE DEF Bad
    <3> QED BY <2>1, <3>1, LeastNumber
  <2>3. i \in 0 .. L
    BY <2>2
  <2>4. CASE i = 0
    <3>1. f[i] = Nothing
      BY <1>1, <2>3, <2>4
    <3>2. c(i) = 0
      BY <1>3, <2>4, FS_EmptySet
    <3>3. Shown(0, q.limit) = {} /\ ~(q.limit > 0 /\ q.limit <= 0)
      BY DEF Shown, IsLimit
    <3>4. Answers(0, q.limit, G(i)) = Nothing
      <4> HIDE DEF G
      <4>1. [k \in Shown(0, q.limit) |-> G(i)[k]] = <<>>
        BY <3>3
      <4> QED BY <3>3, <4>1 DEF Answers, Nothing
    <3> HIDE DEF c, G
    <3> QED BY <2>2, <3>1, <3>2, <3>4
  <2>5. CASE i # 0
    <3>1. /\ i \in 1 .. L /\ i - 1 \in 0 .. L /\ ~(i <= i - 1)
          /\ f[i] = SelectStep(t, q, f[i - 1], i)
      BY ONLY <1>1, <2>3, <2>5, Len(t.rows) \in Nat
    <3>2. f[i - 1] = Answers(c(i - 1), q.limit, G(i - 1))
      BY <2>2, <3>1
    <3>3. CASE i \notin Matching(t, q.where)
      <4>1. M(i) = M(i - 1)
        BY <1>2, <3>1, <3>3
      <4>2. f[i] = f[i - 1]
        BY <3>1, <3>3 DEF SelectStep, Matching
      <4> HIDE DEF M
      <4> QED BY <2>2, <3>2, <4>1, <4>2
    <3>4. CASE i \in Matching(t, q.where)
      <4>1. /\ M(i) = M(i - 1) \cup {i} /\ M(i - 1) \in SUBSET Nat /\ \A y \in M(i - 1) : y < i
        BY <1>2, <3>1, <3>4
      <4>2. IsFiniteSet(M(i - 1)) /\ c(i - 1) \in Nat
        BY <1>4, <3>1
      <4>3. /\ c(i) = c(i - 1) + 1 /\ Nth(M(i), c(i - 1) + 1) = i
            /\ \A k \in 1 .. c(i - 1) : Nth(M(i), k) = Nth(M(i - 1), k)
        <5> DEFINE P == M(i - 1)
        <5>1. i \in Nat /\ P \in SUBSET Nat /\ IsFiniteSet(P) /\ (\A y \in P : y < i)
          BY <3>1, <4>1, <4>2
        <5> HIDE DEF P
        <5>2. /\ Cardinality(P \cup {i}) = Cardinality(P) + 1
              /\ Nth(P \cup {i}, Cardinality(P) + 1) = i
              /\ \A k \in 1 .. Cardinality(P) : Nth(P \cup {i}, k) = Nth(P, k)
          BY <5>1, NthAdded
        <5>3. M(i) = P \cup {i}
          BY <4>1 DEF P
        <5> HIDE DEF M
        <5> QED BY <5>2, <5>3 DEF P
      <4>4. /\ G(i)[c(i - 1) + 1] = out_row(t.schema, t.rows[i], q.cols)
            /\ \A k \in 1 .. c(i - 1) : G(i)[k] = G(i - 1)[k]
        <5> HIDE DEF M
        <5> QED BY <4>2, <4>3
      <4>5. f[i] = IF f[i - 1].stop THEN f[i - 1]
                   ELSE Collected(f[i - 1], G(i)[c(i - 1) + 1], q.limit)
        <5> HIDE DEF G, c
        <5> QED BY <3>1, <3>4, <4>4 DEF SelectStep, Matching
      <4> HIDE DEF G, c
      <4>6. f[i] = Answers(c(i - 1) + 1, q.limit, G(i))
        BY <3>2, <4>2, <4>4, <4>5, OneMore
      <4> QED BY <2>2, <4>3, <4>6
    <3> QED BY <3>3, <3>4
  <2> QED BY <2>4, <2>5
<1>0. L \in 0 .. L /\ L \in Nat
  OBVIOUS
<1>6. f[L] = Answers(c(L), q.limit, G(L))
  <2> HIDE DEF c, G, L
  <2> QED BY <1>0, <1>5
<1>7. \A k \in Shown(c(L), q.limit) : k \in 1 .. c(L)
  <2>1. c(L) \in Nat
    <3> HIDE DEF c, L
    <3> QED BY <1>0, <1>4
  <2> HIDE DEF c
  <2> QED BY <2>1 DEF Shown, IsLimit
<1>8. f[L].out = [k \in Shown(c(L), q.limit) |->
                    out_row(t.schema, t.rows[Nth(M(L), k)], q.cols)]
  <2> HIDE DEF c
  <2> QED BY <1>6, <1>7 DEF Answers
<1> QED BY <1>1, <1>3, <1>8

(* What a SELECT that scans answers is what it means.                      *)
LEMMA SelectMeans ==
  ASSUME Types, NEW q \in Selects, Exists(q.table),
         ~point_lookup(table[q.table].schema, q.where)
  PROVE  LET t    == table[q.table]
             rids == Matching(t, q.where)
         IN  exec_select(q) =
               IF \/ \E j \in 1 .. Len(q.cols) : find_col(t.schema, q.cols[j]) = 0
                  \/ match_throws(t.schema, q.where) /\ scan(t) # {}
               THEN Error
               ELSE [k \in Shown(Cardinality(rids), q.limit) |->
                       out_row(t.schema, t.rows[Nth(rids, k)], q.cols)]
<1>1. q.table \in Name /\ IsLimit(q.limit)
  BY StatementsAssumption
<1> DEFINE t == table[q.table]
<1>2. Len(t.rows) \in Nat
  BY <1>1, TableTypes
<1>3. ~point_lookup(t.schema, q.where)
  OBVIOUS
<1>4. exec_select(q) =
        IF \/ \E j \in 1 .. Len(q.cols) : find_col(t.schema, q.cols[j]) = 0
           \/ match_throws(t.schema, q.where) /\ scan(t) # {}
        THEN Error ELSE selected(t, q)
  BY <1>3, Zenon DEF exec_select
<1> HIDE DEF t
<1>5. selected(t, q) = [k \in Shown(Cardinality(Matching(t, q.where)), q.limit) |->
                          out_row(t.schema, t.rows[Nth(Matching(t, q.where), k)], q.cols)]
  BY <1>1, <1>2, SelectedIs
<1> QED BY <1>4, <1>5 DEF t

(* A statement of another kind says nothing of SELECT.                     *)
LEMMA SelectAnswersStep ==
  ASSUME Types, SelectAnswers, [Next]_vars, ~PointLookups
  PROVE  SelectAnswers'
<1>1. CASE res'.kind # "select"
  BY <1>1 DEF SelectAnswers
<1>2. CASE UNCHANGED vars
  BY <1>2 DEF SelectAnswers, vars, Exists
<1>3. ASSUME NEW q \in Selects, Select(q)
      PROVE  SelectAnswers'
  <2>1. CASE Missing("select", q, <<q.table>>)
    <3>1. table' = table /\ res'.stmt = q /\ ~Exists(q.table)
      BY <2>1 DEF Missing, Answer
    <3> QED BY <3>1 DEF SelectAnswers, Exists
  <2>2. CASE /\ Exists(q.table) /\ ~point_lookup(table[q.table].schema, q.where)
             /\ res' = [kind |-> "select", stmt |-> q, answer |-> exec_select(q)]
             /\ table' = table
    <3>1. res'.stmt = q /\ res'.answer = exec_select(q)
      BY <2>2
    <3> QED BY <2>2, <3>1, SelectMeans DEF SelectAnswers
  <2> QED BY <1>3, <2>1, <2>2 DEF Select, Answer
<1>4. ASSUME NEW q \in Inserts, Insert(q) PROVE res'.kind = "insert"
  BY <1>4 DEF Insert, Missing, Answer
<1>5. ASSUME NEW q \in Deletes, Delete(q) PROVE res'.kind = "delete"
  BY <1>5 DEF Delete, Missing, Answer
<1>6. ASSUME NEW q \in Joins, Join(q) PROVE res'.kind = "join"
  BY <1>6 DEF Join, Missing, Answer
<1>7. ASSUME NEW n \in Name, Create(n) PROVE res'.kind = "create"
  BY <1>7 DEF Create, Answer
<1>8. Exit => res'.kind = "none"
  BY DEF Exit, NoStmt
<1> QED BY <1>1, <1>2, <1>3, <1>4, <1>5, <1>6, <1>7, <1>8 DEF Next

(* Every SELECT that scans answers with the rows that satisfy its WHERE,   *)
(* in the order of their insertion, as many as its LIMIT lets it show.     *)
THEOREM SelectsAnswer ==
  ASSUME ~PointLookups
  PROVE  Spec => []SelectAnswers
<1>1. Init => Types /\ SelectAnswers
  BY TypesInit DEF Init, NoStmt, SelectAnswers
<1>2. Types /\ SelectAnswers /\ [Next]_vars => (Types /\ SelectAnswers)'
  BY TypesNext, SelectAnswersStep
<1> QED BY <1>1, <1>2, PTL DEF Spec

-----------------------------------------------------------------------------
(* DELETE.                                                                 *)

(* A SELECT of all columns, without a LIMIT, shows every matching row.     *)
LEMMA ShowsAll ==
  ASSUME NEW t, Len(t.rows) \in Nat, NEW wh
  PROVE  LET M == Matching(t, wh)
         IN  /\ Cardinality(M) \in Nat
             /\ selected(t, [cols |-> <<>>, where |-> wh, limit |-> -1])
                  = [k \in 1 .. Cardinality(M) |-> out_row(t.schema, t.rows[Nth(M, k)], <<>>)]
<1> DEFINE q == [cols |-> <<>>, where |-> wh, limit |-> -1]
           M == Matching(t, wh)
<1>1. M \in SUBSET (1 .. Len(t.rows))
  BY DEF Matching, scan
<1>2. q.cols = <<>> /\ q.where = wh /\ q.limit = -1 /\ IsLimit(q.limit)
  BY DEF IsLimit
<1> HIDE DEF q
<1>3. selected(t, q) = [k \in Shown(Cardinality(Matching(t, q.where)), q.limit) |->
                          out_row(t.schema, t.rows[Nth(Matching(t, q.where), k)], q.cols)]
  BY <1>2, SelectedIs
<1> HIDE DEF M
<1>4. Cardinality(M) \in Nat
  BY <1>1, NthIsIn
<1>5. Shown(Cardinality(M), -1) = 1 .. Cardinality(M)
  BY DEF Shown
<1> QED BY <1>2, <1>3, <1>4, <1>5 DEF q, M

(* A comparison and its negation never agree.                              *)
LEMMA NegatedIs ==
  ASSUME NEW op \in {"=", "!=", "<", ">=", ">", "<="}, NEW eq \in BOOLEAN, NEW lt \in BOOLEAN
  PROVE  Compare(Negated[op], eq, lt) <=> ~Compare(op, eq, lt)
<1>1. CASE op = "="
  BY <1>1 DEF Negated, Compare
<1>2. CASE op = "!="
  BY <1>2 DEF Negated, Compare
<1>3. CASE op = "<"
  BY <1>3 DEF Negated, Compare
<1>4. CASE op = ">="
  BY <1>4 DEF Negated, Compare
<1>5. CASE op = ">"
  BY <1>5 DEF Negated, Compare
<1>6. CASE op = "<="
  BY <1>6 DEF Negated, Compare
<1> QED BY <1>1, <1>2, <1>3, <1>4, <1>5, <1>6

(* A row that can be compared satisfies a condition or its negation.       *)
LEMMA MatchNegated ==
  ASSUME NEW s \in Schemas, NEW row \in RowOf(s), NEW wh, IsWhere(wh),
         find_col(s, wh.col) # 0, ~match_throws(s, wh)
  PROVE  match_where(row, s, [wh EXCEPT !.op = Negated[@]]) <=> ~match_where(row, s, wh)
<1> DEFINE neg == [wh EXCEPT !.op = Negated[@]]
           c   == find_col(s, wh.col)
<1>1. /\ wh.active /\ wh.op \in {"=", "!=", "<", ">=", ">", "<="} /\ wh.val \in Text
      /\ neg.active /\ neg.op = Negated[wh.op] /\ neg.col = wh.col /\ neg.val = wh.val
  BY DEF IsWhere
<1>2. c \in 1 .. Len(s) /\ c \in DOMAIN s
  BY SchemaIs, FindCol
<1> HIDE DEF neg, c
<1>3. c = find_col(s, wh.col) /\ c = find_col(s, neg.col) /\ c # 0
  BY <1>1 DEF c
<1>4. CASE s[c].type = "INT"
  <2> DEFINE eq == row[c] = stoi(wh.val)
             lt == row[c] < stoi(wh.val)
  <2>1. eq \in BOOLEAN /\ lt \in BOOLEAN
    OBVIOUS
  <2>2. match_where(row, s, neg) <=> Compare(Negated[wh.op], eq, lt)
    BY <1>1, <1>3, <1>4 DEF match_where
  <2>3. match_where(row, s, wh) <=> Compare(wh.op, eq, lt)
    BY <1>1, <1>3, <1>4 DEF match_where
  <2> HIDE DEF eq, lt
  <2> QED BY <1>1, <2>1, <2>2, <2>3, NegatedIs DEF neg
<1>5. CASE s[c].type # "INT"
  <2> DEFINE eq == row[c] = wh.val
             lt == TextBefore(row[c], wh.val)
  <2>1. row[c] \in Text
    BY <1>2, <1>5 DEF RowOf
  <2>2. eq \in BOOLEAN /\ lt \in BOOLEAN
    BY <1>1, <2>1, TextAssumption
  <2>3. match_where(row, s, neg) <=> Compare(Negated[wh.op], eq, lt)
    BY <1>1, <1>3, <1>5 DEF match_where
  <2>4. match_where(row, s, wh) <=> Compare(wh.op, eq, lt)
    BY <1>1, <1>3, <1>5 DEF match_where
  <2> HIDE DEF eq, lt
  <2> QED BY <1>1, <2>2, <2>3, <2>4, NegatedIs DEF neg
<1> QED BY <1>4, <1>5

(* The rows that DELETE leaves: those it did not collect.                  *)
LEMMA DeleteLeaves ==
  ASSUME Types, NEW q \in Deletes, Exists(q.table),
         table' = [table EXCEPT ![q.table].rows =
                     [i \in 1 .. Len(@) |-> IF i \in doomed(q) THEN Gone ELSE @[i]]]
  PROVE  LET t == table[q.table]
             u == table'[q.table]
         IN  /\ u.schema = t.schema /\ Len(u.rows) \in Nat
             /\ scan(u) = scan(t) \ doomed(q)
             /\ \A i \in scan(u) : u.rows[i] = t.rows[i]
<1> DEFINE t == table[q.table]
           u == table'[q.table]
           D == doomed(q)
           left == [i \in 1 .. Len(t.rows) |-> IF i \in D THEN Gone ELSE t.rows[i]]
<1>1. q.table \in Name /\ q.table \in DOMAIN table
  BY StatementsAssumption DEF Types
<1>2. /\ Len(t.rows) \in Nat /\ t = [schema |-> t.schema, rows |-> t.rows]
  BY <1>1, TableTypes
<1>3. u = [t EXCEPT !.rows = left]
  BY <1>1
<1> HIDE DEF t, D, u
<1>4. u.schema = t.schema /\ u.rows = left
  <2> HIDE DEF left
  <2> QED BY <1>2, <1>3
<1>5. Len(u.rows) = Len(t.rows)
  BY <1>2, <1>4
<1>6. \A i \in 1 .. Len(t.rows) : u.rows[i] = IF i \in D THEN Gone ELSE t.rows[i]
  BY <1>4
<1>7. scan(u) = scan(t) \ D
  BY <1>5, <1>6 DEF scan
<1>8. \A i \in scan(u) : u.rows[i] = t.rows[i]
  BY <1>5, <1>6 DEF scan
<1> QED BY <1>2, <1>4, <1>5, <1>7, <1>8 DEF t, u, D

(* What a scan that matches other rows leaves of a table.                  *)
LEMMA RestIs ==
  ASSUME Types, NEW q \in Deletes, Exists(q.table),
         ~(match_throws(table[q.table].schema, q.where) /\ scan(table[q.table]) # {}),
         q.where.active, find_col(table[q.table].schema, q.where.col) # 0
  PROVE  Matching(table[q.table], [q.where EXCEPT !.op = Negated[@]])
           = scan(table[q.table]) \ doomed(q)
<1> DEFINE t == table[q.table]
<1>1. q.table \in Name /\ IsWhere(q.where)
  <2>1. q.table \in Name /\ (q.where = Everything \/ IsWhere(q.where))
    BY StatementsAssumption
  <2>2. ~Everything.active
    BY DEF Everything
  <2> QED BY <2>1, <2>2
<1>2. t.schema \in Schemas /\ t.rows \in Seq(RowOf(t.schema) \cup {Gone})
  BY <1>1, TableTypes
<1>3. ASSUME NEW i \in scan(t)
      PROVE  match_where(t.rows[i], t.schema, [q.where EXCEPT !.op = Negated[@]])
               <=> ~match_where(t.rows[i], t.schema, q.where)
  <2>1. t.rows[i] \in RowOf(t.schema)
    <3>1. i \in 1 .. Len(t.rows) /\ t.rows[i] # Gone
      BY <1>3 DEF scan
    <3> HIDE DEF t
    <3> QED BY <1>2, <3>1, ElementOfSeq
  <2>2. ~match_throws(t.schema, q.where) /\ find_col(t.schema, q.where.col) # 0
    BY <1>3
  <2> HIDE DEF t
  <2> QED BY <1>1, <1>2, <2>1, <2>2, MatchNegated
<1> HIDE DEF t
<1>4. doomed(q) = Matching(t, q.where)
  BY DEF doomed, t
<1> QED BY <1>3, <1>4 DEF Matching, t

(* All rows match no condition, and a condition on no column matches none. *)
LEMMA MatchingAll ==
  ASSUME NEW t, NEW wh
  PROVE  /\ Matching(t, Everything) = scan(t)
         /\ wh.active /\ find_col(t.schema, wh.col) = 0 => Matching(t, wh) = {}
<1>1. \A row : match_where(row, t.schema, Everything)
  BY DEF match_where, Everything
<1>2. wh.active /\ find_col(t.schema, wh.col) = 0 => \A row : ~match_where(row, t.schema, wh)
  BY DEF match_where
<1> QED BY <1>1, <1>2 DEF Matching

(* A DELETE that succeeds leaves what SELECT of the negated condition      *)
(* shows.                                                                  *)
LEMMA DeleteMeans ==
  ASSUME Types, NEW q \in Deletes, Exists(q.table),
         ~(match_throws(table[q.table].schema, q.where) /\ scan(table[q.table]) # {}),
         table' = [table EXCEPT ![q.table].rows =
                     [i \in 1 .. Len(@) |-> IF i \in doomed(q) THEN Gone ELSE @[i]]]
  PROVE  LET n    == q.table
             rest == IF q.where.active THEN OtherRows(n, q.where) ELSE <<>>
         IN  /\ AllRows(n)' = rest
             /\ Cardinality(doomed(q)) = Len(AllRows(n)) - Len(rest)
<1> DEFINE n == q.table
           t == table[n]
           u == table'[n]
           D == doomed(q)
           rest == IF q.where.active THEN OtherRows(n, q.where) ELSE <<>>
           Show(v, S) == [k \in 1 .. Cardinality(S) |-> out_row(v.schema, v.rows[Nth(S, k)], <<>>)]
           Asked(wh) == [cols |-> <<>>, where |-> wh, limit |-> -1]
<1>1. n \in Name /\ (q.where = Everything \/ IsWhere(q.where))
  BY StatementsAssumption
<1>2. Len(t.rows) \in Nat
  BY <1>1, TableTypes
<1>3. /\ u.schema = t.schema /\ Len(u.rows) \in Nat
      /\ scan(u) = scan(t) \ D
      /\ \A i \in scan(u) : u.rows[i] = t.rows[i]
  BY DeleteLeaves
<1>4. AllRows(n) = selected(t, Asked(Everything)) /\ AllRows(n)' = selected(u, Asked(Everything))
  BY DEF AllRows, RowsWhere
<1>5. rest = IF ~q.where.active THEN <<>>
             ELSE IF find_col(t.schema, q.where.col) = 0 THEN selected(t, Asked(Everything))
             ELSE selected(t, Asked([q.where EXCEPT !.op = Negated[@]]))
  BY Zenon DEF OtherRows, AllRows, RowsWhere
<1>6. D \subseteq scan(t) /\ D = Matching(t, q.where)
  BY DEF doomed, Matching
<1>7. /\ q.where.active /\ find_col(t.schema, q.where.col) # 0
         => Matching(t, [q.where EXCEPT !.op = Negated[@]]) = scan(t) \ D
  BY RestIs
<1> HIDE DEF n, t, u, D, rest, Asked, Show
<1>8. \A v, wh : Len(v.rows) \in Nat => /\ Cardinality(Matching(v, wh)) \in Nat
                                       /\ selected(v, Asked(wh)) = Show(v, Matching(v, wh))
  BY ShowsAll DEF Asked, Show
<1>9. /\ AllRows(n) = Show(t, scan(t)) /\ AllRows(n)' = Show(u, scan(u))
      /\ Cardinality(scan(t)) \in Nat /\ Cardinality(scan(u)) \in Nat
  <2>1. Matching(t, Everything) = scan(t) /\ Matching(u, Everything) = scan(u)
    BY MatchingAll
  <2>2. Len(u.rows) \in Nat
    BY <1>3
  <2>3. /\ Cardinality(scan(t)) \in Nat /\ selected(t, Asked(Everything)) = Show(t, scan(t))
    BY <1>2, <1>8, <2>1
  <2>4. /\ Cardinality(scan(u)) \in Nat /\ selected(u, Asked(Everything)) = Show(u, scan(u))
    BY <1>8, <2>1, <2>2
  <2> QED BY <1>4, <2>3, <2>4
<1>10. Show(u, scan(u)) = Show(t, scan(u))
  <2>1. scan(u) \in SUBSET (1 .. Len(u.rows))
    BY DEF scan
  <2>2. \A k \in 1 .. Cardinality(scan(u)) : Nth(scan(u), k) \in scan(u)
    BY <1>3, <2>1, NthIsIn
  <2> QED BY <1>3, <2>2 DEF Show
<1>11. rest = Show(t, scan(u))
  <2>1. CASE ~q.where.active
    <3>1. D = scan(t)
      <4>1. q.where = Everything
        BY <1>1, <2>1 DEF IsWhere
      <4> QED BY <1>6, <4>1, MatchingAll
    <3>2. scan(u) = {} /\ Cardinality(scan(u)) = 0
      BY <1>3, <3>1, FS_EmptySet
    <3>3. Show(t, scan(u)) = <<>>
      BY <3>2 DEF Show
    <3> QED BY <1>5, <2>1, <3>3
  <2>2. CASE q.where.active /\ find_col(t.schema, q.where.col) = 0
    <3>1. scan(u) = scan(t)
      BY <1>3, <1>6, <2>2, MatchingAll
    <3> QED BY <1>4, <1>5, <1>9, <2>2, <3>1
  <2>3. CASE q.where.active /\ find_col(t.schema, q.where.col) # 0
    <3> DEFINE neg == [q.where EXCEPT !.op = Negated[@]]
    <3>1. rest = selected(t, Asked(neg))
      BY <1>5, <2>3
    <3>2. Matching(t, neg) = scan(u)
      BY <1>3, <1>7, <2>3
    <3> HIDE DEF neg
    <3>3. selected(t, Asked(neg)) = Show(t, Matching(t, neg))
      BY <1>2, <1>8
    <3> QED BY <3>1, <3>2, <3>3
  <2> QED BY <2>1, <2>2, <2>3
<1>12. \A S : Cardinality(S) \in Nat => Len(Show(t, S)) = Cardinality(S)
  BY DEF Show
<1>13. Cardinality(D) = Cardinality(scan(t)) - Cardinality(scan(u))
  <2>1. IsFiniteSet(scan(t))
    <3>1. scan(t) \in SUBSET (1 .. Len(t.rows))
      BY DEF scan
    <3> QED BY <1>2, <3>1, NthIsIn
  <2>2. IsFiniteSet(D) /\ Cardinality(D) \in Nat
    BY <1>6, <2>1, FS_Subset, FS_CardinalityType
  <2>3. Cardinality(scan(t) \ D) = Cardinality(scan(t)) - Cardinality(scan(t) \cap D)
    BY <2>1, <2>2, FS_Difference
  <2>4. scan(t) \cap D = D
    BY <1>6
  <2>5. scan(t) \ D = scan(u)
    BY <1>3
  <2>6. Cardinality(scan(u)) = Cardinality(scan(t)) - Cardinality(D)
    BY <2>3, <2>4, <2>5
  <2>7. Cardinality(scan(t)) \in Nat /\ Cardinality(D) \in Nat
    BY <1>9, <2>2
  <2> QED BY <2>6, <2>7
<1> QED BY <1>9, <1>10, <1>11, <1>12, <1>13 DEF n, rest, D

(* DELETE leaves, in their order, exactly the rows that a SELECT of the    *)
(* negated condition showed, and counts the others.                        *)
THEOREM DeletesLeaveTheRest == Spec => DeleteLeavesTheRest
<1>1. ASSUME Types, [Next]_vars, NEW n \in Name, res'.kind = "delete", res'.answer # Error,
             res'.stmt.table = n, ~UNCHANGED vars
      PROVE  LET wh   == res'.stmt.where
                 rest == IF wh.active THEN OtherRows(n, wh) ELSE <<>>
             IN  AllRows(n)' = rest /\ res'.answer = Len(AllRows(n)) - Len(rest)
  <2>1. PICK q \in Deletes : Delete(q)
    <3>1. \A q \in Inserts : Insert(q) => res'.kind = "insert"
      BY DEF Insert, Missing, Answer
    <3>2. \A q \in Selects : Select(q) => res'.kind = "select"
      BY DEF Select, Missing, Answer
    <3>3. \A q \in Joins : Join(q) => res'.kind = "join"
      BY DEF Join, Missing, Answer
    <3>4. \A m \in Name : Create(m) => res'.kind = "create"
      BY DEF Create, Answer
    <3>5. Exit => res'.kind = "none"
      BY DEF Exit, NoStmt
    <3> QED BY <1>1, <3>1, <3>2, <3>3, <3>4, <3>5 DEF Next
  <2>2. ~Missing("delete", q, <<q.table>>)
    BY <1>1 DEF Missing, Answer
  <2>3. /\ Exists(q.table) /\ res'.stmt = q /\ res'.answer = exec_delete(q)
        /\ table' = IF exec_delete(q) = Error THEN table
                    ELSE [table EXCEPT ![q.table].rows =
                            [i \in 1 .. Len(@) |-> IF i \in doomed(q) THEN Gone ELSE @[i]]]
    BY <2>1, <2>2 DEF Delete, Answer
  <2>4. /\ exec_delete(q) # Error /\ n = q.table
        /\ ~(match_throws(table[q.table].schema, q.where) /\ scan(table[q.table]) # {})
    BY <1>1, <2>3 DEF exec_delete
  <2>5. res'.answer = Cardinality(doomed(q))
    BY <2>3, <2>4 DEF exec_delete
  <2>6. table' = [table EXCEPT ![q.table].rows =
                    [i \in 1 .. Len(@) |-> IF i \in doomed(q) THEN Gone ELSE @[i]]]
    BY <2>3, <2>4
  <2>7. LET wh   == q.where
            rest == IF wh.active THEN OtherRows(n, wh) ELSE <<>>
        IN  AllRows(n)' = rest /\ Cardinality(doomed(q)) = Len(AllRows(n)) - Len(rest)
    BY <2>3, <2>4, <2>6, <1>1, DeleteMeans
  <2> QED BY <2>3, <2>5, <2>7
<1>2. Types /\ [Next]_vars => [\A n \in Name :
         /\ res'.kind = "delete"
         /\ res'.answer # Error
         /\ res'.stmt.table = n
         => LET wh   == res'.stmt.where
                rest == IF wh.active THEN OtherRows(n, wh) ELSE <<>>
            IN  AllRows(n)' = rest /\ res'.answer = Len(AllRows(n)) - Len(rest)]_vars
  BY <1>1
<1> QED BY <1>2, TypesInit, TypesNext, PTL DEF Spec, DeleteLeavesTheRest

-----------------------------------------------------------------------------
(* JOIN: two nested scans.                                                 *)

(* The order in which the loops come to a pair.                            *)
Before(s, p) == s[1] < p[1] \/ (s[1] = p[1] /\ s[2] <= p[2])

(* Every nonempty set of pairs has a first one.                            *)
LEMMA LeastPair ==
  ASSUME NEW T \in SUBSET (Nat \X Nat), T # {}
  PROVE  \E x \in T : \A y \in T : Before(x, y)
<1> DEFINE Lefts == {x[1] : x \in T}
<1>1. Lefts \in SUBSET Nat /\ Lefts # {}
  OBVIOUS
<1>2. PICK a \in Lefts : \A b \in Lefts : a <= b
  <2> HIDE DEF Lefts
  <2> QED BY <1>1, LeastNumber
<1> DEFINE Rights == {x[2] : x \in {y \in T : y[1] = a}}
<1>3. Rights \in SUBSET Nat /\ Rights # {}
  BY <1>2
<1>4. PICK b \in Rights : \A d \in Rights : b <= d
  <2> HIDE DEF Rights
  <2> QED BY <1>3, LeastNumber
<1>5. PICK x \in T : x[1] = a /\ x[2] = b
  BY <1>4
<1>6. ASSUME NEW y \in T PROVE Before(x, y)
  <2>1. x[1] \in Nat /\ y[1] \in Nat /\ y[1] \in Lefts /\ a <= y[1]
    BY <1>2
  <2>2. y[1] = a => y[2] \in Rights /\ b <= y[2]
    BY <1>4
  <2> QED BY <1>5, <2>1, <2>2 DEF Before
<1> QED BY <1>6

(* Where the k-th of a set of pairs is, if it has one.                     *)
PairAt(S, k) == {p \in S : Cardinality(UpTo(S, p)) = k}

(* A pair that the loops come to later is the last one.                    *)
LEMMA PairAdded ==
  ASSUME NEW S \in SUBSET (Nat \X Nat), IsFiniteSet(S), NEW x \in Nat \X Nat,
         \A y \in S : Before(y, x) /\ ~Before(x, y)
  PROVE  LET T == S \cup {x}
             c == Cardinality(S)
         IN  /\ IsFiniteSet(T) /\ c \in Nat /\ Cardinality(T) = c + 1
             /\ NthPair(T, c + 1) = x /\ \A k \in 1 .. c : NthPair(T, k) = NthPair(S, k)
<1> DEFINE T == S \cup {x}
           c == Cardinality(S)
<1>0. Before(x, x)
  BY DEF Before
<1>1. x \notin S
  BY <1>0
<1>2. /\ IsFiniteSet(T) /\ c \in Nat /\ Cardinality(T) = c + 1
  BY <1>1, FS_AddElement, FS_CardinalityType
<1>3. \A P, y : UpTo(P, y) = {s \in P : Before(s, y)}
  BY DEF UpTo, Before
<1>4. ASSUME NEW y \in S
      PROVE  /\ UpTo(T, y) = UpTo(S, y)
             /\ Cardinality(UpTo(S, y)) \in Nat /\ Cardinality(UpTo(S, y)) <= c
  <2>1. UpTo(T, y) = UpTo(S, y)
    BY <1>3
  <2>2. UpTo(S, y) \subseteq S
    BY <1>3
  <2>3. /\ IsFiniteSet(UpTo(S, y)) /\ Cardinality(UpTo(S, y)) <= c
    BY <2>2, FS_Subset
  <2>4. Cardinality(UpTo(S, y)) \in Nat
    BY <2>3, FS_CardinalityType
  <2> QED BY <2>1, <2>3, <2>4
<1>5. UpTo(T, x) = T
  BY <1>0, <1>3
<1>6. \A P, k : NthPair(P, k) = CHOOSE p \in PairAt(P, k) : TRUE
  BY DEF PairAt, NthPair
<1> HIDE DEF c
<1>7. ASSUME NEW k \in 1 .. c PROVE NthPair(T, k) = NthPair(S, k)
  <2>1. Cardinality(UpTo(T, x)) # k
    <3>1. Cardinality(UpTo(T, x)) = c + 1
      BY <1>2, <1>5
    <3>2. k # c + 1
      BY <1>2
    <3> QED BY <3>1, <3>2
  <2>2. PairAt(T, k) = PairAt(S, k)
    BY <1>4, <2>1 DEF PairAt
  <2> QED BY <1>6, <2>2
<1>8. NthPair(T, c + 1) = x
  <2>1. \A y \in S : Cardinality(UpTo(T, y)) # c + 1
    BY <1>2, <1>4
  <2>2. PairAt(T, c + 1) = {x}
    BY <1>2, <1>5, <2>1 DEF PairAt
  <2> QED BY <1>6, <2>2
<1> QED BY <1>2, <1>7, <1>8 DEF c

(* What the inner loop makes of a pair, and what is collected up to it.    *)
JoinStep(q, acc, p) ==
  IF acc.stop \/ p \notin scan(table[q.left]) \X scan(table[q.right]) THEN acc
  ELSE IF pair_matches(q, p) THEN Collected(acc, projected(q, p), q.limit)
  ELSE acc
JoinBody(q, f, p) ==
  IF p[1] = 0 THEN Nothing
  ELSE IF p[2] = 0 THEN f[<<p[1] - 1, Len(table[q.right].rows)>>]
  ELSE JoinStep(q, f[<<p[1], p[2] - 1>>], p)

(* The loops are defined on tables of every length.                        *)
LEMMA JoinedDefined ==
  ASSUME NEW q, Len(table[q.left].rows) \in Nat, Len(table[q.right].rows) \in Nat
  PROVE  LET L == Len(table[q.left].rows)
             R == Len(table[q.right].rows)
         IN  \E f : /\ f = [p \in (0 .. L) \X (0 .. R) |-> JoinBody(q, f, p)]
                    /\ joined(q) = f[<<L, R>>].out
<1> DEFINE L == Len(table[q.left].rows)
           R == Len(table[q.right].rows)
           All == (0 .. L) \X (0 .. R)
           Upto(p) == {s \in All : Before(s, p)}
           To(p, f) == [s \in Upto(p) |-> JoinBody(q, f, s)]
           Whole(f) == [p \in All |-> JoinBody(q, f, p)]
           g == CHOOSE f : f = Whole(f)
           Bad == {p \in All : ~ \E f : f = To(p, f)}
           Pred(s) == IF s[2] = 0 THEN <<s[1] - 1, R>> ELSE <<s[1], s[2] - 1>>
<1>1. joined(q) = g[<<L, R>>].out
  BY DEF joined, JoinBody, JoinStep
<1>2. ASSUME NEW s \in All, s[1] # 0
      PROVE  /\ Pred(s) \in All /\ Before(Pred(s), s) /\ ~Before(s, Pred(s))
             /\ \A t \in All : Before(t, s) /\ t # s => Before(t, Pred(s))
  <2> DEFINE r == Pred(s)
  <2>1. s[1] \in 1 .. L /\ s[2] \in 0 .. R /\ s = <<s[1], s[2]>>
    BY <1>2
  <2>2. CASE s[2] = 0
    <3>1. r = <<s[1] - 1, R>> /\ r[1] = s[1] - 1 /\ r[2] = R
      BY <2>2
    <3> HIDE DEF r
    <3>2. r \in All /\ Before(r, s) /\ ~Before(s, r)
      BY <2>1, <2>2, <3>1 DEF Before
    <3>3. ASSUME NEW t \in All, Before(t, s), t # s PROVE Before(t, r)
      <4>1. t[1] \in 0 .. L /\ t[2] \in 0 .. R /\ t = <<t[1], t[2]>>
        BY <3>3
      <4>2. t[1] # s[1] \/ t[2] # s[2]
        BY <2>1, <3>3, <4>1
      <4> QED BY <2>1, <2>2, <3>1, <3>3, <4>1, <4>2 DEF Before
    <3> QED BY <3>2, <3>3 DEF r
  <2>3. CASE s[2] # 0
    <3>1. r = <<s[1], s[2] - 1>> /\ r[1] = s[1] /\ r[2] = s[2] - 1
      BY <2>3
    <3> HIDE DEF r
    <3>2. r \in All /\ Before(r, s) /\ ~Before(s, r)
      BY <2>1, <2>3, <3>1 DEF Before
    <3>3. ASSUME NEW t \in All, Before(t, s), t # s PROVE Before(t, r)
      <4>1. t[1] \in 0 .. L /\ t[2] \in 0 .. R /\ t = <<t[1], t[2]>>
        BY <3>3
      <4>2. t[1] # s[1] \/ t[2] # s[2]
        BY <2>1, <3>3, <4>1
      <4> QED BY <2>1, <2>3, <3>1, <3>3, <4>1, <4>2 DEF Before
    <3> QED BY <3>2, <3>3 DEF r
  <2> QED BY <2>2, <2>3
<1>3. \A s, f : JoinBody(q, f, s) = IF s[1] = 0 THEN Nothing ELSE IF s[2] = 0 THEN f[Pred(s)]
                                    ELSE JoinStep(q, f[Pred(s)], s)
  BY DEF JoinBody
<1>4. ASSUME NEW s \in All, NEW f, NEW h, s[1] # 0 => f[Pred(s)] = h[Pred(s)]
      PROVE  JoinBody(q, f, s) = JoinBody(q, h, s)
  <2> HIDE DEF Pred
  <2> QED BY <1>3, <1>4
<1>5. \A s, t, u \in All : Before(s, t) /\ Before(t, u) => Before(s, u)
  BY DEF Before
<1> HIDE DEF Pred
<1>6. Bad = {}
  <2>1. SUFFICES ASSUME Bad # {} PROVE FALSE
    OBVIOUS
  <2>2. PICK p \in Bad : \A s \in Bad : Before(p, s)
    <3>1. Bad \in SUBSET (Nat \X Nat)
      OBVIOUS
    <3> HIDE DEF Bad
    <3> QED BY <2>1, <3>1, LeastPair
  <2>3. p \in All /\ ~ \E f : f = To(p, f)
    BY <2>2
  <2>4. CASE p[1] = 0
    <3> DEFINE f == [s \in Upto(p) |-> Nothing]
    <3>1. \A s \in Upto(p) : s[1] = 0
      BY <2>3, <2>4 DEF Before
    <3>2. \A s \in Upto(p) : JoinBody(q, f, s) = Nothing
      BY <3>1 DEF JoinBody
    <3>3. f = To(p, f)
      BY <3>2
    <3> QED BY <2>3, <3>3
  <2>5. CASE p[1] # 0
    <3> DEFINE r == Pred(p)
    <3>1. r \in All /\ Before(r, p) /\ ~Before(p, r)
      BY <1>2, <2>3, <2>5
    <3>2. r \notin Bad
      BY <2>2, <3>1
    <3> HIDE DEF r
    <3>3. PICK f : f = To(r, f)
      BY <3>1, <3>2
    <3> DEFINE h == To(p, f)
    <3>4. ASSUME NEW s \in Upto(p), s[1] # 0 PROVE h[Pred(s)] = f[Pred(s)]
      <4>1. Pred(s) \in All /\ Before(Pred(s), s) /\ s \in All /\ Before(s, p)
        BY <1>2, <3>4
      <4>2. Before(Pred(s), p)
        BY <1>5, <2>3, <4>1
      <4>3. Pred(s) # p
        <5>1. CASE s = p
          BY <3>1, <5>1, <1>2, <2>3, <2>5
        <5>2. CASE s # p
          <6>1. ~Before(p, s)
            BY <4>1, <5>2, <2>3 DEF Before
          <6> QED BY <6>1, <4>1
        <5> QED BY <5>1, <5>2
      <4>4. Before(Pred(s), r)
        BY <1>2, <2>3, <2>5, <4>1, <4>2, <4>3 DEF r
      <4>5. h[Pred(s)] = JoinBody(q, f, Pred(s))
        BY <4>1, <4>2
      <4>6. f[Pred(s)] = JoinBody(q, f, Pred(s))
        BY <3>3, <4>1, <4>4
      <4> QED BY <4>5, <4>6
    <3>5. \A s \in Upto(p) : JoinBody(q, f, s) = JoinBody(q, h, s)
      <4> HIDE DEF h
      <4> QED BY <1>4, <3>4
    <3>6. h = To(p, h)
      <4>1. To(p, f) = To(p, h)
        BY <3>5
      <4> QED BY <4>1
    <3> QED BY <2>3, <3>6
  <2> QED BY <2>4, <2>5
<1>7. g = Whole(g)
  <2>1. <<L, R>> \in All
    OBVIOUS
  <2>2. Upto(<<L, R>>) = All
    BY DEF Before
  <2>3. \E f : f = Whole(f)
    <3>1. PICK f : f = To(<<L, R>>, f)
      BY <1>6, <2>1
    <3> QED BY <2>2, <3>1
  <2> HIDE DEF Whole
  <2> QED BY <2>3
<1> QED BY <1>1, <1>7

(* The pairs that a join shows, if its limit lets it.                      *)
JoinedPairs(q) ==
  {p \in scan(table[q.left]) \X scan(table[q.right]) : pair_matches(q, p)}

(* A join shows its matching pairs in the order of the loops, and no more  *)
(* of them than its limit.                                                 *)
LEMMA JoinedIs ==
  ASSUME NEW q, Len(table[q.left].rows) \in Nat, Len(table[q.right].rows) \in Nat,
         IsLimit(q.limit)
  PROVE  LET P == JoinedPairs(q)
         IN  joined(q) = [k \in Shown(Cardinality(P), q.limit) |-> projected(q, NthPair(P, k))]
<1> DEFINE L == Len(table[q.left].rows)
           R == Len(table[q.right].rows)
           All == (0 .. L) \X (0 .. R)
           P == JoinedPairs(q)
           U(p) == UpTo(P, p)
           c(p) == Cardinality(U(p))
           G(p) == [k \in 1 .. c(p) |-> projected(q, NthPair(U(p), k))]
<1>1. PICK f : /\ f = [p \in All |-> JoinBody(q, f, p)]
               /\ joined(q) = f[<<L, R>>].out
  BY JoinedDefined
<1>2. L \in Nat /\ R \in Nat
  OBVIOUS
<1>3. /\ P \in SUBSET ((1 .. L) \X (1 .. R))
      /\ \A p : p \in P <=> p \in scan(table[q.left]) \X scan(table[q.right]) /\ pair_matches(q, p)
  BY DEF JoinedPairs, scan
<1> HIDE DEF L, R, P
<1>4. IsFiniteSet(P)
  <2>1. IsFiniteSet(1 .. L) /\ IsFiniteSet(1 .. R)
    <3>1. 1 \in Int /\ L \in Int /\ R \in Int
      BY <1>2
    <3> QED BY <3>1, FS_Interval, Zenon
  <2>2. IsFiniteSet((1 .. L) \X (1 .. R))
    BY <2>1, FS_Product
  <2> QED BY <1>3, <2>2, FS_Subset
<1>5. ASSUME NEW p \in All
      PROVE  U(p) \in SUBSET P /\ IsFiniteSet(U(p)) /\ c(p) \in Nat
  <2>1. U(p) \in SUBSET P
    BY DEF UpTo
  <2> HIDE DEF U
  <2>2. IsFiniteSet(U(p))
    BY <1>4, <2>1, FS_Subset
  <2> QED BY <2>1, <2>2, FS_CardinalityType
<1>6. \A p : U(p) = {s \in P : Before(s, p)}
  BY DEF UpTo, Before
<1> HIDE DEF U
<1> DEFINE Good(p) == f[p] = Answers(c(p), q.limit, G(p))
<1>7. ASSUME NEW p \in All, p[1] = 0
      PROVE  Good(p)
  <2>1. U(p) = {}
    <3>1. \A s \in P : ~Before(s, p)
      BY <1>2, <1>3, <1>7 DEF Before
    <3> QED BY <1>6, <3>1
  <2>2. c(p) = 0
    BY <2>1, FS_EmptySet
  <2>3. f[p] = Nothing
    BY <1>1, <1>7 DEF JoinBody
  <2>4. Shown(0, q.limit) = {} /\ ~(q.limit > 0 /\ q.limit <= 0)
    BY DEF Shown, IsLimit
  <2>5. Answers(0, q.limit, G(p)) = Nothing
    <3> HIDE DEF G
    <3>1. [k \in Shown(0, q.limit) |-> G(p)[k]] = <<>>
      BY <2>4
    <3> QED BY <2>4, <3>1 DEF Answers, Nothing
  <2> HIDE DEF c, G
  <2> QED BY <2>2, <2>3, <2>5
<1>8. ASSUME NEW p \in All, p[1] # 0, p[2] = 0, Good(<<p[1] - 1, R>>)
      PROVE  Good(p)
  <2> DEFINE r == <<p[1] - 1, R>>
  <2>1. p[1] \in 1 .. L /\ r \in All /\ r[1] = p[1] - 1 /\ r[2] = R
    BY <1>2, <1>8
  <2>2. f[p] = f[r]
    BY <1>1, <1>8 DEF JoinBody, R
  <2>3. U(p) = U(r)
    <3> HIDE DEF r
    <3>1. ASSUME NEW s \in P PROVE Before(s, p) <=> Before(s, r)
      <4>1. s[1] \in 1 .. L /\ s[2] \in 1 .. R
        BY <1>3
      <4> QED BY <1>2, <1>8, <2>1, <4>1 DEF Before
    <3> QED BY <1>6, <3>1
  <2>4. Good(r)
    BY <1>8
  <2> HIDE DEF r
  <2> QED BY <2>2, <2>3, <2>4
<1>9. ASSUME NEW p \in All, p[1] # 0, p[2] # 0, Good(<<p[1], p[2] - 1>>)
      PROVE  Good(p)
  <2> DEFINE r == <<p[1], p[2] - 1>>
  <2>1. /\ p[1] \in 1 .. L /\ p[2] \in 1 .. R /\ p = <<p[1], p[2]>>
        /\ r \in All /\ r[1] = p[1] /\ r[2] = p[2] - 1
    BY <1>2, <1>9
  <2>2. f[p] = JoinStep(q, f[r], p)
    BY <1>1, <1>9 DEF JoinBody
  <2>3. Good(r)
    BY <1>9
  <2> HIDE DEF r
  <2>4. ASSUME NEW s \in P
        PROVE  /\ Before(s, p) <=> (Before(s, r) \/ s = p)
               /\ Before(s, r) => Before(s, p) /\ ~Before(p, s)
    <3>1. s[1] \in 1 .. L /\ s[2] \in 1 .. R /\ s = <<s[1], s[2]>>
      BY <1>3
    <3>2. s = p <=> s[1] = p[1] /\ s[2] = p[2]
      BY <2>1, <3>1
    <3> QED BY <1>2, <2>1, <3>1, <3>2 DEF Before
  <2>5. CASE p \notin P
    <3>1. U(p) = U(r)
      BY <1>6, <2>4, <2>5
    <3>2. f[p] = f[r]
      BY <1>3, <2>2, <2>5 DEF JoinStep
    <3> QED BY <2>3, <3>1, <3>2
  <2>6. CASE p \in P
    <3>1. /\ U(p) = U(r) \cup {p} /\ \A s \in U(r) : Before(s, p) /\ ~Before(p, s)
      BY <1>6, <2>4, <2>6
    <3>2. U(r) \in SUBSET (Nat \X Nat) /\ IsFiniteSet(U(r)) /\ c(r) \in Nat /\ p \in Nat \X Nat
      <4>1. P \in SUBSET (Nat \X Nat)
        BY <1>3
      <4> HIDE DEF c
      <4> QED BY <1>5, <2>1, <2>6, <4>1
    <3>3. /\ c(p) = c(r) + 1 /\ NthPair(U(p), c(r) + 1) = p
          /\ \A k \in 1 .. c(r) : NthPair(U(p), k) = NthPair(U(r), k)
      <4> DEFINE S == U(r)
      <4>1. /\ S \in SUBSET (Nat \X Nat) /\ IsFiniteSet(S) /\ p \in Nat \X Nat
            /\ \A s \in S : Before(s, p) /\ ~Before(p, s)
        BY <3>1, <3>2
      <4> HIDE DEF S
      <4>2. /\ Cardinality(S \cup {p}) = Cardinality(S) + 1
            /\ NthPair(S \cup {p}, Cardinality(S) + 1) = p
            /\ \A k \in 1 .. Cardinality(S) : NthPair(S \cup {p}, k) = NthPair(S, k)
        BY <4>1, PairAdded
      <4>3. U(p) = S \cup {p}
        BY <3>1 DEF S
      <4> QED BY <4>2, <4>3 DEF S
    <3>4. /\ G(p)[c(r) + 1] = projected(q, p)
          /\ \A k \in 1 .. c(r) : G(p)[k] = G(r)[k]
      BY <3>2, <3>3
    <3> HIDE DEF G, c
    <3>5. f[p] = IF f[r].stop THEN f[r] ELSE Collected(f[r], G(p)[c(r) + 1], q.limit)
      BY <1>3, <2>2, <2>6, <3>4 DEF JoinStep
    <3>6. f[p] = Answers(c(r) + 1, q.limit, G(p))
      <4> DEFINE n == c(r)
                 H == G(p)
                 I == G(r)
                 acc == f[r]
                 lim == q.limit
      <4>1. n \in Nat /\ IsLimit(lim)
        BY <3>2
      <4>2. acc = Answers(n, lim, I)
        BY <2>3
      <4>3. \A k \in 1 .. n : H[k] = I[k]
        BY <3>4
      <4> HIDE DEF n, H, I, acc, lim
      <4>4. (IF acc.stop THEN acc ELSE Collected(acc, H[n + 1], lim)) = Answers(n + 1, lim, H)
        BY ONLY <4>1, <4>2, <4>3, OneMore
      <4> QED BY <3>5, <4>4 DEF n, H, acc, lim
    <3> QED BY <3>3, <3>6
  <2> QED BY <2>5, <2>6
<1> HIDE DEF Good
<1>10. \A p \in All : Good(p)
  <2> DEFINE Bad == {p \in All : ~Good(p)}
  <2>1. SUFFICES ASSUME Bad # {} PROVE FALSE
    OBVIOUS
  <2>2. PICK p \in Bad : \A s \in Bad : Before(p, s)
    <3>1. Bad \in SUBSET (Nat \X Nat)
      BY <1>2
    <3> HIDE DEF Bad
    <3> QED BY <2>1, <3>1, LeastPair
  <2>3. p \in All /\ ~Good(p) /\ p[1] \in 0 .. L /\ p[2] \in 0 .. R
    BY <2>2
  <2>4. p[1] # 0
    BY <1>7, <2>3
  <2>5. CASE p[2] = 0
    <3> DEFINE r == <<p[1] - 1, R>>
    <3>1. r \in All /\ r[1] = p[1] - 1
      BY <1>2, <2>3, <2>4
    <3>2. ~Before(p, r)
      <4> HIDE DEF r
      <4> QED BY <2>3, <3>1 DEF Before
    <3>3. Good(r)
      <4> HIDE DEF r
      <4> QED BY <2>2, <3>1, <3>2
    <3> QED BY <1>8, <2>3, <2>4, <2>5, <3>3
  <2>6. CASE p[2] # 0
    <3> DEFINE r == <<p[1], p[2] - 1>>
    <3>1. r \in All /\ r[1] = p[1] /\ r[2] = p[2] - 1
      BY <1>2, <2>3, <2>6
    <3>2. ~Before(p, r)
      <4> HIDE DEF r
      <4> QED BY <2>3, <3>1 DEF Before
    <3>3. Good(r)
      <4> HIDE DEF r
      <4> QED BY <2>2, <3>1, <3>2
    <3> QED BY <1>9, <2>3, <2>4, <2>6, <3>3
  <2> QED BY <2>5, <2>6
<1> DEFINE e == <<L, R>>
<1>11. e \in All /\ U(e) = P
  <2>1. e \in All /\ e[1] = L /\ e[2] = R
    BY <1>2
  <2> HIDE DEF e
  <2>2. \A s \in P : Before(s, e)
    BY <1>2, <1>3, <2>1 DEF Before
  <2>3. U(e) = P
    BY <1>6, <2>2
  <2> QED BY <2>1, <2>3
<1>12. f[e] = Answers(c(e), q.limit, G(e)) /\ c(e) \in Nat
  <2> HIDE DEF e
  <2>1. Good(e)
    BY <1>10, <1>11
  <2>2. c(e) \in Nat
    <3> HIDE DEF c
    <3> QED BY <1>5, <1>11
  <2> HIDE DEF c, G
  <2> QED BY <2>1, <2>2 DEF Good
<1>13. joined(q) = f[e].out
  BY <1>1 DEF L, R
<1> HIDE DEF e
<1>14. \A k \in Shown(c(e), q.limit) : k \in 1 .. c(e)
  <2> HIDE DEF c
  <2> QED BY <1>12 DEF Shown, IsLimit
<1>15. \A k \in Shown(c(e), q.limit) : G(e)[k] = projected(q, NthPair(U(e), k))
  <2> HIDE DEF c
  <2> QED BY <1>14
<1>16. f[e].out = [k \in Shown(c(e), q.limit) |-> projected(q, NthPair(U(e), k))]
  <2> HIDE DEF c, G
  <2> QED BY <1>12, <1>15 DEF Answers
<1> QED BY <1>11, <1>13, <1>16 DEF P

-----------------------------------------------------------------------------
(* The columns of a join.                                                  *)

(* Both tables of a join are there, with schemas.                          *)
Joinable(q) ==
  LET l == table[q.left]
      r == table[q.right]
  IN  /\ q.left \in Name /\ q.right \in Name /\ q.left # q.right
      /\ l.schema \in Schemas /\ r.schema \in Schemas

(* The columns of the combined row are those of the left table, then those *)
(* of the right one.                                                       *)
LEMMA CombinedCols ==
  ASSUME NEW q, Joinable(q)
  PROVE  LET ls   == table[q.left].schema
             rs   == table[q.right].schema
             cols == combined_cols(q)
         IN  /\ Len(cols) = Len(ls) + Len(rs)
             /\ \A c \in 1 .. Len(ls) : cols[c].table = q.left /\ cols[c].name = ls[c].name
             /\ \A d \in 1 .. Len(rs) : /\ cols[Len(ls) + d].table = q.right
                                        /\ cols[Len(ls) + d].name = rs[d].name
<1> DEFINE ls == table[q.left].schema
           rs == table[q.right].schema
           lc == [c \in 1 .. Len(ls) |-> [table |-> q.left, name |-> ls[c].name]]
           rc == [c \in 1 .. Len(rs) |-> [table |-> q.right, name |-> rs[c].name]]
<1>1. Len(ls) \in Nat /\ Len(rs) \in Nat
  BY SchemaIs DEF Joinable
<1>2. combined_cols(q) = lc \o rc
  BY DEF combined_cols
<1> HIDE DEF ls, rs
<1>3. Len(lc) = Len(ls) /\ Len(rc) = Len(rs)
  BY <1>1
<1> DEFINE Any == {lc[c] : c \in 1 .. Len(ls)} \cup {rc[c] : c \in 1 .. Len(rs)}
<1>4. lc \in Seq(Any) /\ rc \in Seq(Any)
  <2>1. lc \in [1 .. Len(ls) -> Any] /\ rc \in [1 .. Len(rs) -> Any]
    OBVIOUS
  <2> HIDE DEF lc, rc, Any
  <2> QED BY <1>1, <2>1, IsASeq
<1>5. /\ Len(lc \o rc) = Len(ls) + Len(rs)
      /\ \A i \in 1 .. Len(ls) + Len(rs) :
           (lc \o rc)[i] = IF i <= Len(ls) THEN lc[i] ELSE rc[i - Len(ls)]
  <2> HIDE DEF lc, rc, Any
  <2> QED BY <1>3, <1>4, ConcatProperties
<1>6. \A c \in 1 .. Len(ls) : /\ (lc \o rc)[c] = lc[c]
                              /\ lc[c].table = q.left /\ lc[c].name = ls[c].name
  <2>1. \A c \in 1 .. Len(ls) : c \in 1 .. Len(ls) + Len(rs) /\ c <= Len(ls)
    BY <1>1
  <2>2. \A c \in 1 .. Len(ls) : lc[c].table = q.left /\ lc[c].name = ls[c].name
    OBVIOUS
  <2> HIDE DEF lc, rc
  <2> QED BY <1>5, <2>1, <2>2
<1>7. \A d \in 1 .. Len(rs) : /\ (lc \o rc)[Len(ls) + d] = rc[d]
                              /\ rc[d].table = q.right /\ rc[d].name = rs[d].name
  <2>1. \A d \in 1 .. Len(rs) : /\ Len(ls) + d \in 1 .. Len(ls) + Len(rs)
                                /\ ~(Len(ls) + d <= Len(ls)) /\ Len(ls) + d - Len(ls) = d
    BY <1>1
  <2>2. \A d \in 1 .. Len(rs) : rc[d].table = q.right /\ rc[d].name = rs[d].name
    OBVIOUS
  <2> HIDE DEF lc, rc
  <2> QED BY <1>5, <2>1, <2>2
<1> HIDE DEF lc, rc
<1> QED BY <1>2, <1>5, <1>6, <1>7 DEF ls, rs

(* resolve_col finds the column that a reference names: the first one of   *)
(* the table before the point, or the only one of a bare name.             *)
LEMMA Resolved ==
  ASSUME NEW q, Joinable(q), NEW ref
  PROVE  LET ls == table[q.left].schema
             rs == table[q.right].schema
             c  == resolve_col(ref, combined_cols(q))
             i  == find_col(ls, ref.name)
             j  == find_col(rs, ref.name)
         IN  /\ c # 0 <=> Known(ref, q)
             /\ c # 0 =>
                  \/ /\ c = i /\ i \in 1 .. Len(ls) /\ ref.table \in {q.left, EmptyText}
                     /\ ref.table = EmptyText => j = 0
                  \/ /\ c = Len(ls) + j /\ j \in 1 .. Len(rs)
                     /\ ref.table \in {q.right, EmptyText}
                     /\ ref.table = EmptyText => i = 0
<1> DEFINE ls == table[q.left].schema
           rs == table[q.right].schema
           cols == combined_cols(q)
           A == Len(ls)
           B == Len(rs)
           name == ref.name
           QL == ref.table \in {q.left, EmptyText}
           QR == ref.table \in {q.right, EmptyText}
           found == {c \in 1 .. Len(cols) :
                       cols[c].name = name /\ (ref.table = EmptyText \/ cols[c].table = ref.table)}
           columns == UNION {{n} \X DOMAIN table[n].schema : n \in {q.left, q.right}}
           F == {x \in columns : /\ ref.table \in {x[1], EmptyText}
                                 /\ table[x[1]].schema[x[2]].name = name}
           c == resolve_col(ref, cols)
           i == find_col(ls, name)
           j == find_col(rs, name)
<1>1. /\ A \in Nat /\ B \in Nat /\ DOMAIN ls = 1 .. A /\ DOMAIN rs = 1 .. B
      /\ q.left # q.right /\ q.left # EmptyText /\ q.right # EmptyText
  BY SchemaIs, StatementsAssumption DEF Joinable
<1>2. /\ Len(cols) = A + B
      /\ \A k \in 1 .. A : cols[k].table = q.left /\ cols[k].name = ls[k].name
      /\ \A d \in 1 .. B : cols[A + d].table = q.right /\ cols[A + d].name = rs[d].name
  BY CombinedCols
<1>3. /\ i \in 0 .. A
      /\ i # 0 => ls[i].name = name
      /\ i = 0 <=> \A k \in 1 .. A : ls[k].name # name
  BY <1>1, FindCol
<1>4. /\ j \in 0 .. B
      /\ j # 0 => rs[j].name = name
      /\ j = 0 <=> \A k \in 1 .. B : rs[k].name # name
  BY <1>1, FindCol
<1>5. c = IF found = {} \/ (ref.table = EmptyText /\ Cardinality(found) > 1) THEN 0
          ELSE Sets!Min(found)
  BY DEF resolve_col
<1>6. Known(ref, q) <=> \E x \in F : ref.table = EmptyText => F = {x}
  BY DEF Known
<1>7. /\ i = IF {k \in 1 .. A : ls[k].name = name} = {} THEN 0
            ELSE Sets!Min({k \in 1 .. A : ls[k].name = name})
      /\ j = IF {k \in 1 .. B : rs[k].name = name} = {} THEN 0
            ELSE Sets!Min({k \in 1 .. B : rs[k].name = name})
  BY DEF find_col
<1>8. /\ \A k : <<q.left, k>> \in F <=> QL /\ k \in 1 .. A /\ ls[k].name = name
      /\ \A k : <<q.right, k>> \in F <=> QR /\ k \in 1 .. B /\ rs[k].name = name
      /\ \A x \in F : \E k : x = <<q.left, k>> \/ x = <<q.right, k>>
  <2>1. \A x : x \in columns <=> \/ \E k \in 1 .. A : x = <<q.left, k>>
                                 \/ \E k \in 1 .. B : x = <<q.right, k>>
    BY <1>1
  <2> HIDE DEF columns, name
  <2>2. \A k : <<q.left, k>> \in columns <=> k \in 1 .. A
    BY <1>1, <2>1
  <2>3. \A k : <<q.right, k>> \in columns <=> k \in 1 .. B
    BY <1>1, <2>1
  <2> QED BY <2>1, <2>2, <2>3
<1> HIDE DEF F, columns, c, i, j, cols, ls, rs
<1>9. /\ \A k \in 1 .. A : k \in found <=> QL /\ ls[k].name = name
      /\ \A d \in 1 .. B : A + d \in found <=> QR /\ rs[d].name = name
      /\ \A k \in found : k \in 1 .. A \/ \E d \in 1 .. B : k = A + d
  <2> HIDE DEF A, B, name
  <2>1. \A k \in 1 .. A : k \in 1 .. Len(cols)
    BY <1>1, <1>2
  <2>2. \A d \in 1 .. B : A + d \in 1 .. Len(cols)
    BY <1>1, <1>2
  <2>3. ASSUME NEW k \in found PROVE k \in 1 .. A \/ \E d \in 1 .. B : k = A + d
    <3>1. k \in 1 .. A + B
      BY <1>2
    <3>2. CASE k > A
      <4>1. k - A \in 1 .. B /\ k = A + (k - A)
        BY <1>1, <3>1, <3>2
      <4> QED BY <4>1
    <3> QED BY <1>1, <3>1, <3>2
  <2> QED BY <1>1, <1>2, <2>1, <2>2, <2>3
<1>10. found \in SUBSET Nat /\ IsFiniteSet(found) /\ 0 \notin found
  <2>1. found \in SUBSET (1 .. Len(cols)) /\ Len(cols) \in Nat
    BY <1>1, <1>2
  <2> HIDE DEF found
  <2>2. IsFiniteSet(found)
    BY <2>1, NthIsIn
  <2> QED BY <2>1, <2>2
<1> HIDE DEF found, A, B, name
<1>0. (i # 0 => i \in 1 .. A) /\ (j # 0 => j \in 1 .. B)
  <2>1. A \in Nat /\ B \in Nat /\ i \in 0 .. A /\ j \in 0 .. B
    BY <1>1, <1>3, <1>4
  <2> QED BY <2>1
<1>11. CASE ref.table = q.left
  <2>1. QL /\ ~QR /\ ref.table # EmptyText
    BY <1>1, <1>11
  <2>2. found = {k \in 1 .. A : ls[k].name = name}
    BY <1>9, <2>1
  <2>3. c = i
    BY <1>5, <1>7, <2>1, <2>2
  <2>4. Known(ref, q) <=> i # 0
    BY <1>3, <1>6, <1>8, <2>1
  <2> QED BY <1>0, <1>11, <2>1, <2>3, <2>4 DEF c, i, j, cols, ls, rs, A, B, name
<1>12. CASE ref.table = q.right
  <2>1. QR /\ ~QL /\ ref.table # EmptyText
    BY <1>1, <1>12
  <2>2. Known(ref, q) <=> j # 0
    BY <1>4, <1>6, <1>8, <2>1
  <2>3. CASE j = 0
    <3>1. found = {}
      BY <1>4, <1>9, <2>1, <2>3
    <3>2. c = 0
      BY <1>5, <3>1
    <3> QED BY <2>2, <2>3, <3>2 DEF c, i, j, cols, ls, rs, A, B, name
  <2>4. CASE j # 0
    <3> DEFINE rights == {k \in 1 .. B : rs[k].name = name}
    <3>1. j \in 1 .. B /\ A + j \in found
      BY <1>0, <1>4, <1>9, <2>1, <2>4
    <3>2. Sets!Min(found) \in found /\ Sets!Min(found) <= A + j
      BY <1>10, <3>1, MinIsLeast
    <3>3. PICK d \in 1 .. B : Sets!Min(found) = A + d
      BY <1>9, <2>1, <3>2
    <3>4. d \in rights
      BY <1>9, <3>2, <3>3
    <3>5. j <= d
      <4>1. rights \in SUBSET Nat /\ rights # {}
        BY <3>4
      <4>2. j = Sets!Min(rights)
        BY <1>7, <2>4
      <4> HIDE DEF rights
      <4> QED BY <3>4, <4>1, <4>2, MinIsLeast
    <3>6. d = j
      BY <1>1, <3>1, <3>2, <3>3, <3>5
    <3>7. c = A + j
      BY <1>5, <2>1, <3>1, <3>3, <3>6
    <3>8. c # 0
      BY <1>1, <3>1, <3>7
    <3> QED BY <2>1, <2>2, <2>4, <3>1, <3>7, <3>8, <1>12 DEF c, i, j, cols, ls, rs, A, B, name
  <2> QED BY <2>3, <2>4
<1>13. CASE ref.table \notin {q.left, q.right, EmptyText}
  <2>1. ~QL /\ ~QR
    BY <1>13
  <2>2. found = {} /\ F = {}
    BY <1>8, <1>9, <2>1
  <2> QED BY <1>5, <1>6, <2>2 DEF c, cols
<1>14. CASE ref.table = EmptyText
  <2>1. QL /\ QR
    BY <1>14
  <2>2. c # 0 <=> \E k \in found : found = {k}
    <3>1. found # {} => Sets!Min(found) # 0
      BY <1>10, MinIsLeast
    <3>2. ASSUME NEW k \in found, found = {k} PROVE Cardinality(found) = 1
      BY <3>2, FS_Singleton
    <3>3. ASSUME found # {}, ~(Cardinality(found) > 1) PROVE \E k \in found : found = {k}
      <4>1. Cardinality(found) \in Nat /\ Cardinality(found) # 0
        BY <1>10, <3>3, FS_CardinalityType, FS_EmptySet
      <4>2. Cardinality(found) = 1
        BY <3>3, <4>1
      <4> QED BY <1>10, <4>2, FS_Singleton
    <3> QED BY <1>5, <1>14, <3>1, <3>2, <3>3
  <2>3. ASSUME NEW k \in found, found = {k} PROVE c = k
    <3>1. c # 0
      BY <2>2, <2>3
    <3>2. c = Sets!Min(found)
      BY <1>5, <3>1
    <3> QED BY <1>10, <2>3, <3>2, MinIsLeast
  <2>4. ASSUME NEW k \in 1 .. A, found = {k}
        PROVE  F = {<<q.left, k>>} /\ i = k /\ j = 0
    <3>1. ls[k].name = name /\ i # 0 /\ i \in 1 .. A
      BY <1>0, <1>3, <1>9, <2>1, <2>4
    <3>2. i = k
      BY <1>3, <1>9, <2>1, <2>4, <3>1
    <3>3. \A d \in 1 .. B : A + d # k
      BY <1>1
    <3>4. \A d \in 1 .. B : rs[d].name # name
      BY <1>9, <2>1, <2>4, <3>3
    <3>5. j = 0
      BY <1>4, <3>4
    <3>6. \A m \in 1 .. A : ls[m].name = name => m = k
      BY <1>9, <2>1, <2>4
    <3>7. F = {<<q.left, k>>}
      BY <1>8, <2>1, <3>1, <3>4, <3>6
    <3> QED BY <3>2, <3>5, <3>7
  <2>5. ASSUME NEW d \in 1 .. B, found = {A + d}
        PROVE  F = {<<q.right, d>>} /\ j = d /\ i = 0
    <3>1. rs[d].name = name /\ j # 0 /\ j \in 1 .. B
      BY <1>0, <1>4, <1>9, <2>1, <2>5
    <3>2. \A m \in 1 .. B : rs[m].name = name => m = d
      <4>1. ASSUME NEW m \in 1 .. B, rs[m].name = name PROVE m = d
        <5>1. A + m = A + d
          BY <1>9, <2>1, <2>5, <4>1
        <5> QED BY <1>1, <5>1
      <4> QED BY <4>1
    <3>3. j = d
      BY <1>4, <3>1, <3>2
    <3>4. \A m \in 1 .. A : A + d # m
      BY <1>1
    <3>5. \A m \in 1 .. A : ls[m].name # name
      BY <1>9, <2>1, <2>5, <3>4
    <3>6. i = 0
      BY <1>3, <3>5
    <3>7. F = {<<q.right, d>>}
      BY <1>8, <2>1, <3>1, <3>2, <3>5
    <3> QED BY <3>3, <3>6, <3>7
  <2>6. ASSUME NEW x \in F, F = {x} PROVE \E k \in found : found = {k}
    <3>1. ASSUME NEW k, x = <<q.left, k>> PROVE k \in found /\ found = {k}
      <4>1. k \in 1 .. A /\ ls[k].name = name /\ k \in found
        BY <1>8, <1>9, <2>1, <3>1
      <4>2. ASSUME NEW m \in found PROVE m = k
        <5>1. CASE m \in 1 .. A
          <6>1. <<q.left, m>> \in F
            BY <1>8, <1>9, <2>1, <5>1
          <6> QED BY <2>6, <3>1, <6>1
        <5>2. ASSUME NEW d \in 1 .. B, m = A + d PROVE FALSE
          <6>1. <<q.right, d>> \in F
            BY <1>8, <1>9, <2>1, <5>2
          <6> QED BY <1>1, <2>6, <3>1, <6>1
        <5> QED BY <1>9, <5>1, <5>2
      <4> QED BY <4>1, <4>2
    <3>2. ASSUME NEW k, x = <<q.right, k>> PROVE A + k \in found /\ found = {A + k}
      <4>1. k \in 1 .. B /\ rs[k].name = name /\ A + k \in found
        BY <1>8, <1>9, <2>1, <3>2
      <4>2. ASSUME NEW m \in found PROVE m = A + k
        <5>1. CASE m \in 1 .. A
          <6>1. <<q.left, m>> \in F
            BY <1>8, <1>9, <2>1, <5>1
          <6> QED BY <1>1, <2>6, <3>2, <6>1
        <5>2. ASSUME NEW d \in 1 .. B, m = A + d PROVE m = A + k
          <6>1. <<q.right, d>> \in F
            BY <1>8, <1>9, <2>1, <5>2
          <6> QED BY <2>6, <3>2, <5>2, <6>1
        <5> QED BY <1>9, <5>1, <5>2
      <4> QED BY <4>1, <4>2
    <3> QED BY <1>8, <3>1, <3>2
  <2>7. CASE \E k \in found : found = {k}
    <3>1. PICK k \in found : found = {k}
      BY <2>7
    <3>2. c = k /\ c # 0
      BY <2>2, <2>3, <3>1
    <3>3. CASE k \in 1 .. A
      <4>1. F = {<<q.left, k>>} /\ i = k /\ j = 0
        BY <2>4, <3>1, <3>3
      <4>2. Known(ref, q)
        BY <1>6, <4>1
      <4> QED BY <2>1, <3>2, <3>3, <4>1, <4>2 DEF c, i, j, cols, ls, rs, A, B, name
    <3>4. ASSUME NEW d \in 1 .. B, k = A + d
          PROVE  /\ Known(ref, q) /\ c # 0 /\ c = A + j /\ j \in 1 .. B /\ i = 0
      <4>1. F = {<<q.right, d>>} /\ j = d /\ i = 0
        BY <2>5, <3>1, <3>4
      <4>2. Known(ref, q)
        BY <1>6, <4>1
      <4> QED BY <3>2, <3>4, <4>1, <4>2
    <3>5. CASE \E d \in 1 .. B : k = A + d
      <4>1. Known(ref, q) /\ c # 0 /\ c = A + j /\ j \in 1 .. B /\ i = 0
        BY <3>4, <3>5
      <4> QED BY <2>1, <4>1 DEF c, i, j, cols, ls, rs, A, B, name
    <3> QED BY <1>9, <3>1, <3>3, <3>5
  <2>8. CASE ~ \E k \in found : found = {k}
    <3>1. c = 0 /\ ~Known(ref, q)
      BY <1>6, <1>14, <2>2, <2>6, <2>8
    <3> QED BY <3>1 DEF c, cols
  <2> QED BY <2>7, <2>8
<1> QED BY <1>11, <1>12, <1>13, <1>14

(* A name with its table is known if that table has a column of the name.  *)
LEMMA KnownInTable ==
  ASSUME NEW q, Joinable(q), NEW ref
  PROVE  /\ ref.table = q.left => (Known(ref, q) <=> find_col(table[q.left].schema, ref.name) # 0)
         /\ ref.table = q.right =>
              (Known(ref, q) <=> find_col(table[q.right].schema, ref.name) # 0)
<1> DEFINE ls == table[q.left].schema
           rs == table[q.right].schema
           columns == UNION {{n} \X DOMAIN table[n].schema : n \in {q.left, q.right}}
           F == {x \in columns : /\ ref.table \in {x[1], EmptyText}
                                 /\ table[x[1]].schema[x[2]].name = ref.name}
<1>1. /\ Len(ls) \in Nat /\ Len(rs) \in Nat
      /\ DOMAIN ls = 1 .. Len(ls) /\ DOMAIN rs = 1 .. Len(rs)
      /\ q.left # q.right /\ q.left # EmptyText /\ q.right # EmptyText
  BY SchemaIs, StatementsAssumption DEF Joinable
<1>2. Known(ref, q) <=> \E x \in F : ref.table = EmptyText => F = {x}
  BY DEF Known
<1>3. \A x : x \in columns <=> \/ \E k \in 1 .. Len(ls) : x = <<q.left, k>>
                               \/ \E k \in 1 .. Len(rs) : x = <<q.right, k>>
  BY <1>1
<1>4. find_col(ls, ref.name) = 0 <=> \A k \in 1 .. Len(ls) : ls[k].name # ref.name
  BY <1>1, FindCol
<1>5. find_col(rs, ref.name) = 0 <=> \A k \in 1 .. Len(rs) : rs[k].name # ref.name
  BY <1>1, FindCol
<1>6. /\ \A k : <<q.left, k>> \in F <=>
                ref.table \in {q.left, EmptyText} /\ k \in 1 .. Len(ls) /\ ls[k].name = ref.name
      /\ \A k : <<q.right, k>> \in F <=>
                ref.table \in {q.right, EmptyText} /\ k \in 1 .. Len(rs) /\ rs[k].name = ref.name
      /\ \A x \in F : \E k : x = <<q.left, k>> \/ x = <<q.right, k>>
  <2> HIDE DEF columns
  <2>1. \A k : <<q.left, k>> \in columns <=> k \in 1 .. Len(ls)
    BY <1>1, <1>3
  <2>2. \A k : <<q.right, k>> \in columns <=> k \in 1 .. Len(rs)
    BY <1>1, <1>3
  <2> QED BY <1>3, <2>1, <2>2
<1> HIDE DEF F, ls, rs
<1>7. ref.table = q.left => (Known(ref, q) <=> find_col(ls, ref.name) # 0)
  BY <1>1, <1>2, <1>4, <1>6
<1>8. ref.table = q.right => (Known(ref, q) <=> find_col(rs, ref.name) # 0)
  BY <1>1, <1>2, <1>5, <1>6
<1> QED BY <1>7, <1>8 DEF ls, rs

(* The combined row holds the texts of both rows.                          *)
LEMMA CombinedRow ==
  ASSUME NEW q, Joinable(q), NEW p
  PROVE  LET l   == table[q.left]
             r   == table[q.right]
             row == combined_row(q, p)
         IN  /\ \A c \in 1 .. Len(l.schema) : row[c] = to_string(l.schema, l.rows[p[1]], c)
             /\ \A d \in 1 .. Len(r.schema) :
                  row[Len(l.schema) + d] = to_string(r.schema, r.rows[p[2]], d)
<1> DEFINE ls == table[q.left].schema
           rs == table[q.right].schema
           A  == Len(ls)
           B  == Len(rs)
           lt(c) == to_string(ls, table[q.left].rows[p[1]], c)
           rt(c) == to_string(rs, table[q.right].rows[p[2]], c)
           lc == [c \in 1 .. A |-> lt(c)]
           rc == [c \in 1 .. B |-> rt(c)]
<1>1. A \in Nat /\ B \in Nat
  BY SchemaIs DEF Joinable
<1>2. combined_row(q, p) = lc \o rc
  BY DEF combined_row, out_row
<1> HIDE DEF A, B, lt, rt
<1> DEFINE Any == {lt(c) : c \in 1 .. A} \cup {rt(c) : c \in 1 .. B}
<1>3. Len(lc) = A /\ Len(rc) = B
  BY <1>1
<1>4. lc \in Seq(Any) /\ rc \in Seq(Any)
  <2>1. lc \in [1 .. A -> Any] /\ rc \in [1 .. B -> Any]
    OBVIOUS
  <2> HIDE DEF lc, rc, Any
  <2> QED BY <1>1, <2>1, IsASeq
<1>5. \A k \in 1 .. A + B : (lc \o rc)[k] = IF k <= A THEN lc[k] ELSE rc[k - A]
  <2> HIDE DEF lc, rc, Any
  <2> QED BY <1>3, <1>4, ConcatProperties
<1>6. \A c \in 1 .. A : (lc \o rc)[c] = lt(c)
  <2>1. \A c \in 1 .. A : c \in 1 .. A + B /\ c <= A
    BY <1>1
  <2>2. \A c \in 1 .. A : lc[c] = lt(c)
    OBVIOUS
  <2> HIDE DEF lc, rc
  <2> QED BY <1>5, <2>1, <2>2
<1>7. \A d \in 1 .. B : (lc \o rc)[A + d] = rt(d)
  <2>1. \A d \in 1 .. B : rc[d] = rt(d)
    OBVIOUS
  <2> HIDE DEF lc, rc
  <2>2. ASSUME NEW d \in 1 .. B PROVE (lc \o rc)[A + d] = rt(d)
    <3> DEFINE k == A + d
    <3>1. k \in 1 .. A + B /\ ~(k <= A) /\ k - A = d
      BY <1>1
    <3> HIDE DEF k
    <3>2. (lc \o rc)[k] = rc[d]
      BY <1>5, <3>1
    <3> QED BY <2>1, <3>2 DEF k
  <2> QED BY <2>2
<1> HIDE DEF lc, rc
<1> QED BY <1>2, <1>6, <1>7 DEF lt, rt, A, B

(* Where texts and numbers are not mixed, comparing the text of a value,   *)
(* as a number if it is one, comes to the same as comparing the value.     *)
LEMMA ComparesAlike ==
  ASSUME NEW s \in Schemas, NEW row \in RowOf(s), NEW wh, IsWhere(wh),
         NEW c, c = find_col(s, wh.col.name), c # 0,
         s[c].type = "INT" <=> stoi(wh.val) # NaN
  PROVE  LET v == to_string(s, row, c)
         IN  (IF stoi(v) # NaN /\ stoi(wh.val) # NaN
              THEN Compare(wh.op, stoi(v) = stoi(wh.val), stoi(v) < stoi(wh.val))
              ELSE Compare(wh.op, v = wh.val, TextBefore(v, wh.val)))
               <=> match_where(row, s, [wh EXCEPT !.col = @.name])
<1> DEFINE W == [wh EXCEPT !.col = @.name]
<1>1. W.active /\ W.op = wh.op /\ W.val = wh.val /\ W.col = wh.col.name
  BY DEF IsWhere
<1>2. c \in 1 .. Len(s) /\ c \in DOMAIN s
  BY SchemaIs, FindCol
<1> HIDE DEF W
<1>3. match_where(row, s, W) <=>
        IF s[c].type = "INT" THEN Compare(wh.op, row[c] = stoi(wh.val), row[c] < stoi(wh.val))
        ELSE Compare(wh.op, row[c] = wh.val, TextBefore(row[c], wh.val))
  BY <1>1 DEF match_where
<1>4. CASE s[c].type = "INT"
  <2>1. row[c] \in ReadInt
    BY <1>2, <1>4 DEF RowOf
  <2>2. stoi(to_text(row[c])) = row[c] /\ row[c] # NaN
    BY <2>1, TextAssumption
  <2>3. to_string(s, row, c) = to_text(row[c])
    BY <1>4 DEF to_string
  <2> QED BY <1>3, <1>4, <2>2, <2>3 DEF W
<1>5. CASE s[c].type # "INT"
  <2>1. to_string(s, row, c) = row[c]
    BY <1>5 DEF to_string
  <2> QED BY <1>3, <1>5, <2>1 DEF W
<1> QED BY <1>4, <1>5

(* The WHERE of a join holds of a combined row if SELECT's holds of the    *)
(* row that has the column.                                                *)
LEMMA CombinedMeets ==
  ASSUME Types, ComparedAlike, NEW q \in Joins, Joinable(q), Exists(q.left), Exists(q.right),
         q.where.active,
         NEW p, p[1] \in scan(table[q.left]), p[2] \in scan(table[q.right])
  PROVE  match_where_combined(combined_row(q, p), combined_cols(q), q.where)
           <=> PairMeets(q, p[1], p[2])
<1> DEFINE wh   == q.where
           ls   == table[q.left].schema
           rs   == table[q.right].schema
           lrow == table[q.left].rows[p[1]]
           rrow == table[q.right].rows[p[2]]
           W    == [wh EXCEPT !.col = @.name]
           ref  == wh.col
           c    == resolve_col(ref, combined_cols(q))
           i    == find_col(ls, ref.name)
           j    == find_col(rs, ref.name)
           v    == combined_row(q, p)[c]
           QL   == ref.table \in {q.left, EmptyText}
           QR   == ref.table \in {q.right, EmptyText}
           Compared(w) == IF stoi(w) # NaN /\ stoi(wh.val) # NaN
                          THEN Compare(wh.op, stoi(w) = stoi(wh.val), stoi(w) < stoi(wh.val))
                          ELSE Compare(wh.op, w = wh.val, TextBefore(w, wh.val))
<1>1. /\ q.left \in Name /\ q.right \in Name /\ q.left # q.right /\ IsWhere(wh)
      /\ q.left # EmptyText /\ q.right # EmptyText
  BY StatementsAssumption
<1>2. lrow \in RowOf(ls) /\ rrow \in RowOf(rs)
  <2>1. ASSUME NEW n \in Name, Exists(n), NEW k \in scan(table[n])
        PROVE  table[n].rows[k] \in RowOf(table[n].schema)
    <3>1. k \in 1 .. Len(table[n].rows) /\ table[n].rows[k] # Gone
      BY DEF scan
    <3>2. table[n].rows \in Seq(RowOf(table[n].schema) \cup {Gone})
      BY <2>1, TableTypes
    <3> QED BY <3>1, <3>2, ElementOfSeq
  <2> QED BY <1>1, <2>1
<1>3. ls \in Schemas /\ rs \in Schemas /\ ls \in Schema[q.left] /\ rs \in Schema[q.right]
  BY <1>1, TableTypes
<1>4. /\ c # 0 <=> Known(ref, q)
      /\ c # 0 => \/ c = i /\ i \in 1 .. Len(ls) /\ QL /\ (ref.table = EmptyText => j = 0)
                  \/ c = Len(ls) + j /\ j \in 1 .. Len(rs) /\ QR /\ (ref.table = EmptyText => i = 0)
  BY Resolved
<1>5. match_where_combined(combined_row(q, p), combined_cols(q), wh) <=> c # 0 /\ Compared(v)
  BY DEF match_where_combined
<1>6. PairMeets(q, p[1], p[2]) <=>
        /\ Known(ref, q)
        /\ (QL /\ match_where(lrow, ls, W)) \/ (QR /\ match_where(rrow, rs, W))
  <2> DEFINE Meets(n, k) == /\ ref.table \in {n, EmptyText}
                            /\ match_where(table[n].rows[k], table[n].schema, W)
  <2>1. PairMeets(q, p[1], p[2]) <=>
          /\ Known(ref, q)
          /\ \E side \in {<<q.left, p[1]>>, <<q.right, p[2]>>} : Meets(side[1], side[2])
    BY Zenon DEF PairMeets
  <2> HIDE DEF Meets
  <2>2. PairMeets(q, p[1], p[2]) <=>
          Known(ref, q) /\ (Meets(q.left, p[1]) \/ Meets(q.right, p[2]))
    BY <2>1
  <2> QED BY <2>2 DEF Meets
<1>7. W.active /\ W.col = ref.name
  BY <1>1 DEF IsWhere
<1>8. (i = 0 => ~match_where(lrow, ls, W)) /\ (j = 0 => ~match_where(rrow, rs, W))
  <2> HIDE DEF W, ls, rs, lrow, rrow
  <2> QED BY <1>7 DEF match_where
<1>9. /\ \A k \in 1 .. Len(ls) : combined_row(q, p)[k] = to_string(ls, lrow, k)
      /\ \A k \in 1 .. Len(rs) : combined_row(q, p)[Len(ls) + k] = to_string(rs, rrow, k)
  BY CombinedRow
<1>10. ASSUME NEW n \in {q.left, q.right}, NEW s \in Schema[n], s \in Schemas,
              NEW k, k = find_col(s, ref.name), k # 0, ref.table \in {n, EmptyText}
       PROVE  s[k].type = "INT" <=> stoi(wh.val) # NaN
  <2>1. k \in DOMAIN s /\ s[k].name = ref.name
    BY <1>10, SchemaIs, FindCol
  <2> QED BY <1>10, <2>1 DEF ComparedAlike
<1>11. ASSUME i # 0, QL PROVE Compared(to_string(ls, lrow, i)) <=> match_where(lrow, ls, W)
  <2>1. ls[i].type = "INT" <=> stoi(wh.val) # NaN
    BY <1>3, <1>10, <1>11
  <2> HIDE DEF ls, lrow
  <2> QED BY <1>1, <1>2, <1>3, <1>11, <2>1, ComparesAlike
<1>12. ASSUME j # 0, QR PROVE Compared(to_string(rs, rrow, j)) <=> match_where(rrow, rs, W)
  <2>1. rs[j].type = "INT" <=> stoi(wh.val) # NaN
    BY <1>3, <1>10, <1>12
  <2> HIDE DEF rs, rrow
  <2> QED BY <1>1, <1>2, <1>3, <1>12, <2>1, ComparesAlike
<1>13. Len(ls) \in Nat
  BY <1>3, SchemaIs
<1> HIDE DEF Compared, W, c, i, j, ls, rs, lrow, rrow
<1>14. CASE c = 0
  BY <1>4, <1>5, <1>6, <1>14
<1>15. CASE c = i /\ i \in 1 .. Len(ls) /\ QL /\ (ref.table = EmptyText => j = 0)
  <2>1. i # 0 /\ v = to_string(ls, lrow, i)
    BY <1>9, <1>15
  <2>2. ~(QR /\ match_where(rrow, rs, W))
    BY <1>1, <1>8, <1>15
  <2>3. Known(ref, q)
    BY <1>4, <1>15, <2>1
  <2> QED BY <1>5, <1>6, <1>11, <1>15, <2>1, <2>2, <2>3
<1>16. CASE c # 0 /\ c = Len(ls) + j /\ j \in 1 .. Len(rs) /\ QR /\ (ref.table = EmptyText => i = 0)
  <2>1. j # 0 /\ v = to_string(rs, rrow, j)
    BY <1>9, <1>16
  <2>2. ~(QL /\ match_where(lrow, ls, W))
    BY <1>1, <1>8, <1>16
  <2>3. Known(ref, q)
    BY <1>4, <1>16
  <2> QED BY <1>5, <1>6, <1>12, <1>16, <2>1, <2>2, <2>3
<1> QED BY <1>4, <1>14, <1>15, <1>16

(* Whichever way round ON names its columns, on_columns has the left one   *)
(* first.                                                                  *)
LEMMA OnColumnsAre ==
  ASSUME NEW q \in Joins
  PROVE  /\ on_columns(q)[1] = OnColumn(q, q.left) /\ on_columns(q)[2] = OnColumn(q, q.right)
         /\ \E l, r \in {q.on[1], q.on[2]} :
              /\ {q.on[1], q.on[2]} = {l, r} /\ l.table = q.left /\ r.table = q.right
              /\ OnColumn(q, q.left) = find_col(table[q.left].schema, l.name)
              /\ OnColumn(q, q.right) = find_col(table[q.right].schema, r.name)
<1> DEFINE a == q.on[1]
           b == q.on[2]
           Ref(n) == CHOOSE ref \in {a, b} : ref.table = n
<1>1. q.left # q.right /\ {a.table, b.table} = {q.left, q.right}
  BY StatementsAssumption
<1>2. /\ OnColumn(q, q.left) = find_col(table[q.left].schema, Ref(q.left).name)
      /\ OnColumn(q, q.right) = find_col(table[q.right].schema, Ref(q.right).name)
  BY DEF OnColumn
<1>3. /\ on_columns(q)[1] = find_col(table[q.left].schema, on_clause(q)[1].name)
      /\ on_columns(q)[2] = find_col(table[q.right].schema, on_clause(q)[2].name)
  BY DEF on_columns
<1>4. /\ on_clause(q)[1] = IF a.table = q.right THEN b ELSE a
      /\ on_clause(q)[2] = IF a.table = q.right THEN a ELSE b
  BY DEF on_clause
<1> HIDE DEF a, b
<1>5. CASE a.table = q.left /\ b.table = q.right
  <2>1. Ref(q.left) = a /\ Ref(q.right) = b
    BY <1>1, <1>5
  <2> HIDE DEF Ref
  <2> QED BY <1>1, <1>2, <1>3, <1>4, <1>5, <2>1 DEF a, b
<1>6. CASE a.table = q.right /\ b.table = q.left
  <2>1. Ref(q.left) = b /\ Ref(q.right) = a
    BY <1>1, <1>6
  <2> HIDE DEF Ref
  <2> QED BY <1>1, <1>2, <1>3, <1>4, <1>6, <2>1 DEF a, b
<1> QED BY <1>1, <1>5, <1>6

(* What a JOIN answers is what it means.                                   *)
LEMMA JoinMeans ==
  ASSUME Types, ComparedAlike, NEW q \in Joins, Exists(q.left), Exists(q.right)
  PROVE  exec_join(q) = PairsWanted(q)
<1> DEFINE l == table[q.left]
           r == table[q.right]
           refs == {q.on[1], q.on[2]} \cup {q.cols[j] : j \in 1 .. Len(q.cols)}
           pairs == {p \in scan(l) \X scan(r) :
                       /\ PairAgrees(q, p[1], p[2])
                       /\ q.where.active => PairMeets(q, p[1], p[2])}
           Fails == \/ on_columns(q)[1] = 0 \/ on_columns(q)[2] = 0
                    \/ \E j \in 1 .. Len(q.cols) : resolve_col(q.cols[j], combined_cols(q)) = 0
<1>1. q.left \in Name /\ q.right \in Name /\ q.left # q.right /\ IsLimit(q.limit)
  BY StatementsAssumption
<1>2. Joinable(q) /\ Len(l.rows) \in Nat /\ Len(r.rows) \in Nat
  BY <1>1, TableTypes DEF Joinable
<1>3. Fails <=> \E ref \in refs : ~Known(ref, q)
  <2>1. PICK a \in {q.on[1], q.on[2]}, b \in {q.on[1], q.on[2]} :
          /\ {q.on[1], q.on[2]} = {a, b} /\ a.table = q.left /\ b.table = q.right
          /\ OnColumn(q, q.left) = find_col(l.schema, a.name)
          /\ OnColumn(q, q.right) = find_col(r.schema, b.name)
    BY OnColumnsAre
  <2>2. Known(a, q) <=> on_columns(q)[1] # 0
    BY <1>2, <2>1, KnownInTable, OnColumnsAre
  <2>3. Known(b, q) <=> on_columns(q)[2] # 0
    BY <1>2, <2>1, KnownInTable, OnColumnsAre
  <2>4. \A ref : Known(ref, q) <=> resolve_col(ref, combined_cols(q)) # 0
    BY <1>2, Resolved
  <2>5. refs = {a, b} \cup {q.cols[j] : j \in 1 .. Len(q.cols)}
    BY <2>1
  <2> QED BY <2>2, <2>3, <2>4, <2>5
<1>4. pairs = JoinedPairs(q)
  <2>1. ASSUME NEW p \in scan(l) \X scan(r)
        PROVE  pair_matches(q, p) <=>
                 /\ PairAgrees(q, p[1], p[2])
                 /\ q.where.active => PairMeets(q, p[1], p[2])
    <3>1. p[1] \in scan(l) /\ p[2] \in scan(r)
      BY <2>1
    <3>2. CASE q.where.active
      <4>1. match_where_combined(combined_row(q, p), combined_cols(q), q.where)
              <=> PairMeets(q, p[1], p[2])
        BY <1>2, <3>1, <3>2, CombinedMeets
      <4> QED BY <3>2, <4>1, OnColumnsAre DEF pair_matches, PairAgrees
    <3>3. CASE ~q.where.active
      <4>1. match_where_combined(combined_row(q, p), combined_cols(q), q.where)
        BY <3>3 DEF match_where_combined
      <4> QED BY <3>3, <4>1, OnColumnsAre DEF pair_matches, PairAgrees
    <3> QED BY <3>2, <3>3
  <2> QED BY <2>1 DEF JoinedPairs
<1>5. exec_join(q) = IF Fails THEN Error ELSE joined(q)
  BY DEF exec_join
<1>6. joined(q) = [k \in Shown(Cardinality(JoinedPairs(q)), q.limit) |->
                     projected(q, NthPair(JoinedPairs(q), k))]
  BY <1>1, <1>2, JoinedIs
<1> HIDE DEF Fails, pairs, refs
<1>7. exec_join(q) = IF \E ref \in refs : ~Known(ref, q) THEN Error
                     ELSE [k \in Shown(Cardinality(pairs), q.limit) |->
                             projected(q, NthPair(pairs, k))]
  BY <1>3, <1>4, <1>5, <1>6
<1> QED BY <1>7 DEF pairs, refs, PairsWanted

(* What a JOIN should show depends on the tables alone.                    *)
LEMMA PairsWantedKept ==
  ASSUME table' = table, NEW CONSTANT q
  PROVE  PairsWanted(q)' = PairsWanted(q)
<1>1. \A ref : Known(ref, q)' <=> Known(ref, q)
  BY DEF Known
<1>2. \A i, j : PairAgrees(q, i, j)' <=> PairAgrees(q, i, j)
  BY DEF PairAgrees, OnColumn
<1>3. \A i, j : PairMeets(q, i, j)' <=> PairMeets(q, i, j)
  BY DEF PairMeets, Known
<1>4. \A p : projected(q, p)' = projected(q, p)
  BY DEF projected, combined_row, combined_cols
<1> QED BY <1>1, <1>2, <1>3, <1>4 DEF PairsWanted

(* A statement of another kind says nothing of JOIN.                       *)
LEMMA JoinAnswersStep ==
  ASSUME Types, JoinAnswers, [Next]_vars, ComparedAlike
  PROVE  JoinAnswers'
<1>1. CASE res'.kind # "join"
  BY <1>1 DEF JoinAnswers
<1>2. CASE UNCHANGED vars
  <2>1. table' = table /\ res' = res
    BY <1>2 DEF vars
  <2>2. PairsWanted(res.stmt)' = PairsWanted(res.stmt)
    BY <2>1, PairsWantedKept
  <2> QED BY <2>1, <2>2 DEF JoinAnswers, Exists
<1>3. ASSUME NEW q \in Joins, Join(q)
      PROVE  JoinAnswers'
  <2>1. CASE Missing("join", q, <<q.left, q.right>>)
    <3>1. table' = table /\ res'.stmt = q /\ ~(Exists(q.left) /\ Exists(q.right))
      BY <2>1 DEF Missing, Answer
    <3> QED BY <3>1 DEF JoinAnswers, Exists
  <2>2. CASE /\ Exists(q.left) /\ Exists(q.right)
             /\ res' = [kind |-> "join", stmt |-> q, answer |-> exec_join(q)]
             /\ table' = table
    <3>1. res'.stmt = q /\ res'.answer = exec_join(q)
      BY <2>2
    <3>2. res'.answer = PairsWanted(q)
      BY <2>2, <3>1, JoinMeans
    <3>3. PairsWanted(q)' = PairsWanted(q)
      BY <2>2, PairsWantedKept
    <3> QED BY <3>1, <3>2, <3>3 DEF JoinAnswers
  <2> QED BY <1>3, <2>1, <2>2 DEF Join, Answer
<1>4. ASSUME NEW q \in Inserts, Insert(q) PROVE res'.kind = "insert"
  BY <1>4 DEF Insert, Missing, Answer
<1>5. ASSUME NEW q \in Deletes, Delete(q) PROVE res'.kind = "delete"
  BY <1>5 DEF Delete, Missing, Answer
<1>6. ASSUME NEW q \in Selects, Select(q) PROVE res'.kind = "select"
  BY <1>6 DEF Select, Missing, Answer
<1>7. ASSUME NEW n \in Name, Create(n) PROVE res'.kind = "create"
  BY <1>7 DEF Create, Answer
<1>8. Exit => res'.kind = "none"
  BY DEF Exit, NoStmt
<1> QED BY <1>1, <1>2, <1>3, <1>4, <1>5, <1>6, <1>7, <1>8 DEF Next

(* Every JOIN answers with the pairs of rows that agree on the ON columns  *)
(* and satisfy the WHERE, ordered by left row and then right row, and cut  *)
(* at the LIMIT across both loops; where integers are compared with        *)
(* numbers and texts with what is none.                                    *)
THEOREM JoinsAnswer ==
  ASSUME ComparedAlike
  PROVE  Spec => []JoinAnswers
<1>1. Init => Types /\ JoinAnswers
  BY TypesInit DEF Init, NoStmt, JoinAnswers
<1>2. Types /\ JoinAnswers /\ [Next]_vars => (Types /\ JoinAnswers)'
  BY TypesNext, JoinAnswersStep
<1> QED BY <1>1, <1>2, PTL DEF Spec
=============================================================================
