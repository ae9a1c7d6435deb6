------------------------------ MODULE Session ------------------------------
(***************************************************************************)
(* The program as its user sees it: statements typed at the prompt in one  *)
(* or more lines, read back, parsed and executed on tables that are kept   *)
(* as bytes, and the program left and started again.                       *)
(*                                                                         *)
(* The executors are those of SQLEngine, on the tables that the bytes      *)
(* stand for: an open table is read by the schema in memory, a closed one  *)
(* by the schema in its file.  A table's rows are a sequence, as there.    *)
(*                                                                         *)
(* The user types statements of the grammar in sql_engine.h 16-29, each to *)
(* its end, in one of the looks of Looks, and leaves at any time.          *)
(***************************************************************************)
EXTENDS Typing, RowFormat, FiniteSets

CONSTANTS
  Name, Schema, Inserts, Deletes, Selects, Joins,  \* as in SQLEngine
  Junk,      \* texts that are no statement
  NoTable, Gone,
  Looks,     \* the ways to type a statement: see Lines
  MaxRowid   \* bound: the last rowid of a run

(* Schemas and the values of a row fit in the fields that they are kept    *)
(* in, and a number that is read in 32 bits.                               *)
CharsOf(texts) == UNION {{j} \X DOMAIN texts[j] : j \in DOMAIN texts}
ASSUME LimitsAssumption ==
  /\ \A n \in Name : \A cols \in Schema[n] : SchemaFits(cols)
  /\ \A q \in Inserts : Cardinality(CharsOf(q.vals)) + 4 * BYTE < WORD
  /\ \A c \in DOMAIN Number : Number[c] \in Int32

VARIABLES
  files,    \* files[n]: [schema, rows] in bytes, or NoTable
  tables_,  \* the schemas of the open tables
  buf,      \* main's buffer
  lines,    \* the lines that the user has still to type
  asked,    \* history: the statement that the user types or has typed
  ran,      \* history: the statement executed since the user began
  res       \* as in SQLEngine

vars == <<files, tables_, buf, lines, asked, ran, res>>

-----------------------------------------------------------------------------
(* The tables as the engine sees them, by the schema in memory or in the   *)
(* file, and the engine over them.                                         *)
schema_of(n) == IF n \in DOMAIN tables_ THEN tables_[n] ELSE deserialize(files[n].schema)

tables ==
  [n \in Name |->
     IF files[n] = NoTable THEN NoTable
     ELSE [schema |-> schema_of(n),
           rows   |-> [i \in DOMAIN files[n].rows |->
                         IF files[n].rows[i] = Gone THEN Gone
                         ELSE deserialize_row(schema_of(n), files[n].rows[i])]]]

(* std::string's operator<, and std::to_string.                            *)
TextBefore(s, t) ==
  \E k \in 1 .. Len(t) :
    /\ k <= Len(s) + 1 /\ \A i \in 1 .. k - 1 : s[i] = t[i]
    /\ k > Len(s) \/ Code[s[k]] < Code[t[k]]
to_text(n) == <<Numeral[n]>>

Engine == INSTANCE SQLEngine
            WITH table <- tables, tables_ <- DOMAIN tables_, EmptyText <- <<>>,
                 Text <- Seq(DOMAIN Code), PointLookups <- TRUE

-----------------------------------------------------------------------------
None == [kind |-> "none"]

(* The statements of a run, and the looks in which each is read back.      *)
Created == UNION {{[table |-> n, cols |-> cols] : cols \in Schema[n]} : n \in Name}
AllOf(kind, stmts) == {Parsed(kind, q) : q \in stmts}
Statement == AllOf("create", Created) \cup AllOf("insert", Inserts) \cup AllOf("delete", Deletes)
               \cup AllOf("select", Selects) \cup AllOf("join", Joins)
Legible(look) == IsLook(look) /\ \A s \in Statement : Suits(look, s)

(* What is typed: statements of the grammar, on tables and columns whose   *)
(* names are words.  A word that the parser looks for, or a value that     *)
(* reads as a sign or word that it looks for, is not where it looks.       *)
IsColumns(cols) == Engine!IsSeq(cols) /\ \A i \in DOMAIN cols : IsWord(cols[i])
IsCondition(wh) == wh = Engine!Everything \/ (Engine!IsWhere(wh) /\ IsWord(wh.col))
IsLimit(limit) == limit = -1 \/ limit \in DOMAIN Numeral \cap (Nat \ {0})

ASSUME TablesAssumption ==
  \A n \in Name :
    /\ IsWord(n)
    /\ \A cols \in Schema[n] : Engine!IsSeq(cols) /\ \A i \in DOMAIN cols :
         /\ cols[i] = [name |-> cols[i].name, type |-> cols[i].type, max_len |-> cols[i].max_len]
         /\ cols[i].name \in Seq(DOMAIN Code) /\ IsWord(cols[i].name)
         /\ \/ cols[i].type = "INT" /\ cols[i].max_len = 4
            \/ cols[i].type = "TEXT" /\ cols[i].max_len \in {255} \cup DOMAIN Numeral
         /\ cols[i].max_len \in Nat
ASSUME InsertsAssumption ==
  \A q \in Inserts :
    /\ q = [table |-> q.table, cols |-> q.cols, vals |-> q.vals]
    /\ q.table \in Name /\ IsColumns(q.cols)
    /\ q.vals \in Seq(Seq(DOMAIN Code)) /\ \A j \in DOMAIN q.vals : ~Reads(q.vals[j], ")")
ASSUME DeletesAssumption ==
  \A q \in Deletes :
    q = [table |-> q.table, where |-> q.where] /\ q.table \in Name /\ IsCondition(q.where)
ASSUME SelectsAssumption ==
  \A q \in Selects :
    /\ q = [table |-> q.table, cols |-> q.cols, where |-> q.where, limit |-> q.limit]
    /\ q.table \in Name /\ IsColumns(q.cols) /\ IsCondition(q.where) /\ IsLimit(q.limit)
    /\ \A i \in DOMAIN q.cols : ~Reads(q.cols[i], "FROM")
    /\ \A t \in {q.table, q.where.col, q.where.val} \cup {q.cols[i] : i \in DOMAIN q.cols} :
         ~Reads(t, "JOIN")
ASSUME JoinsAssumption ==
  \A q \in Joins :
    /\ q = [left |-> q.left, right |-> q.right, on |-> <<q.on[1], q.on[2]>>,
            cols |-> q.cols, where |-> q.where, limit |-> q.limit]
    /\ {q.left, q.right} \subseteq Name /\ q.left # q.right
    /\ {q.on[1].table, q.on[2].table} = {q.left, q.right} /\ Engine!IsSeq(q.cols)
    /\ \A r \in {q.on[1], q.on[2]} \cup {q.cols[i] : i \in DOMAIN q.cols} : IsReference(r)
    /\ \A i \in DOMAIN q.cols : ~Reads(Reference(q.cols[i]), "FROM")
    /\ IF q.where.active THEN Engine!IsWhere(q.where) /\ IsReference(q.where.col)
       ELSE q.where = [Engine!Everything EXCEPT !.col = [table |-> <<>>, name |-> <<>>]]
    /\ IsLimit(q.limit)
ASSUME JunkAssumption ==
  \A text \in Junk :
    /\ text # <<>> /\ text \in Seq({text[i] : i \in DOMAIN text})
    /\ \A end \in {<<>>, <<Space>>} : exec(<<Space>> \o text \o end) = Failed
ASSUME MarkersAssumption ==
  /\ Gone \notin Engine!Row /\ Error \notin Nat
  /\ NoTable \notin [schema : Seq(0 .. BYTE - 1), rows : Seq(Seq(0 .. BYTE - 1) \cup {Gone})]
  /\ NoTable \notin [schema : UNION {Schema[n] : n \in Name}, rows : Seq(Engine!Row \cup {Gone})]

Init ==
  /\ files = [n \in Name |-> NoTable] /\ tables_ = <<>>
  /\ buf = <<>> /\ lines = <<>> /\ asked = None /\ ran = None
  /\ res = Engine!NoStmt

(* open_table, for one name after the other until one has no table.        *)
Existing(n) == n \in Name /\ files[n] # NoTable
open_tables(names) ==
  LET found == {names[i] : i \in {j \in DOMAIN names : \A k \in 1 .. j : Existing(names[k])}}
  IN  [n \in DOMAIN tables_ \cup found |-> schema_of(n)]

(* An executor on tables that are opened, or not found.                    *)
On(names, kind, q, answer) ==
  /\ tables_' = open_tables(names)
  /\ Engine!Answer(kind, q, IF \A i \in DOMAIN names : Existing(names[i]) THEN answer ELSE Error)

(* The rows of a table after a statement that does not fail.               *)
Rewrite(n, rows) ==
  files' = IF res'.answer = Error THEN files ELSE [files EXCEPT ![n].rows = rows]

Create(q) ==
  /\ IF Existing(q.table) THEN UNCHANGED files /\ tables_' = open_tables(<<q.table>>)
     ELSE /\ files' = [files EXCEPT ![q.table] = [schema |-> serialize(q.cols), rows |-> <<>>]]
          /\ tables_' = [n \in DOMAIN tables_ \cup {q.table} |->
                           IF n = q.table THEN q.cols ELSE tables_[n]]
  /\ Engine!Answer("create", q, Len(q.cols))

Insert(q) ==
  /\ On(<<q.table>>, "insert", q, Engine!exec_insert(q))
  /\ Rewrite(q.table, Append(files[q.table].rows,
                             stored(serialize_row(schema_of(q.table), Engine!row_of(q)))))

Delete(q) ==
  /\ On(<<q.table>>, "delete", q, Engine!exec_delete(q))
  /\ Rewrite(q.table, [i \in DOMAIN files[q.table].rows |->
                         IF i \in Engine!doomed(q) THEN Gone ELSE files[q.table].rows[i]])

Select(q) == On(<<q.table>>, "select", q, Engine!exec_select(q)) /\ UNCHANGED files

Join(q) == On(<<q.left, q.right>>, "join", q, Engine!exec_join(q)) /\ UNCHANGED files

(* A text without ink is no statement, one that is not understood is       *)
(* answered with an error.                                                 *)
Execute(s) ==
  /\ ran' = IF s = None THEN ran ELSE s
  /\ \/ s.kind \in {"none", "error"} /\ UNCHANGED <<files, tables_, res>>
     \/ s.kind = "create" /\ Create(s.stmt)
     \/ s.kind = "insert" /\ Insert(s.stmt)
     \/ s.kind = "delete" /\ Delete(s.stmt)
     \/ s.kind = "select" /\ Select(s.stmt)
     \/ s.kind = "join" /\ Join(s.stmt)

(* Mutant: lines are put together without a blank.                         *)
Appended_tight(line) == buf \o line

(* main's loop: a line is added to the buffer, which is executed when it   *)
(* has a semicolon anywhere or when the line is empty.                     *)
Appended(line) == buf \o <<Space>> \o line
Complete(line) == line = <<>> \/ \E i \in DOMAIN Appended(line) : Appended(line)[i] = ";"

Enter(line) ==
  IF Complete(line) THEN buf' = <<>> /\ Execute(exec(Appended(line)))
  ELSE buf' = Appended(line) /\ ran' = None /\ UNCHANGED <<files, tables_, res>>

(* The user types the first line of a statement, in some look, and then    *)
(* the others.                                                             *)
Type(s) ==
  /\ lines = <<>> /\ asked' = s
  /\ \E look \in Looks :
       Enter(Head(Lines(s, look))) /\ lines' = Tail(Lines(s, look))

TypeInsert(q) ==
  /\ Existing(q.table) => Len(files[q.table].rows) < MaxRowid
  /\ Type(Parsed("insert", q))

TypeJunk(text) ==
  /\ lines = <<>> /\ asked' = Failed
  /\ Enter(text) /\ lines' = <<<<>>>>

TypeOn ==
  /\ lines # <<>> /\ Enter(Head(lines))
  /\ lines' = Tail(lines) /\ UNCHANGED asked

(* exit, quit or the end of the input, also where a statement has begun.   *)
(* Then every table is closed, and the program started again.              *)
Exit ==
  /\ tables_' = <<>> /\ buf' = <<>> /\ lines' = <<>>
  /\ asked' = None /\ ran' = None /\ res' = Engine!NoStmt
  /\ UNCHANGED files

Next ==
  \/ \E n \in Name : \E cols \in Schema[n] : Type(Parsed("create", [table |-> n, cols |-> cols]))
  \/ \E q \in Inserts : TypeInsert(q)
  \/ \E q \in Deletes : Type(Parsed("delete", q))
  \/ \E q \in Selects : Type(Parsed("select", q))
  \/ \E q \in Joins : Type(Parsed("join", q))
  \/ \E text \in Junk : TypeJunk(text)
  \/ TypeOn \/ Exit

Spec == Init /\ [][Next]_vars

-----------------------------------------------------------------------------
(* What is kept of tables is bytes, whatever their names, columns and      *)
(* texts, and only tables that exist are open.                             *)
TypeOK ==
  /\ DOMAIN tables_ \subseteq {n \in Name : files[n] # NoTable}
  /\ \A n \in Name : files[n] # NoTable =>
       /\ files[n].schema \in Seq(0 .. BYTE - 1)
       /\ \A i \in DOMAIN files[n].rows :
            files[n].rows[i] # Gone => files[n].rows[i] \in Seq(0 .. BYTE - 1)

(* A statement is read back as it was meant, whatever the case of its      *)
(* words, the quotes, the blanks and the lines it was typed in, and is     *)
(* executed once it is typed.                                              *)
StatementsReadBack == lines = <<>> => ran = asked

(* The program implements SQLEngine: tables read from their bytes, in this *)
(* run of the program or a later one, are those that statements made, and  *)
(* a statement half typed does nothing.                                    *)
ImplementsEngine == Engine!Spec
=============================================================================
