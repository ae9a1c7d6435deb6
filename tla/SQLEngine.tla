----------------------------- MODULE SQLEngine -----------------------------
(***************************************************************************)
(* The engine above its tables: CREATE, INSERT, DELETE, SELECT and JOIN as *)
(* the executors run them once a statement is parsed, the map of open      *)
(* tables, and the end of the process with every table closed.             *)
(*                                                                         *)
(* A table is what module RowStore says of it: its rows under rowids that  *)
(* grow by one, here a sequence with Gone for each deleted row.  A value   *)
(* is an integer or a text, as the column's type says; what the executors  *)
(* read of a text (its order, its number, an integer's digits) is given by *)
(* the constants.  Columns count from 1; 0 is find_col's -1.               *)
(***************************************************************************)
EXTENDS Integers, Sequences, FiniteSets
Sets == INSTANCE FiniteSetsExt

CONSTANTS
  Name,            \* the names of tables
  Text,            \* texts, as literals and as values of TEXT columns
  TextBefore(_, _),\* std::string's operator<
  stoi(_),         \* std::stoi, or NaN where it throws
  to_text(_),      \* std::to_string of an integer
  EmptyText, NaN,
  NoTable,         \* no file of that name, or an empty one
  Gone,            \* the row of a deleted rowid
  Error,           \* the answer of a statement that fails
  Schema,          \* Schema[n]: what CREATE may ask for as table n
  Inserts,         \* [table, cols, vals]; cols is <<>> for positional values
  Deletes,         \* [table, where]
  Selects,         \* [table, cols, where, limit]; cols is <<>> for *,
                   \*   limit is -1 if there is none
  Joins,           \* [left, right, on, cols, where, limit]
  MaxRowid,        \* bound: the last rowid of a run
  PointLookups     \* FALSE: no SELECT takes the shortcut of WHERE col0 = n

ReadInt == {0} \cup ({stoi(v) : v \in Text} \ {NaN})
Row == Seq(Int \cup Text)

(* The lists of a statement are sequences, its condition is one of the     *)
(* grammar's, its limit none or positive: the code takes 0 for none.  ON   *)
(* names a column of each table, in either order.                          *)
IsSeq(s) == s \in Seq({s[i] : i \in DOMAIN s})
IsWhere(wh) ==
  /\ wh.op \in {"=", "!=", "<", ">=", ">", "<="} /\ wh.val \in Text
  /\ wh = [col |-> wh.col, op |-> wh.op, val |-> wh.val, active |-> TRUE]
IsLimit(limit) == limit = -1 \/ limit \in Nat \ {0}
Everything == [col |-> EmptyText, op |-> "", val |-> EmptyText, active |-> FALSE]

ASSUME TextAssumption ==
  /\ EmptyText \in Text /\ NaN \notin Int /\ ReadInt \subseteq Int
  /\ \A i \in ReadInt : stoi(to_text(i)) = i
  /\ \A v, w \in Text : TextBefore(v, w) \in BOOLEAN
ASSUME SchemaAssumption ==
  \A n \in Name : \A s \in Schema[n] :
    IsSeq(s) /\ \A c \in DOMAIN s : s[c].type \in {"INT", "TEXT"}
ASSUME MarkersAssumption ==
  /\ Gone \notin Row /\ Error \notin Nat
  /\ NoTable \notin [schema : UNION {Schema[n] : n \in Name}, rows : Seq(Row \cup {Gone})]
ASSUME StatementsAssumption ==
  /\ \A q \in Inserts : q.table \in Name /\ IsSeq(q.cols) /\ q.vals \in Seq(Text)
  /\ \A q \in Deletes : q.table \in Name /\ (q.where = Everything \/ IsWhere(q.where))
  /\ \A q \in Selects :
       /\ q.table \in Name /\ IsSeq(q.cols) /\ IsLimit(q.limit)
       /\ q.where = Everything \/ IsWhere(q.where)
  /\ EmptyText \notin Name
  /\ \A q \in Joins :
       /\ q.left \in Name /\ q.right \in Name /\ q.left # q.right
       /\ IsSeq(q.cols) /\ IsLimit(q.limit)
       /\ q.where.active => IsWhere(q.where)
       /\ {q.on[1].table, q.on[2].table} = {q.left, q.right}

VARIABLES table,     \* table[n]: [schema, rows], or NoTable
          tables_,   \* the tables that are open
          res        \* the last statement and its answer

vars == <<table, tables_, res>>

NoStmt == [kind |-> "none"]

-----------------------------------------------------------------------------
find_col(schema, name) ==
  LET found == {c \in 1 .. Len(schema) : schema[c].name = name}
  IN  IF found = {} THEN 0 ELSE Sets!Min(found)

to_string(schema, row, c) ==
  IF schema[c].type = "INT" THEN to_text(row[c]) ELSE row[c]

Compare(op, eq, lt) ==
  CASE op = "=" -> eq  [] op = "!=" -> ~eq [] op = "<" -> lt
    [] op = ">=" -> ~lt [] op = "<=" -> lt \/ eq [] op = ">" -> ~lt /\ ~eq
    [] OTHER -> FALSE

(* A WHERE that compares an integer column with what is no number throws   *)
(* at the first row.                                                       *)
match_throws(schema, wh) ==
  LET c == find_col(schema, wh.col)
  IN  wh.active /\ c # 0 /\ schema[c].type = "INT" /\ stoi(wh.val) = NaN

match_where(row, schema, wh) ==
  LET c == find_col(schema, wh.col)
  IN  IF ~wh.active THEN TRUE
      ELSE /\ c # 0
           /\ IF schema[c].type = "INT"
              THEN Compare(wh.op, row[c] = stoi(wh.val), row[c] < stoi(wh.val))
              ELSE Compare(wh.op, row[c] = wh.val, TextBefore(row[c], wh.val))

(* Where SELECT takes the value of the first column for a rowid.           *)
point_lookup(schema, wh) ==
  /\ wh.active /\ wh.op = "=" /\ Len(schema) > 0
  /\ schema[1].type = "INT" /\ find_col(schema, wh.col) = 1

(* The rowids of the rows of t.  Table::scan hands them to a callback, the *)
(* least first, until the callback stops it.                               *)
scan(t) == {i \in 1 .. Len(t.rows) : t.rows[i] # Gone}

(* What a callback has collected.                                          *)
Nothing == [out |-> <<>>, stop |-> FALSE]

(* Mutant: the limit is tested before the row is counted.                  *)
Collected_late(acc, x, limit) ==
  LET out == Append(acc.out, x)
  IN  [out |-> out, stop |-> limit > 0 /\ Len(acc.out) >= limit]

Collected(acc, x, limit) ==
  LET out == Append(acc.out, x)
  IN  [out |-> out, stop |-> limit > 0 /\ Len(out) >= limit]

-----------------------------------------------------------------------------
(* exec_insert: the row that INSERT makes, with 0 or the empty text in the *)
(* columns it does not name.                                               *)
Given(q) == 1 .. Sets!Min({Len(q.vals),
                           IF q.cols = <<>> THEN Len(table[q.table].schema) ELSE Len(q.cols)})
Target(q, j) ==
  IF q.cols = <<>> THEN j ELSE find_col(table[q.table].schema, q.cols[j])

insert_throws(q) ==
  \E j \in Given(q) :
    \/ Target(q, j) = 0
    \/ table[q.table].schema[Target(q, j)].type = "INT" /\ stoi(q.vals[j]) = NaN

(* Mutant: a row has only the columns that its INSERT names.               *)
row_as_given(q) ==
  LET schema == table[q.table].schema
  IN  [c \in {Target(q, j) : j \in Given(q)} |->
         LET val == q.vals[Sets!Max({j \in Given(q) : Target(q, j) = c})]
         IN  IF schema[c].type = "INT" THEN stoi(val) ELSE val]

row_of(q) ==
  LET schema == table[q.table].schema
  IN  [c \in 1 .. Len(schema) |->
         LET js   == {j \in Given(q) : Target(q, j) = c}
             text == schema[c].type # "INT"
         IN  IF js = {} THEN IF text THEN EmptyText ELSE 0
             ELSE IF text THEN q.vals[Sets!Max(js)] ELSE stoi(q.vals[Sets!Max(js)])]

exec_insert(q) == IF insert_throws(q) THEN Error ELSE Len(table[q.table].rows) + 1

-----------------------------------------------------------------------------
(* exec_delete.                                                            *)
(* Mutant: DELETE takes the shortcut of SELECT.                            *)
doomed_by_lookup(q) ==
  LET t == table[q.table]
  IN  {i \in scan(t) :
         IF point_lookup(t.schema, q.where) THEN i = stoi(q.where.val)
         ELSE match_where(t.rows[i], t.schema, q.where)}

(* delete_where: the rowids that its scan collects.                        *)
Matching(t, wh) == {i \in scan(t) : match_where(t.rows[i], t.schema, wh)}
doomed(q) == Matching(table[q.table], q.where)

exec_delete(q) ==
  IF match_throws(table[q.table].schema, q.where) /\ scan(table[q.table]) # {} THEN Error
  ELSE Cardinality(doomed(q))

-----------------------------------------------------------------------------
(* exec_select.                                                            *)
out_row(schema, row, cols) ==
  IF cols = <<>> THEN [c \in 1 .. Len(schema) |-> to_string(schema, row, c)]
  ELSE [j \in 1 .. Len(cols) |-> to_string(schema, row, find_col(schema, cols[j]))]

find_by_rowid(t, rid) ==
  IF rid \in 1 .. Len(t.rows) THEN t.rows[rid] ELSE Gone

(* What the scan has collected after each rowid, and in the end.           *)
selected(t, q) ==
  LET after[i \in 0 .. Len(t.rows)] ==
        IF i = 0 THEN Nothing
        ELSE LET acc == after[i - 1]
             IN  IF acc.stop \/ i \notin scan(t) THEN acc
                 ELSE IF match_where(t.rows[i], t.schema, q.where)
                 THEN Collected(acc, out_row(t.schema, t.rows[i], q.cols), q.limit)
                 ELSE acc
  IN  after[Len(t.rows)].out

exec_select(q) ==
  LET t      == table[q.table]
      schema == t.schema
      row    == find_by_rowid(t, stoi(q.where.val))
  IN  IF \E j \in 1 .. Len(q.cols) : find_col(schema, q.cols[j]) = 0 THEN Error
      ELSE IF point_lookup(schema, q.where)
           THEN IF stoi(q.where.val) = NaN THEN Error
                ELSE IF row = Gone THEN <<>> ELSE <<out_row(schema, row, q.cols)>>
           ELSE IF match_throws(schema, q.where) /\ scan(t) # {} THEN Error
                ELSE selected(t, q)

-----------------------------------------------------------------------------
(* exec_join.  A reference to a column is [table, name], with the empty    *)
(* text for the table of a bare name.                                      *)
combined_cols(q) ==
  LET ls == table[q.left].schema
      rs == table[q.right].schema
  IN  [c \in 1 .. Len(ls) |-> [table |-> q.left, name |-> ls[c].name]]
        \o [c \in 1 .. Len(rs) |-> [table |-> q.right, name |-> rs[c].name]]

(* 0 for an unknown column and for an ambiguous one.                       *)
resolve_col(ref, cols) ==
  LET found == {c \in 1 .. Len(cols) : cols[c].name = ref.name
                  /\ (ref.table = EmptyText \/ cols[c].table = ref.table)}
  IN  IF found = {} \/ (ref.table = EmptyText /\ Cardinality(found) > 1) THEN 0
      ELSE Sets!Min(found)

(* Numbers where both sides can be read as one, texts otherwise.           *)
match_where_combined(row, cols, wh) ==
  LET c == resolve_col(wh.col, cols)
      numbers == stoi(row[c]) # NaN /\ stoi(wh.val) # NaN
  IN  IF ~wh.active THEN TRUE
      ELSE /\ c # 0
           /\ IF numbers
              THEN Compare(wh.op, stoi(row[c]) = stoi(wh.val), stoi(row[c]) < stoi(wh.val))
              ELSE Compare(wh.op, row[c] = wh.val, TextBefore(row[c], wh.val))

(* Mutant: the sides of ON are taken in the order they are written.        *)
on_clause_as_written(q) == q.on

(* The ON clause with the left table's column first.                       *)
on_clause(q) ==
  IF q.on[1].table = q.right THEN <<q.on[2], q.on[1]>> ELSE q.on

on_columns(q) ==
  <<find_col(table[q.left].schema, on_clause(q)[1].name),
    find_col(table[q.right].schema, on_clause(q)[2].name)>>

(* The combined row of a pair of rowids <<left, right>>, and its columns   *)
(* that are shown.                                                         *)
combined_row(q, p) ==
  out_row(table[q.left].schema, table[q.left].rows[p[1]], <<>>)
    \o out_row(table[q.right].schema, table[q.right].rows[p[2]], <<>>)
projected(q, p) ==
  IF q.cols = <<>> THEN combined_row(q, p)
  ELSE [j \in 1 .. Len(q.cols) |->
          combined_row(q, p)[resolve_col(q.cols[j], combined_cols(q))]]

pair_matches(q, p) ==
  LET l == table[q.left]
      r == table[q.right]
  IN  /\ to_string(l.schema, l.rows[p[1]], on_columns(q)[1])
           = to_string(r.schema, r.rows[p[2]], on_columns(q)[2])
      /\ match_where_combined(combined_row(q, p), combined_cols(q), q.where)

(* What the nested loops have collected after each pair, and in the end;   *)
(* a pair <<i, 0>> stands where the loop over the right rows begins.       *)
joined(q) ==
  LET l == table[q.left]
      r == table[q.right]
      after[p \in (0 .. Len(l.rows)) \X (0 .. Len(r.rows))] ==
        IF p[1] = 0 THEN Nothing
        ELSE IF p[2] = 0 THEN after[<<p[1] - 1, Len(r.rows)>>]
        ELSE LET acc == after[<<p[1], p[2] - 1>>]
             IN  IF acc.stop \/ p \notin scan(l) \X scan(r) THEN acc
                 ELSE IF pair_matches(q, p) THEN Collected(acc, projected(q, p), q.limit)
                 ELSE acc
  IN  after[<<Len(l.rows), Len(r.rows)>>].out

exec_join(q) ==
  IF \/ on_columns(q)[1] = 0 \/ on_columns(q)[2] = 0
     \/ \E j \in 1 .. Len(q.cols) : resolve_col(q.cols[j], combined_cols(q)) = 0
  THEN Error
  ELSE joined(q)

-----------------------------------------------------------------------------
Init == table = [n \in Name |-> NoTable] /\ tables_ = {} /\ res = NoStmt

Exists(n) == table[n] # NoTable
Answer(kind, q, answer) == res' = [kind |-> kind, stmt |-> q, answer |-> answer]

(* open_table on a name without a table; the tables of a JOIN that were    *)
(* opened before it stay open.                                             *)
Missing(kind, q, names) ==
  /\ \E i \in 1 .. Len(names) : ~Exists(names[i])
  /\ tables_' = tables_ \cup {names[i] : i \in
       {j \in 1 .. Len(names) : \A k \in 1 .. j : Exists(names[k])}}
  /\ Answer(kind, q, Error)
  /\ UNCHANGED table

(* A table that exists is opened and keeps its schema, without an error:   *)
(* the answer counts the columns that were asked for.                      *)
Create(n) ==
  /\ \E s \in Schema[n] :
       /\ table' = IF Exists(n) THEN table
                   ELSE [table EXCEPT ![n] = [schema |-> s, rows |-> <<>>]]
       /\ Answer("create", [table |-> n, cols |-> s], Len(s))
  /\ tables_' = tables_ \cup {n}

Insert(q) ==
  \/ Missing("insert", q, <<q.table>>)
  \/ /\ Exists(q.table) /\ Len(table[q.table].rows) < MaxRowid
     /\ tables_' = tables_ \cup {q.table}
     /\ Answer("insert", q, exec_insert(q))
     /\ table' = IF exec_insert(q) = Error THEN table
                 ELSE [table EXCEPT ![q.table].rows = Append(@, row_of(q))]

Delete(q) ==
  \/ Missing("delete", q, <<q.table>>)
  \/ /\ Exists(q.table) /\ tables_' = tables_ \cup {q.table}
     /\ Answer("delete", q, exec_delete(q))
     /\ table' = IF exec_delete(q) = Error THEN table
                 ELSE [table EXCEPT ![q.table].rows =
                         [i \in 1 .. Len(@) |-> IF i \in doomed(q) THEN Gone ELSE @[i]]]

Select(q) ==
  \/ Missing("select", q, <<q.table>>)
  \/ /\ Exists(q.table) /\ tables_' = tables_ \cup {q.table}
     /\ PointLookups \/ ~point_lookup(table[q.table].schema, q.where)
     /\ Answer("select", q, exec_select(q))
     /\ UNCHANGED table

Join(q) ==
  \/ Missing("join", q, <<q.left, q.right>>)
  \/ /\ Exists(q.left) /\ Exists(q.right)
     /\ tables_' = tables_ \cup {q.left, q.right}
     /\ Answer("join", q, exec_join(q))
     /\ UNCHANGED table

(* ~SQLEngine closes every open table; the next engine starts with none.   *)
Exit == tables_' = {} /\ res' = NoStmt /\ UNCHANGED table

Next ==
  \/ \E n \in Name : Create(n)
  \/ \E q \in Inserts : Insert(q)
  \/ \E q \in Deletes : Delete(q)
  \/ \E q \in Selects : Select(q)
  \/ \E q \in Joins : Join(q)
  \/ Exit

Spec == Init /\ [][Next]_vars

-----------------------------------------------------------------------------
(* What the statements mean, without scans, shortcuts and early stops.     *)

(* Of n rows those that are shown, and the k-th of a set of rowids and of  *)
(* a set of pairs of them, ordered by the left, then by the right.         *)
Shown(n, limit) == 1 .. IF limit = -1 \/ n <= limit THEN n ELSE limit

Nth(S, k) == CHOOSE i \in {i \in S : Cardinality({j \in S : j <= i}) = k} : TRUE

UpTo(S, p) == {s \in S : s[1] < p[1] \/ (s[1] = p[1] /\ s[2] <= p[2])}
NthPair(S, k) == CHOOSE p \in {p \in S : Cardinality(UpTo(S, p)) = k} : TRUE

(* Every row has a value of the right type in each column of its table,    *)
(* whichever columns its INSERT named, and only tables that exist are open.*)
TypeOK ==
  /\ \A n \in tables_ : Exists(n)
  /\ \A n \in Name : Exists(n) =>
       /\ table[n].schema \in Schema[n]
       /\ \A i \in scan(table[n]) :
            /\ DOMAIN table[n].rows[i] = DOMAIN table[n].schema
            /\ \A c \in DOMAIN table[n].schema :
                 IF table[n].schema[c].type = "INT" THEN table[n].rows[i][c] \in Int
                 ELSE table[n].rows[i][c] \in Text

(* SELECT fails on a column it does not find and on a comparison that some *)
(* row cannot make.  Otherwise it answers with the rows that satisfy its   *)
(* WHERE, in the order of their insertion, and no more of them than LIMIT  *)
(* says, over tables that were filled and emptied by any statements        *)
(* (src/README.md 8 and 10).                                               *)
SelectAnswers ==
  res.kind = "select" /\ Exists(res.stmt.table) =>
    LET q    == res.stmt
        t    == table[q.table]
        rids == Matching(t, q.where)
    IN  res.answer =
          IF \/ \E j \in 1 .. Len(q.cols) : find_col(t.schema, q.cols[j]) = 0
             \/ match_throws(t.schema, q.where) /\ scan(t) # {}
          THEN Error
          ELSE [k \in Shown(Cardinality(rids), q.limit) |->
                  out_row(t.schema, t.rows[Nth(rids, k)], q.cols)]

(* The column of table n that the ON clause names, in whatever order.      *)
OnColumn(q, n) ==
  find_col(table[n].schema, (CHOOSE ref \in {q.on[1], q.on[2]} : ref.table = n).name)

PairAgrees(q, i, j) ==
  LET l == table[q.left]
      r == table[q.right]
  IN  to_string(l.schema, l.rows[i], OnColumn(q, q.left))
        = to_string(r.schema, r.rows[j], OnColumn(q, q.right))

(* A name with its table is that of a column there; a bare one must be     *)
(* that of only one column of the two tables.                              *)
Known(ref, q) ==
  LET columns == UNION {{n} \X DOMAIN table[n].schema : n \in {q.left, q.right}}
      found   == {x \in columns : /\ ref.table \in {x[1], EmptyText}
                                 /\ table[x[1]].schema[x[2]].name = ref.name}
  IN  \E x \in found : ref.table = EmptyText => found = {x}

(* The WHERE of a join on a pair of rows: SELECT's WHERE on the row that   *)
(* has the column, and nothing if no one knows which that is.              *)
PairMeets(q, i, j) ==
  /\ Known(q.where.col, q)
  /\ \E side \in {<<q.left, i>>, <<q.right, j>>} :
       LET t == table[side[1]]
       IN  /\ q.where.col.table \in {side[1], EmptyText}
           /\ match_where(t.rows[side[2]], t.schema, [q.where EXCEPT !.col = @.name])

(* Where SELECT and JOIN compare in the same way: integers with numbers    *)
(* and texts with what is none.                                            *)
ComparedAlike ==
  \A q \in Joins : q.where.active =>
    \A n \in {q.left, q.right} : \A s \in Schema[n] : \A c \in DOMAIN s :
      s[c].name = q.where.col.name /\ q.where.col.table \in {n, EmptyText}
        => (s[c].type = "INT" <=> stoi(q.where.val) # NaN)

(* What a JOIN of tables that exist should answer.                         *)
PairsWanted(q) ==
  LET refs  == {q.on[1], q.on[2]} \cup {q.cols[j] : j \in 1 .. Len(q.cols)}
      pairs == {p \in scan(table[q.left]) \X scan(table[q.right]) :
                  /\ PairAgrees(q, p[1], p[2])
                  /\ q.where.active => PairMeets(q, p[1], p[2])}
  IN  IF \E ref \in refs : ~Known(ref, q) THEN Error
      ELSE [k \in Shown(Cardinality(pairs), q.limit) |-> projected(q, NthPair(pairs, k))]

(* JOIN fails on a column that is unknown or ambiguous.  Otherwise it      *)
(* answers with the pairs of rows that agree on the ON columns, in         *)
(* whatever order ON names them, and satisfy the WHERE that SELECT would   *)
(* apply to the same column (src/README.md 9): ordered by left row, then   *)
(* right row, and cut at the LIMIT across both loops.                      *)
JoinAnswers ==
  res.kind = "join" /\ Exists(res.stmt.left) /\ Exists(res.stmt.right) =>
    res.answer = PairsWanted(res.stmt)

Negated == [op \in {"=", "!=", "<", ">=", ">", "<="} |->
              CASE op = "=" -> "!=" [] op = "!=" -> "=" [] op = "<" -> ">="
                [] op = ">=" -> "<" [] op = ">" -> "<=" [] op = "<=" -> ">"]

(* What a SELECT that scans table n shows of it.                           *)
RowsWhere(n, wh) ==
  selected(table[n], [cols |-> <<>>, where |-> wh, limit |-> -1])
AllRows(n) == RowsWhere(n, Everything)

(* What SELECT WHERE NOT wh shows.                                         *)
OtherRows(n, wh) ==
  IF find_col(table[n].schema, wh.col) = 0 THEN AllRows(n)
  ELSE RowsWhere(n, [wh EXCEPT !.op = Negated[@]])

(* DELETE WHERE c leaves, in their order, exactly the rows that SELECT     *)
(* WHERE NOT c showed before it, and counts the others; without a WHERE it *)
(* leaves none, and with one on a column that does not exist, all.         *)
DeleteLeavesTheRest ==
  [][\A n \in Name :
       /\ res'.kind = "delete"
       /\ res'.answer # Error
       /\ res'.stmt.table = n
       => LET wh   == res'.stmt.where
              rest == IF wh.active THEN OtherRows(n, wh) ELSE <<>>
          IN  AllRows(n)' = rest /\ res'.answer = Len(AllRows(n)) - Len(rest)]_vars
=============================================================================
