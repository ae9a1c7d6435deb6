----------------------------- MODULE Statements -----------------------------
(***************************************************************************)
(* From the text of a statement to what the executors of SQLEngine take:   *)
(* SQLEngine::trim and tokenize, the parsing half of each exec_ function,  *)
(* and the choice between them in exec.                                    *)
(*                                                                         *)
(* A text is a sequence of characters; what the code never looks into (a   *)
(* keyword, a name, the digits of a number) is one character.  A token is  *)
(* the text of it, and the token of a quoted literal is the literal.       *)
(*                                                                         *)
(* The parsers take the tokens that a clause must have (the table of FROM, *)
(* the three of WHERE) without looking whether they are there.  Reading    *)
(* past the last token is undefined; here only statements that end after a *)
(* whole clause are parsed.                                                *)
(***************************************************************************)
EXTENDS Integers, Sequences
Seqs == INSTANCE SequencesExt    \* Front, Last, FlattenSeq
Sets == INSTANCE FiniteSetsExt   \* Min, Max

CONSTANTS
  Number,   \* the number that a character reads as, for those that do
  Upper,    \* the upper case of a character, for those that have one
  NaN, Error

Space == " "
Quotes == {"'", "\""}
WordEnd == {Space, ",", "(", ")", ";"} \cup Quotes
Punctuation == {",", "(", ")", ";", "=", "<", ">", "*"}
TwoChar == {<<"<", "=">>, <<">", "=">>, <<"!", "=">>, <<"<", ">">>}

trim(text) ==
  LET ink == {i \in 1 .. Len(text) : text[i] # Space}
  IN  IF ink = {} THEN <<>> ELSE SubSeq(text, Sets!Min(ink), Sets!Max(ink))

to_upper(tok) ==
  [i \in DOMAIN tok |-> IF tok[i] \in DOMAIN Upper THEN Upper[tok[i]] ELSE tok[i]]

(* std::stoi: leading blanks, then a number, then anything.                *)
stoi(tok) ==
  LET t == trim(tok)
  IN  IF t # <<>> /\ t[1] \in DOMAIN Number THEN Number[t[1]] ELSE NaN

(* The place of the first of Ends behind position i.                       *)
until(sql, i, Ends) ==
  Sets!Min({j \in i + 1 .. Len(sql) : sql[j] \in Ends} \cup {Len(sql) + 1})

(* One turn of tokenize's loop, at position i: the tokens that it adds,    *)
(* and where the loop goes on.                                             *)
turn(sql, i) ==
  LET two   == SubSeq(sql, i, Sets!Min({i + 1, Len(sql)}))
      close == until(sql, i, {sql[i]})
      end   == until(sql, i, WordEnd)
  IN  IF sql[i] = Space THEN [toks |-> <<>>, next |-> i + 1]
      ELSE IF sql[i] \in Quotes
           THEN [toks |-> <<SubSeq(sql, i + 1, close - 1)>>, next |-> close + 1]
      ELSE IF two \in TwoChar
           THEN [toks |-> <<IF two = <<"<", ">">> THEN <<"!", "=">> ELSE two>>, next |-> i + 2]
      ELSE IF sql[i] \in Punctuation THEN [toks |-> <<<<sql[i]>>>>, next |-> i + 1]
      ELSE [toks |-> <<SubSeq(sql, i, end - 1)>>, next |-> end]

tokenize(sql) ==
  LET from[i \in Nat] ==
        IF i > Len(sql) THEN <<>> ELSE turn(sql, i).toks \o from[turn(sql, i).next]
  IN  from[1]

-----------------------------------------------------------------------------
(* The clauses that several statements share.  Is is what expect and peek  *)
(* test at token i, Skip steps over a token that may be missing.           *)
Is(toks, i, word) == i <= Len(toks) /\ to_upper(toks[i]) = <<word>>
Skip(toks, i, word) == IF Is(toks, i, word) THEN i + 1 ELSE i

(* The tokens from start up to close, without the comma after each: where  *)
(* they are, and what they are and where the list ends.                    *)
places(toks, start, close) ==
  LET from[i \in Nat] ==
        IF i > Len(toks) \/ Is(toks, i, close) THEN <<>>
        ELSE <<i>> \o from[Skip(toks, i + 1, ",")]
  IN  from[start]

list(toks, start, close) ==
  LET at == places(toks, start, close)
  IN  [items |-> [k \in DOMAIN at |-> toks[at[k]]],
       next  |-> IF at = <<>> THEN start ELSE Skip(toks, Seqs!Last(at) + 1, ",")]

(* The operators as SQLEngine has them; match_where finds no other true.   *)
op_of(tok) ==
  CASE tok = <<"=">> -> "="  [] tok = <<"!", "=">> -> "!=" [] tok = <<"<">> -> "<"
    [] tok = <<">">> -> ">"  [] tok = <<"<", "=">> -> "<=" [] tok = <<">", "=">> -> ">="
    [] OTHER -> ""

where_at(toks, i) ==
  IF Is(toks, i, "WHERE")
  THEN [col |-> toks[i + 1], op |-> op_of(toks[i + 2]), val |-> toks[i + 3], active |-> TRUE]
  ELSE [col |-> <<>>, op |-> "", val |-> <<>>, active |-> FALSE]
after_where(toks, i) == IF Is(toks, i, "WHERE") THEN i + 4 ELSE i
limit_at(toks, i) == IF Is(toks, i, "LIMIT") THEN stoi(toks[i + 1]) ELSE -1

(* A reference to a column, cut at its first dot.                          *)
split_ref(ref) ==
  LET dots == {i \in 1 .. Len(ref) : ref[i] = "."}
  IN  IF dots = {} THEN [table |-> <<>>, name |-> ref]
      ELSE [table |-> SubSeq(ref, 1, Sets!Min(dots) - 1),
            name |-> SubSeq(ref, Sets!Min(dots) + 1, Len(ref))]

-----------------------------------------------------------------------------
(* The statement that is run: [kind, stmt], with the stmt of SQLEngine.    *)
Failed == [kind |-> "error"]
Parsed(kind, stmt) == [kind |-> kind, stmt |-> stmt]

type_of(tok) ==
  CASE to_upper(tok) \in {<<"INT">>, <<"INTEGER">>} -> "INT"
    [] to_upper(tok) \in {<<"TEXT">>, <<"VARCHAR">>} -> "TEXT"
    [] OTHER -> "unknown"

(* The columns of CREATE TABLE: the one at token i and where the next may  *)
(* be, and those from token start on.  The cast of TEXT(n) to 16 bits is   *)
(* made where the number is written.                                       *)
column_at(toks, i) ==
  LET type  == IF i < Len(toks) THEN type_of(toks[i + 1]) ELSE "unknown"
      paren == type = "TEXT" /\ Is(toks, i + 2, "(")
      sized == paren /\ i + 3 <= Len(toks) /\ ~Is(toks, i + 3, ")")
      size  == IF sized THEN stoi(toks[i + 3]) ELSE IF type = "INT" THEN 4 ELSE 255
      last  == i + (IF sized THEN 4 ELSE IF paren THEN 3 ELSE 2)
      next  == IF paren THEN Skip(toks, last, ")") ELSE last
  IN  [col |-> [name |-> toks[i], type |-> type, max_len |-> size],
       next |-> Skip(toks, next, ",")]

columns(toks, start) ==
  LET from[i \in Nat] ==
        IF i > Len(toks) \/ Is(toks, i, ")") THEN <<>>
        ELSE <<column_at(toks, i).col>> \o from[column_at(toks, i).next]
  IN  from[start]

exec_create(toks) ==
  LET cols == columns(toks, 5)
  IN  IF /\ Is(toks, 1, "CREATE") /\ Is(toks, 2, "TABLE") /\ Is(toks, 4, "(")
         /\ \A c \in DOMAIN cols : cols[c].type # "unknown" /\ cols[c].max_len # NaN
      THEN Parsed("create", [table |-> toks[3], cols |-> cols])
      ELSE Failed

exec_insert(toks) ==
  LET named  == list(toks, 5, ")")
      values == IF Is(toks, 4, "(") THEN named.next + 1 ELSE 4
  IN  IF /\ Is(toks, 1, "INSERT") /\ Is(toks, 2, "INTO")
         /\ Is(toks, values, "VALUES") /\ Is(toks, values + 1, "(")
      THEN Parsed("insert", [table |-> toks[3],
                             cols  |-> IF Is(toks, 4, "(") THEN named.items ELSE <<>>,
                             vals  |-> list(toks, values + 2, ")").items])
      ELSE Failed

exec_delete(toks) ==
  IF Is(toks, 1, "DELETE") /\ Is(toks, 2, "FROM") /\ Len(toks) > 2
  THEN Parsed("delete", [table |-> toks[3], where |-> where_at(toks, 4)])
  ELSE Failed

(* The list after SELECT, <<>> for *, and the position of its FROM.        *)
selected(toks) ==
  IF Is(toks, 2, "*") THEN [items |-> <<>>, next |-> 3] ELSE list(toks, 2, "FROM")

exec_select(toks) ==
  LET sel   == selected(toks)
      f     == sel.next
      limit == limit_at(toks, after_where(toks, f + 2))
  IN  IF Is(toks, 1, "SELECT") /\ Is(toks, f, "FROM") /\ limit # NaN
      THEN Parsed("select", [table |-> toks[f + 1], cols |-> sel.items,
                             where |-> where_at(toks, f + 2), limit |-> limit])
      ELSE Failed

(* f is the FROM, j the JOIN; ON, the references and = follow the table.   *)
exec_join(toks) ==
  LET sel   == selected(toks)
      f     == sel.next
      j     == Skip(toks, f + 2, "INNER")
      limit == limit_at(toks, after_where(toks, j + 6))
      refs(items) == [i \in DOMAIN items |-> split_ref(items[i])]
  IN  IF /\ Is(toks, 1, "SELECT") /\ Is(toks, f, "FROM") /\ Is(toks, j, "JOIN")
         /\ Is(toks, j + 2, "ON") /\ Is(toks, j + 4, "=") /\ limit # NaN
      THEN Parsed("join", [left |-> toks[f + 1], right |-> toks[j + 1],
                           on |-> <<split_ref(toks[j + 3]), split_ref(toks[j + 5])>>,
                           cols |-> refs(sel.items), limit |-> limit,
                           where |-> [where_at(toks, j + 6) EXCEPT !.col = split_ref(@)]])
      ELSE Failed

(* exec, up to the choice of the executor.                                 *)
exec(raw) ==
  LET t    == trim(raw)
      sql  == IF t # <<>> /\ Seqs!Last(t) = ";" THEN Seqs!Front(t) ELSE t
      toks == tokenize(sql)
      word == to_upper(SubSeq(sql, 1, 1))
  IN  IF sql = <<>> THEN [kind |-> "none"]
      ELSE CASE word = <<"CREATE">> -> exec_create(toks)
             [] word = <<"INSERT">> -> exec_insert(toks)
             [] word = <<"DELETE">> -> exec_delete(toks)
             [] word = <<"SELECT">> -> IF \E i \in DOMAIN toks : Is(toks, i, "JOIN")
                                       THEN exec_join(toks) ELSE exec_select(toks)
             [] OTHER -> Failed
=============================================================================
