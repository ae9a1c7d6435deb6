------------------------------- MODULE Typing -------------------------------
(***************************************************************************)
(* How a user writes a statement, by the grammar in sql_engine.h 16-29: as *)
(* pieces (words, signs, literals), and these in one or more lines.  A     *)
(* look is one way to write: [lower, quote, unequal, inner, before, after, *)
(* cut, end].                                                              *)
(***************************************************************************)
EXTENDS Statements

CONSTANT Numeral  \* Numeral[n]: how the number n is written

Keyword == {"CREATE", "TABLE", "INT", "TEXT", "INSERT", "INTO", "VALUES", "DELETE", "FROM",
            "WHERE", "SELECT", "LIMIT", "INNER", "JOIN", "ON"}
Sign == WordEnd \cup Punctuation \cup {"!", "."}

(* A sign is no letter and no number, a number has no case, and a number   *)
(* that is read can be written.                                            *)
ASSUME CharactersAssumption ==
  /\ \A c \in DOMAIN Upper : {c, Upper[c]} \cap (Sign \cup DOMAIN Number) = {}
  /\ \A w \in Keyword : w \notin DOMAIN Upper /\ \E c \in DOMAIN Upper : Upper[c] = w
  /\ DOMAIN Number \cap (Sign \cup Keyword) = {} /\ NaN \notin Int
  /\ \A n \in {0} \cup {Number[c] : c \in DOMAIN Number} : n \in Int /\ n \in DOMAIN Numeral
  /\ \A n \in DOMAIN Numeral : Numeral[n] \in DOMAIN Number /\ Number[Numeral[n]] = n

(* How a statement is written: a sequence of pieces, each a text.          *)
Word(w, look) ==
  IF look.lower THEN <<CHOOSE c \in DOMAIN Upper : Upper[c] = w>> ELSE <<w>>
Literal(v, look) ==
  IF Len(v) = 1 /\ v[1] \in DOMAIN Number THEN v ELSE <<look.quote>> \o v \o <<look.quote>>
Reference(r) == IF r.table = <<>> THEN r.name ELSE r.table \o <<".">> \o r.name

Listed(items) == Seqs!FlattenSeq([i \in DOMAIN items |->
                   IF i = 1 THEN items[i] ELSE <<<<",">>>> \o items[i]])
Single(texts) == [i \in DOMAIN texts |-> <<texts[i]>>]
Parens(items) == <<<<"(">>>> \o Listed(items) \o <<<<")">>>>
Selected(texts) == IF texts = <<>> THEN <<<<"*">>>> ELSE Listed(Single(texts))

Operator(op, look) ==
  CASE op = "!=" -> look.unequal [] op = "<=" -> <<"<", "=">> [] op = ">=" -> <<">", "=">>
    [] OTHER -> <<op>>

Column(c, look) ==
  IF c.type = "INT" THEN <<c.name, Word("INT", look)>>
  ELSE <<c.name, Word("TEXT", look)>>
         \o IF c.max_len = 255 THEN <<>> ELSE <<<<"(">>, <<Numeral[c.max_len]>>, <<")">>>>

WhereLimit(col, q, look) ==
  (IF ~q.where.active THEN <<>>
   ELSE <<Word("WHERE", look), col, Operator(q.where.op, look), Literal(q.where.val, look)>>)
  \o IF q.limit = -1 THEN <<>> ELSE <<Word("LIMIT", look), <<Numeral[q.limit]>>>>

CreatePieces(q, look) ==
  <<Word("CREATE", look), Word("TABLE", look), q.table>>
    \o Parens([i \in DOMAIN q.cols |-> Column(q.cols[i], look)])

InsertPieces(q, look) ==
  <<Word("INSERT", look), Word("INTO", look), q.table>>
    \o (IF q.cols = <<>> THEN <<>> ELSE Parens(Single(q.cols)))
    \o <<Word("VALUES", look)>>
    \o Parens(Single([i \in DOMAIN q.vals |-> Literal(q.vals[i], look)]))

DeletePieces(q, look) ==
  <<Word("DELETE", look), Word("FROM", look), q.table>>
    \o WhereLimit(q.where.col, [where |-> q.where, limit |-> -1], look)

SelectPieces(q, look) ==
  <<Word("SELECT", look)>> \o Selected(q.cols) \o <<Word("FROM", look), q.table>>
    \o WhereLimit(q.where.col, q, look)

JoinPieces(q, look) ==
  <<Word("SELECT", look)>> \o Selected([i \in DOMAIN q.cols |-> Reference(q.cols[i])])
    \o <<Word("FROM", look), q.left>>
    \o (IF look.inner THEN <<Word("INNER", look)>> ELSE <<>>)
    \o <<Word("JOIN", look), q.right, Word("ON", look),
         Reference(q.on[1]), <<"=">>, Reference(q.on[2])>>
    \o WhereLimit(Reference(q.where.col), q, look)

Pieces(s, look) ==
  CASE s.kind = "create" -> CreatePieces(s.stmt, look)
    [] s.kind = "insert" -> InsertPieces(s.stmt, look)
    [] s.kind = "delete" -> DeletePieces(s.stmt, look)
    [] s.kind = "select" -> SelectPieces(s.stmt, look)
    [] s.kind = "join"   -> JoinPieces(s.stmt, look)

(* Pieces in one line: no blank before the signs of look.before, nor after *)
(* those of look.after.                                                    *)
Spaced(pieces, i, look) ==
  IF \/ i = 1 \/ Seqs!Last(pieces[i - 1]) \in look.after
     \/ pieces[i][1] \in look.before
  THEN pieces[i] ELSE <<Space>> \o pieces[i]

Joined(pieces, look) ==
  LET line[i \in 0 .. Len(pieces)] ==
        IF i = 0 THEN <<>> ELSE line[i - 1] \o Spaced(pieces, i, look)
  IN  line[Len(pieces)]

(* A new line after the first look.cut pieces, and the end: a semicolon,   *)
(* or lines of their own for one or for nothing.                           *)
Lines(s, look) ==
  LET all  == Pieces(s, look)
      body == IF look.cut = 0 THEN <<Joined(all, look)>>
              ELSE <<Joined(SubSeq(all, 1, look.cut), look),
                     Joined(SubSeq(all, look.cut + 1, Len(all)), look)>>
  IN  IF look.end = "semicolon" THEN Append(Seqs!Front(body), Append(Seqs!Last(body), ";"))
      ELSE Append(body, IF look.end = "blank line" THEN <<>> ELSE <<";">>)

-----------------------------------------------------------------------------
(* What is read back: words without signs in them, and the keywords only   *)
(* where they are not looked for.                                          *)
IsWord(t) ==
  /\ t # <<>> /\ t \in Seq({t[i] : i \in DOMAIN t})
  /\ \A i \in DOMAIN t : t[i] \notin Sign \ {"."}
Reads(t, w) == to_upper(t) = <<w>>

(* A dot in a reference is the one between a table and its column.         *)
IsReference(r) ==
  /\ r = [table |-> r.table, name |-> r.name] /\ IsWord(r.name)
  /\ r.table # <<>> => IsWord(r.table)
  /\ LET first == IF r.table = <<>> THEN r.name ELSE r.table
     IN  \A i \in DOMAIN first : first[i] # "."

(* The looks: words may touch what ends a word, and signs what follows     *)
(* them.                                                                   *)
IsLook(look) ==
  /\ look.quote \in Quotes /\ look.unequal \in {<<"!", "=">>, <<"<", ">">>}
  /\ look.before \subseteq WordEnd /\ look.after \subseteq Punctuation \cup Quotes
  /\ look.cut \in Nat

(* A value does not have the quote inside that is put around it, and the   *)
(* first of two lines has no semicolon.                                    *)
ValuesIn(s) ==
  IF s.kind = "create" THEN {}
  ELSE IF s.kind = "insert" THEN {s.stmt.vals[i] : i \in DOMAIN s.stmt.vals}
  ELSE {s.stmt.where.val}
Suits(look, s) ==
  LET all == Pieces(s, look)
  IN  /\ \A v \in ValuesIn(s) : \A i \in DOMAIN v : v[i] # look.quote
      /\ look.cut <= Len(all)
      /\ \A i \in 1 .. look.cut : \A j \in DOMAIN all[i] : all[i][j] # ";"
=============================================================================
