----------------------------- MODULE MCSession -----------------------------
(* Two tables; bytes of 16 values.  The texts hold what the tokenizer and  *)
(* the prompt look for (blanks, quotes, separators, operators) and a text  *)
(* whose length takes two bytes; the numbers are of either sign.           *)
EXTENDS Session

MCName == {<<"t1">>, <<"t2">>}
MCNumber == [c \in {"-3", "0", "1", "2", "20"} |->
               CASE c = "-3" -> -3 [] c = "0" -> 0 [] c = "1" -> 1 [] c = "2" -> 2 [] c = "20" -> 20]
MCNumeral == [n \in {-3, 0, 1, 2, 20} |-> CHOOSE c \in DOMAIN MCNumber : MCNumber[c] = n]
Keywords == <<"CREATE", "TABLE", "INT", "TEXT", "INSERT", "INTO", "VALUES", "DELETE", "FROM",
              "WHERE", "SELECT", "LIMIT", "INNER", "JOIN", "ON">>
Lower == <<"create", "table", "int", "text", "insert", "into", "values", "delete", "from",
           "where", "select", "limit", "inner", "join", "on">>
MCUpper == [c \in {Lower[i] : i \in DOMAIN Lower} |->
              Keywords[CHOOSE i \in DOMAIN Lower : Lower[i] = c]]
Characters == <<" ", "(", ",", "-3", "0", "1", "2", "20", ";", "=", "id", "nm", "x">>
MCCode == [c \in {Characters[i] : i \in DOMAIN Characters} |->
             CHOOSE i \in DOMAIN Characters : Characters[i] = c]

id == <<"id">>
nm == <<"nm">>
t1 == <<"t1">>
t2 == <<"t2">>
IntCol(name) == [name |-> name, type |-> "INT", max_len |-> 4]
TextCol(name, n) == [name |-> name, type |-> "TEXT", max_len |-> n]
MCSchema == [n \in MCName |-> IF n = t1 THEN {<<IntCol(id), TextCol(nm, 20)>>}
                              ELSE {<<TextCol(nm, 255), IntCol(id)>>}]

separators == <<"x", ";", " ", ",", "(", "=", "x">>
long == [i \in 1 .. 17 |-> "x"]
MCInserts ==
  {[table |-> t1, cols |-> <<nm, id>>, vals |-> <<separators, <<"-3">>>>],
   [table |-> t1, cols |-> <<id>>, vals |-> <<<<"2">>>>],
   [table |-> t2, cols |-> <<>>, vals |-> <<long, <<"-3">>>>]}

Everywhere == [col |-> <<>>, op |-> "", val |-> <<>>, active |-> FALSE]
Cond(col, op, val) == [col |-> col, op |-> op, val |-> val, active |-> TRUE]
Ref(n, c) == [table |-> n, name |-> c]
MCDeletes ==
  {[table |-> t1, where |-> Cond(nm, "!=", separators)],
   [table |-> t2, where |-> Everywhere]}
MCSelects ==
  {[table |-> t1, cols |-> <<>>, where |-> Cond(id, "<=", <<"1">>), limit |-> 1],
   [table |-> t1, cols |-> <<nm, id>>, where |-> Cond(nm, ">", <<>>), limit |-> -1]}
MCJoins ==
  {[left |-> t1, right |-> t2, on |-> <<Ref(t2, id), Ref(t1, id)>>,
    cols |-> <<Ref(t1, nm), Ref(t2, nm)>>, where |-> Cond(Ref(t1, id), "<", <<"2">>),
    limit |-> 1]}
MCJunk == {<<".", "exit">>}

Plain == [lower |-> FALSE, quote |-> "'", unequal |-> <<"!", "=">>, inner |-> FALSE,
          before |-> {",", ";"}, after |-> {}, cut |-> 0, end |-> "semicolon"]
Tight == [lower |-> TRUE, quote |-> "\"", unequal |-> <<"<", ">">>, inner |-> TRUE,
          before |-> {"(", ")", ",", "'", "\""}, after |-> {"(", ")", ",", "=", "<", ">"},
          cut |-> 2, end |-> "semicolon on its own"]
MCLooks == {Plain, Tight, [Plain EXCEPT !.cut = 3, !.end = "blank line"]}

(* In these looks statements are read back.                                *)
ASSUME MCLooksAssumption == \A look \in MCLooks : Legible(look)

(* Operators without blanks around them.                                   *)
GluedLooks == {[Plain EXCEPT !.before = {",", "=", "<", ">", "!"},
                             !.after = {"=", "<", ">"}]}
GluedSelects ==
  {[table |-> t1, cols |-> <<>>, where |-> Cond(id, "=", <<"1">>), limit |-> 1]}
Empty == {}
=============================================================================
