---------------------------- MODULE MCSQLEngine ----------------------------
(* Two tables with the same column names in opposite orders; a few texts,  *)
(* among them two that read as the same number and one that is no number.  *)
EXTENDS SQLEngine

MCName == {"t1", "t2"}
TextOrder == <<"", "01", "1", "2", "x">>
MCText == {TextOrder[i] : i \in 1 .. Len(TextOrder)}
MCTextBefore(s, t) ==
  \E i, j \in 1 .. Len(TextOrder) : i < j /\ TextOrder[i] = s /\ TextOrder[j] = t
MCstoi(s) == IF s \in {"01", "1"} THEN 1 ELSE IF s = "2" THEN 2
             ELSE IF s = "0" THEN 0 ELSE NaN
MCto_text(n) == <<"0", "1", "2">>[n + 1]

id == [name |-> "id", type |-> "INT"]
nm == [name |-> "nm", type |-> "TEXT"]
MCSchema == [n \in MCName |-> IF n = "t1" THEN {<<id, nm>>, <<nm, id>>} ELSE {<<nm, id>>}]

Cond(col, op, val) == [col |-> col, op |-> op, val |-> val, active |-> TRUE]
Ref(n, c) == [table |-> n, name |-> c]

MCInserts ==
  {[table |-> "t1", cols |-> c, vals |-> v] : c \in {<<>>, <<"nm", "id">>},
                                             v \in {<<"1", "2">>, <<"2", "x">>}}
    \cup {[table |-> "t1", cols |-> <<"id">>, vals |-> <<"2", "x">>],
          [table |-> "t1", cols |-> <<"zz">>, vals |-> <<"1">>],
          [table |-> "t2", cols |-> <<>>, vals |-> <<"01", "2">>],
          [table |-> "t2", cols |-> <<>>, vals |-> <<"2", "2">>],
          [table |-> "t2", cols |-> <<>>, vals |-> <<"x">>]}

MCDeletes ==
  {[table |-> "t1", where |-> w] :
     w \in {Cond("id", "=", "2"), Cond("id", "<=", "1"), Cond("nm", "!=", "x"),
            Cond("nm", ">", "1"), Cond("id", "=", "x"), Cond("zz", "=", "1")}}
    \cup {[table |-> "t2", where |-> Everything]}

MCSelects ==
  {[table |-> "t1", cols |-> <<>>, where |-> w, limit |-> l] :
     w \in {Everything, Cond("id", ">=", "2"), Cond("id", "=", "2"), Cond("nm", "<", "x")},
     l \in {-1, 1, 2}}
    \cup {[table |-> "t1", cols |-> c, where |-> Cond("nm", "!=", "1"), limit |-> -1] :
            c \in {<<"nm", "id", "nm">>, <<"zz">>}}

NoWhere == [Everything EXCEPT !.col = Ref("", "")]
MCJoins ==
  {[left |-> "t1", right |-> "t2", on |-> on, cols |-> <<>>, where |-> w, limit |-> l] :
     on \in {<<Ref("t1", "id"), Ref("t2", "id")>>, <<Ref("t2", "nm"), Ref("t1", "id")>>},
     w \in {NoWhere, Cond(Ref("t2", "id"), "<", "2"), Cond(Ref("t1", "nm"), "=", "x")},
     l \in {-1, 1}}
    \cup {[left |-> "t1", right |-> "t2", on |-> <<Ref("t1", "id"), Ref("t2", "id")>>,
           cols |-> <<Ref("t2", "nm"), Ref(n, "nm")>>, where |-> NoWhere, limit |-> -1] :
            n \in {"t1", ""}}
    \cup {[left |-> "t1", right |-> "t2", on |-> <<Ref("t1", "id"), Ref("t2", "id")>>,
           cols |-> <<>>, where |-> Cond(Ref("", "id"), "<", "2"), limit |-> -1]}

ASSUME ComparedAlike

(* SELECTs by the first column.                                            *)
PointSelects ==
  {[table |-> "t1", cols |-> <<>>, where |-> Cond("id", "=", v), limit |-> -1] :
     v \in {"1", "2"}}
None == {}
=============================================================================
