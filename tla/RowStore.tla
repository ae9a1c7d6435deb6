------------------------------ MODULE RowStore ------------------------------
(***************************************************************************)
(* What a table promises to the SQL engine: a set of rows, each under a    *)
(* rowid of its own, through closing and opening the file.                 *)
(***************************************************************************)
EXTENDS Naturals, FiniteSets

CONSTANTS Rowid, Row,
          Predicate,   \* the sets of rows that a WHERE may select
          None         \* no row, or a failed insert

VARIABLES rows,        \* the set of <<rowid, row>>
          issued,      \* the rowids that were given out
          ret          \* the last answer: a rowid, a row, a count or None

vars == <<rows, issued, ret>>

Init == rows = {} /\ issued = {} /\ ret = None

(* A fresh rowid beyond all others, or an error that changes nothing.      *)
Insert(r) ==
  \/ \E rowid \in Rowid :
       /\ \A i \in issued : i < rowid
       /\ rows' = rows \cup {<<rowid, r>>}
       /\ issued' = issued \cup {rowid}
       /\ ret' = [rowid |-> rowid]
  \/ ret' = None /\ UNCHANGED <<rows, issued>>

DeleteWhere(P) ==
  /\ rows' = {e \in rows : e[2] \notin P}
  /\ ret' = [count |-> Cardinality(rows \ rows')]
  /\ UNCHANGED issued

Find(rowid) ==
  /\ ret' \in IF \E r \in Row : <<rowid, r>> \in rows
              THEN {[row |-> r] : r \in {s \in Row : <<rowid, s>> \in rows}}
              ELSE {None}
  /\ UNCHANGED <<rows, issued>>

Next ==
  \/ \E r \in Row : Insert(r)
  \/ \E P \in Predicate : DeleteWhere(P)
  \/ \E rowid \in Rowid : Find(rowid)

Spec == Init /\ [][Next]_vars
=============================================================================
