------------------------------ MODULE MCTable ------------------------------
(* A table of up to three heap pages of 20 or 24 bytes, which take one to  *)
(* three rows each; the longest row fits on no page.                       *)
EXTENDS Table
CONSTANTS a, b
short == <<a>>
medium == <<b, a, b>>
long == [i \in 1 .. 17 |-> b]
MCRow == {short, medium, long}
FewRows == {short, medium}
MCPredicate == {{short}, {short, medium}}
FewPredicates == {{short}}
=============================================================================
