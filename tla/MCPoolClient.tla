--------------------------- MODULE MCPoolClient ---------------------------
(* A pool of two pages over a file of three, driven by any caller that     *)
(* works with at most two pages at once.                                   *)
EXTENDS PoolClient
CONSTANTS blank, c1
MCContent == {blank, c1}
=============================================================================
