------------------------------ MODULE MCBTree ------------------------------
(* The B-tree over a flat array of pages, nodes of two cells.              *)
EXTENDS BTreeOnArray
CONSTANTS v1, v2, Keys2, Keys1, RemovedKeys

MCCalls ==
  [name : {"insert"}, key : Keys1, val : {v1}]
    \cup [name : {"insert"}, key : Keys2, val : {v1, v2}]
    \cup [name : {"remove"}, key : RemovedKeys, val : {v1}]
    \cup [name : {"find"}, key : Keys1 \cup Keys2, val : {v1}]
=============================================================================
