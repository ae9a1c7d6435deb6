---------------------------- MODULE MCBTreeOnPool ----------------------------
(***************************************************************************)
(* The B-tree over the buffer pool and the pager, in a cache of as many    *)
(* pages as a call works with at once.  Contents of the tree that are not  *)
(* in use live on disk only.                                               *)
(***************************************************************************)
EXTENDS BTreeOnPool
CONSTANTS v1, v2, Keys1, Keys2, RemovedKeys, FoundKeys

MCCalls ==
  [name : {"insert"}, key : Keys1, val : {v1}]
    \cup [name : {"insert"}, key : Keys2, val : {v2}]
    \cup [name : {"remove"}, key : RemovedKeys, val : {v1}]
    \cup [name : {"find"}, key : FoundKeys, val : {v1}]
=============================================================================
