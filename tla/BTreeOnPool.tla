---------------------------- MODULE BTreeOnPool ----------------------------
(***************************************************************************)
(* The B-tree over the buffer pool and the pager.                          *)
(***************************************************************************)
EXTENDS BTree

CONSTANT MaxPages   \* the capacity of the cache

(* The split of an internal root works with three pages at once.           *)
ASSUME CapacityAssumption == MaxPages \in Nat /\ MaxPages >= 3

Pool == INSTANCE BufferPool WITH Content <- Node, Zero <- Blank

pool_file == Pool!Open([p \in 0 .. LastPage |-> Blank], 0)
pool_fetch(b, p) == Pool!get_page(b, p)
pool_put(b, p, c) == Pool!store(b, p, c)
pool_mark(b, p) == Pool!mark_dirty(b, p)
pool_pages(b) == Pool!View(b)
pool_restart(b) == Pool!Restarted(b)

(* Every page that a step reads or writes through a pointer of the call is *)
(* still in the cache: get_page's eviction has freed none of them.  The    *)
(* split of an internal root works with three pages at once.               *)
NoDanglingPointer == touched \subseteq Pool!Cached(mem)

(* Between calls nothing is lost that the cache holds: a cached page that  *)
(* differs from the file is marked, so that eviction and flush write it.   *)
EveryWriteMarked ==
  AtRest =>
    \A p \in Pool!Cached(mem) :
      ~mem.entry[p].dirty => mem.entry[p].buffer = mem.disk[p]
=============================================================================
