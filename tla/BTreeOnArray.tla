---------------------------- MODULE BTreeOnArray ----------------------------
(***************************************************************************)
(* The B-tree over the simplest memory there is: an array of pages that is *)
(* never evicted, whose every write is at once on disk.                    *)
(***************************************************************************)
EXTENDS BTree

flat == [page |-> [p \in 0 .. LastPage |-> Blank], next_page_id |-> 0]
flat_fetch(m, p) ==
  [m EXCEPT !.next_page_id = IF p >= @ THEN p + 1 ELSE @]
flat_put(m, p, c) == [m EXCEPT !.page[p] = c]
flat_mark(m, p) == m
flat_pages(m) == m.page
flat_restart(m) == m
=============================================================================
