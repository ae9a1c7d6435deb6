----------------------------- MODULE BTreeNode -----------------------------
(***************************************************************************)
(* One page of the B-tree, and what each step of the tree makes of it.     *)
(*                                                                         *)
(* A node is its type and root flags, its cells (a key and a value, or a   *)
(* key and the child left of it) and link, the one header field that holds *)
(* the rightmost child of an internal node and the next leaf of a leaf.    *)
(* num_cells is Len(cells).  Slots count from 0, as in the code.           *)
(***************************************************************************)
EXTENDS Naturals, Sequences
Seqs == INSTANCE SequencesExt

CONSTANTS MaxCells,    \* NODE_MAX_CELLS, 510 in the code
          Tombstone,   \* BTREE_TOMBSTONE, the value of a removed key
          NoLeaf       \* INVALID_PAGE_ID, the link of the last leaf

(* With one cell a split would leave an internal node without a key.       *)
ASSUME MaxCellsAssumption == MaxCells \in Nat /\ MaxCells >= 2

(* A page of zeroes, read as a node.                                       *)
Blank == [type |-> "internal", root |-> FALSE, cells |-> <<>>, link |-> 0]

initialize_as_leaf(r) ==
  [type |-> "leaf", root |-> r, cells |-> <<>>, link |-> NoLeaf]

num_cells(n) == Len(n.cells)
get_key(n, slot) == n.cells[slot + 1].key
get_value(n, slot) == n.cells[slot + 1].val
(* Mutant: a full node takes one cell more.                                *)
Full_off_by_one(n) == num_cells(n) > MaxCells

Full(n) == num_cells(n) >= MaxCells

Keys(n) == [i \in 1 .. Len(n.cells) |-> n.cells[i].key]
Children(n) == Append([i \in 1 .. Len(n.cells) |-> n.cells[i].val], n.link)

(* An internal node with these keys and one child more.                    *)
Internal(root, keys, children) ==
  [type |-> "internal", root |-> root,
   cells |-> [i \in 1 .. Len(keys) |-> [key |-> keys[i], val |-> children[i]]],
   link |-> children[Len(keys) + 1]]

-----------------------------------------------------------------------------
(* leaf_node_find, the loop as the code runs it on any content: min and    *)
(* max close in on the slot.                                               *)
Interval(n) == {w \in (0 .. num_cells(n)) \X (0 .. num_cells(n)) : w[1] <= w[2]}
leaf_node_find(n, key) ==
  LET search[w \in Interval(n)] ==
        LET min == w[1]
            max == w[2]
            mid == (min + max) \div 2
        IN  IF min = max THEN min
            ELSE IF key = get_key(n, mid) THEN mid
            ELSE IF key < get_key(n, mid) THEN search[<<min, mid>>]
            ELSE search[<<mid + 1, max>>]
  IN  search[<<0, num_cells(n)>>]

Holds(n, key) ==
  LET idx == leaf_node_find(n, key)
  IN  idx < num_cells(n) /\ get_key(n, idx) = key

(* Mutant: a key equal to a separator is looked for on its left.           *)
child_slot_inclusive(n, key) ==
  LET beyond == {i \in 0 .. num_cells(n) - 1 : key <= get_key(n, i)}
  IN  IF beyond = {} THEN num_cells(n)
      ELSE CHOOSE i \in beyond : \A j \in beyond : i <= j

(* The first child whose separator is beyond key, else the rightmost.      *)
child_slot(n, key) ==
  LET beyond == {i \in 0 .. num_cells(n) - 1 : key < get_key(n, i)}
  IN  IF beyond = {} THEN num_cells(n)
      ELSE CHOOSE i \in beyond : \A j \in beyond : i <= j

set_value(n, key, v) ==
  [n EXCEPT !.cells[leaf_node_find(n, key) + 1].val = v]

insert_cell(n, key, v) ==
  [n EXCEPT !.cells = Seqs!InsertAt(@, leaf_node_find(n, key) + 1,
                               [key |-> key, val |-> v])]

(* A full leaf and one cell more, cut in two: the old page keeps the lower *)
(* half and the new one, on page new_id, goes behind it in the leaf chain. *)
split_left(n, key, v, new_id) ==
  LET split == (MaxCells + 1) \div 2
  IN  [n EXCEPT !.cells = SubSeq(insert_cell(n, key, v).cells, 1, split),
                !.link = new_id]

(* Mutant: the new leaf forgets the leaf behind it.                        *)
split_right_unlinked(n, key, v) ==
  LET split == (MaxCells + 1) \div 2
  IN  [initialize_as_leaf(FALSE) EXCEPT
         !.cells = SubSeq(insert_cell(n, key, v).cells, split + 1, MaxCells + 1)]

split_right(n, key, v) ==
  LET split == (MaxCells + 1) \div 2
  IN  [initialize_as_leaf(FALSE) EXCEPT
         !.cells = SubSeq(insert_cell(n, key, v).cells, split + 1, MaxCells + 1),
         !.link = n.link]

(* Mutant: the new child goes in front of the one that has split.          *)
insert_child_in_front(n, slot, sep_key, right) ==
  Internal(n.root, Seqs!InsertAt(Keys(n), slot + 1, sep_key),
                   Seqs!InsertAt(Children(n), slot + 1, right))

(* The child in slot has split: right goes next to it, behind sep_key.     *)
insert_child(n, slot, sep_key, right) ==
  Internal(n.root, Seqs!InsertAt(Keys(n), slot + 1, sep_key),
                   Seqs!InsertAt(Children(n), slot + 2, right))

(* Mutant: the middle of an internal split is rounded down too far.        *)
Middle_low == (MaxCells - 1) \div 2

(* An internal node with one key too many, cut in two around pushed_key.   *)
Middle == (MaxCells + 1) \div 2
pushed_key(over) == get_key(over, Middle)
internal_left(over) ==
  Internal(FALSE, SubSeq(Keys(over), 1, Middle),
                  SubSeq(Children(over), 1, Middle + 1))

(* Mutant: the right half starts at the left half's last child.            *)
internal_right_overlap(over) ==
  Internal(FALSE, SubSeq(Keys(over), Middle + 2, MaxCells + 1),
                  SubSeq(Children(over), Middle + 1, MaxCells + 1))

internal_right(over) ==
  Internal(FALSE, SubSeq(Keys(over), Middle + 2, MaxCells + 1),
                  SubSeq(Children(over), Middle + 2, MaxCells + 2))
=============================================================================
