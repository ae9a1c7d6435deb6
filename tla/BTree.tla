------------------------------- MODULE BTree -------------------------------
(***************************************************************************)
(* The B-tree index.  A call of insert, remove or find runs as a sequence  *)
(* of steps, each of which fetches at most one page of the pool, for that  *)
(* is where the pool may evict another page whose pointer the call holds.  *)
(*                                                                         *)
(* The tree is written over any memory of pages: the operators below stand *)
(* for the methods of BufferPool.  BTreeOnArray has them for a flat array, *)
(* BTreeOnPool those of module BufferPool.                                 *)
(***************************************************************************)
EXTENDS BTreeNode, FiniteSets

CONSTANTS
  LastPage,        \* bound: the largest page number of a run
  KeyLimit,        \* one more than the largest key, 2^32 in the code
  EmptyFile,       \* BufferPool over a new Pager
  Fetch(_, _),     \* the memory after get_page(p)
  Put(_, _, _),    \* ... after c was written through the pointer to page p
  Mark(_, _),      \* ... after mark_dirty(p)
  Pages(_),        \* what a reader of each page sees
  Restart(_),      \* the memory after the file was closed and opened again
  Calls            \* the calls a run makes: [name, key, val]

ASSUME LastPageAssumption == LastPage \in Nat
ASSUME CallsAssumption ==
  /\ KeyLimit \in Nat \ {0}
  /\ Calls \subseteq [name : {"insert", "remove", "find"}, key : 0 .. KeyLimit - 1,
                      val : {c.val : c \in Calls}]
(* The table never stores BTREE_TOMBSTONE, and no page has number -1.      *)
ASSUME MarkersAssumption ==
  Tombstone \notin {c.val : c \in Calls} /\ NoLeaf \notin 0 .. LastPage

VARIABLES
  mem,         \* the memory of pages; mem.next_page_id numbers a new one
  pc,          \* what the call in progress does next; "rest" between calls
  call,        \* the call in progress or the last one
  cur,         \* cur_id, node_id: the page at work
  ancestors,   \* insert's stack of <<page, slot>>, the root first
  sep_key,     \* the separator and the page that a split hands
  right_id,    \*   to the parent
  left_id,     \* the page the left half of the root has moved to
  over,        \* new_keys and new_ch of an internal split, as a node
  ret,         \* what the last call returned
  before,      \* history: the entries when the call in progress began
  touched      \* history: pages read or written since the last fetch

locals == <<call, cur, ancestors, sep_key, right_id, left_id, over>>
vars == <<mem, pc, locals, ret, before, touched>>

Page == 0 .. LastPage
root_page_id == 0
node == Pages(mem)[cur]
NoPage == 0
NoCall == [name |-> "none", key |-> 0, val |-> Tombstone]

-----------------------------------------------------------------------------
(* Reading the tree: the pages below the root, and the live cells.         *)

ChildrenOf(page, P) ==
  UNION {LET c == Children(page[p]) IN {c[i] : i \in 1 .. Len(c)} :
         p \in {q \in P : page[q].type = "internal"}}

(* Level(page, top)[d]: the pages d levels below page top.                 *)
Level(page, top) ==
  LET L[d \in 0 .. LastPage + 1] ==
        IF d = 0 THEN {top} ELSE ChildrenOf(page, L[d - 1])
  IN  L

Below(page, top) == UNION {Level(page, top)[d] : d \in 0 .. LastPage + 1}
LeavesBelow(page, top) == {p \in Below(page, top) : page[p].type = "leaf"}
Reachable(page) == Below(page, root_page_id)
Leaves(page) == LeavesBelow(page, root_page_id)

Entries(page) ==
  {<<e.key, e.val>> : e \in
     {c \in UNION {{page[p].cells[i] : i \in 1 .. Len(page[p].cells)} :
                   p \in Leaves(page)} : c.val # Tombstone}}

(* BTree::BTree over an empty file, which reads page 0 and makes it a leaf.*)
Init ==
  /\ mem = Mark(Put(Fetch(EmptyFile, root_page_id), root_page_id,
                            initialize_as_leaf(TRUE)), root_page_id)
  /\ pc = "rest" /\ call = NoCall
  /\ cur = NoPage /\ ancestors = <<>> /\ sep_key = 0 /\ right_id = NoPage
  /\ left_id = NoPage /\ over = Blank
  /\ ret = "void" /\ before = {} /\ touched = {}

(* The caller's side.  The table inserts each rowid once, so no full leaf  *)
(* holds the key it inserts.  Inserted there, a key would get a second     *)
(* cell (the test for room precedes the search): not followed here.        *)
NotInFullLeaf(k) ==
  \A p \in Leaves(Pages(mem)) :
    Full(Pages(mem)[p]) => ~Holds(Pages(mem)[p], k)

Call(c) ==
  /\ pc = "rest"
  /\ c.name = "insert" => NotInFullLeaf(c.key)
  /\ pc' = "descend" /\ call' = c
  /\ mem' = Fetch(mem, root_page_id) /\ cur' = root_page_id
  /\ before' = Entries(Pages(mem)) /\ touched' = {}
  /\ UNCHANGED <<ancestors, sep_key, right_id, left_id, over, ret>>

Return(r) ==
  /\ pc' = "rest" /\ ret' = r /\ call' = NoCall
  /\ cur' = NoPage /\ ancestors' = <<>> /\ sep_key' = 0 /\ right_id' = NoPage
  /\ left_id' = NoPage /\ over' = Blank /\ before' = {}

Descend ==
  /\ pc = "descend" /\ node.type = "internal"
  /\ LET slot == child_slot(node, call.key)
         next == Children(node)[slot + 1]
     IN  /\ mem' = Fetch(mem, next) /\ cur' = next
         /\ ancestors' = IF call.name = "insert"
                         THEN Append(ancestors, <<cur, slot>>) ELSE <<>>
  /\ touched' = {}
  /\ UNCHANGED <<pc, call, sep_key, right_id, left_id, over, ret, before>>

AtLeaf(name) == pc = "descend" /\ node.type = "leaf" /\ call.name = name

Find ==
  /\ AtLeaf("find")
  /\ Return(IF /\ Holds(node, call.key)
               /\ get_value(node, leaf_node_find(node, call.key)) # Tombstone
            THEN get_value(node, leaf_node_find(node, call.key))
            ELSE "none")
  /\ touched' = {cur}
  /\ UNCHANGED mem

(* Mutant: the tombstone is written to the cached page and not marked.     *)
Remove_unmarked ==
  /\ AtLeaf("remove")
  /\ IF /\ Holds(node, call.key)
        /\ get_value(node, leaf_node_find(node, call.key)) # Tombstone
     THEN /\ mem' = Put(mem, cur, set_value(node, call.key, Tombstone))
          /\ Return("true")
     ELSE UNCHANGED mem /\ Return("false")
  /\ touched' = {cur}

Remove ==
  /\ AtLeaf("remove")
  /\ IF /\ Holds(node, call.key)
        /\ get_value(node, leaf_node_find(node, call.key)) # Tombstone
     THEN /\ mem' = Mark(Put(mem, cur,
                        set_value(node, call.key, Tombstone)), cur)
          /\ Return("true")
     ELSE UNCHANGED mem /\ Return("false")
  /\ touched' = {cur}

InsertInLeaf ==
  /\ AtLeaf("insert") /\ ~Full(node)
  /\ LET n == IF Holds(node, call.key) THEN set_value(node, call.key, call.val)
              ELSE insert_cell(node, call.key, call.val)
     IN  mem' = Mark(Put(mem, cur, n), cur)
  /\ touched' = {cur}
  /\ Return("void")

(* get_unused_page_num, and the fetch of the page it hands out.            *)
Room == mem.next_page_id \in Page
NewPage(m) == [m EXCEPT !.next_page_id = @ + 1]
FetchNew(m) == Fetch(NewPage(m), m.next_page_id)

(* leaf_node_split_and_insert, up to its call of another method.           *)
SplitLeaf ==
  /\ AtLeaf("insert") /\ Full(node) /\ Room
  /\ LET new_id == mem.next_page_id
         left   == split_left(node, call.key, call.val, new_id)
         right  == split_right(node, call.key, call.val)
         m      == Put(Put(FetchNew(mem), cur, left), new_id, right)
     IN  /\ mem' = Mark(Mark(m, cur), new_id)
         /\ sep_key' = get_key(right, 0) /\ right_id' = new_id
         /\ touched' = {cur, new_id}
  /\ pc' = IF node.root THEN "new_root" ELSE "parent"
  /\ UNCHANGED <<call, cur, ancestors, left_id, over, ret, before>>

(* create_new_root: the old root moves to a new page ...                   *)
NewRootCopy ==
  /\ pc = "new_root" /\ Room
  /\ left_id' = mem.next_page_id
  /\ LET m == Mark(Put(FetchNew(mem), left_id',
                       [node EXCEPT !.root = FALSE]), left_id')
     IN  mem' = Put(m, cur, [node EXCEPT !.type = "internal", !.root = TRUE,
                                         !.cells = SubSeq(@, 1, 1)])
  /\ touched' = {cur, left_id'}
  /\ pc' = "link_root"
  /\ UNCHANGED <<call, cur, ancestors, sep_key, right_id, over, ret, before>>

(* Mutant: the root is linked to itself in place of its copy.              *)
NewRootLink_to_itself ==
  /\ pc = "link_root"
  /\ LET right == Pages(Fetch(mem, right_id))[right_id]
         root  == Internal(TRUE, <<get_key(right, 0)>>, <<cur, right_id>>)
     IN  mem' = Mark(Put(Fetch(mem, right_id), cur, root), cur)
  /\ touched' = {cur, right_id}
  /\ Return("void")

(* ... and page 0 becomes the parent of the two halves.                    *)
NewRootLink ==
  /\ pc = "link_root"
  /\ LET right == Pages(Fetch(mem, right_id))[right_id]
         root  == Internal(TRUE, <<get_key(right, 0)>>, <<left_id, right_id>>)
     IN  mem' = Mark(Put(Fetch(mem, right_id), cur, root), cur)
  /\ touched' = {cur, right_id}
  /\ Return("void")

(* insert_into_parent.  A full parent is fetched again to be split, which  *)
(* changes nothing; its left half is written in place and marked later.    *)
InsertIntoParent ==
  /\ pc = "parent"
  /\ LET parent_id == ancestors[Len(ancestors)][1]
         slot      == ancestors[Len(ancestors)][2]
         m         == Fetch(mem, parent_id)
         parent    == Pages(m)[parent_id]
         key_slot  == child_slot(parent, sep_key)
     IN  /\ touched' = {parent_id}
         /\ \/ /\ ~Full(parent)
               /\ mem' = Mark(Put(m, parent_id,
                            insert_child(parent, slot, sep_key, right_id)),
                            parent_id)
               /\ Return("void")
            \/ /\ Full(parent)
               /\ over' = insert_child(parent, key_slot, sep_key, right_id)
               /\ mem' = Put(m, parent_id, internal_left(over'))
               /\ cur' = parent_id
               /\ ancestors' = SubSeq(ancestors, 1, Len(ancestors) - 1)
               /\ pc' = "split_internal"
               /\ UNCHANGED <<call, sep_key, right_id, left_id, ret, before>>

(* internal_node_split_and_insert: the right half goes to a new page; a    *)
(* node other than the root is marked, and its parent gets the middle key. *)
SplitInternal ==
  /\ pc = "split_internal" /\ Room
  /\ LET new_id == mem.next_page_id
         m == Mark(Put(FetchNew(mem), new_id,
                               internal_right(over)), new_id)
     IN  /\ right_id' = new_id
         /\ IF over.root
            THEN mem' = m /\ touched' = {new_id} /\ pc' = "split_root"
            ELSE /\ mem' = Mark(m, cur) /\ touched' = {new_id, cur}
                 /\ pc' = "parent"
  /\ sep_key' = pushed_key(over)
  /\ UNCHANGED <<call, cur, ancestors, left_id, over, ret, before>>

(* The root's left half moves to a new page, below a new root on page 0.   *)
SplitRoot ==
  /\ pc = "split_root" /\ Room
  /\ LET left == mem.next_page_id
         m    == Mark(Put(FetchNew(mem), left, node), left)
         root == Internal(TRUE, <<sep_key>>, <<left, right_id>>)
     IN  /\ mem' = Mark(Put(m, cur, root), cur)
         /\ touched' = {left, cur}
  /\ Return("void")

(* BufferPool and BTree destroyed and constructed again over the file.     *)
Reopen ==
  /\ pc = "rest"
  /\ mem' = Fetch(Restart(mem), root_page_id)
  /\ touched' = {}
  /\ UNCHANGED <<pc, locals, ret, before>>

Step == \/ Descend \/ Find \/ Remove \/ InsertInLeaf \/ SplitLeaf
        \/ NewRootCopy \/ NewRootLink \/ InsertIntoParent
        \/ SplitInternal \/ SplitRoot

Next == Step \/ Reopen \/ \E c \in Calls : Call(c)

(* The engine runs one thread, and a call that has begun is run on.        *)
Spec == Init /\ [][Next]_vars /\ WF_vars(Step)

-----------------------------------------------------------------------------
Value == {c.val : c \in Calls}
Node == [type : {"leaf", "internal"}, root : BOOLEAN,
         cells : Seq([key : Nat, val : Value \cup Page \cup {Tombstone}]),
         link : Page \cup {NoLeaf}]

AtRest == pc = "rest"
Tree == Pages(mem)

(* No page ever has more cells than fit.                                   *)
TypeOK ==
  /\ Tree \in [Page -> Node]
  /\ \A p \in Page : num_cells(Tree[p]) <= MaxCells
  /\ call \in Calls \cup {NoCall} /\ cur \in Page
  /\ ancestors \in Seq(Page \X (0 .. MaxCells))
  /\ sep_key \in Nat /\ right_id \in Page /\ left_id \in Page

(* The keys in the leaves below page p.                                    *)
KeysBelow(p) ==
  UNION {{get_key(Tree[q], s) : s \in 0 .. num_cells(Tree[q]) - 1} :
         q \in LeavesBelow(Tree, p)}

(* Between calls the pages are a search tree: the leaves are all at one    *)
(* depth, and every separator keeps the keys of the subtree on its left,   *)
(* which are smaller, from those on its right, which are not.  A split     *)
(* rebuilds up to one page per level and two at the root; the separator it *)
(* hands up is placed by slot in one branch and by key in the other.       *)
SearchTree ==
  AtRest =>
    /\ \A d \in 0 .. LastPage + 1 : \A p, q \in Level(Tree, root_page_id)[d] :
         Tree[p].type = Tree[q].type
    /\ \A p \in Reachable(Tree) \ Leaves(Tree) :
         \A s \in 0 .. num_cells(Tree[p]) - 1 :
           /\ \A k \in KeysBelow(Children(Tree[p])[s + 1]) : k < get_key(Tree[p], s)
           /\ \A k \in KeysBelow(Children(Tree[p])[s + 2]) : get_key(Tree[p], s) <= k

(* No page is lost or shared: between calls each page that was handed out  *)
(* is the child of one node in one slot, and only page 0 is the root.      *)
OneParent ==
  AtRest =>
    \A p \in 0 .. mem.next_page_id - 1 :
      /\ Tree[p].root <=> p = root_page_id
      /\ p # root_page_id =>
           Cardinality({w \in (Reachable(Tree) \ Leaves(Tree)) \X (1 .. MaxCells + 1) :
                          /\ w[2] <= num_cells(Tree[w[1]]) + 1
                          /\ Children(Tree[w[1]])[w[2]] = p}) = 1

(* The next-leaf links, which share their field with the rightmost child,  *)
(* visit the leaves in key order: between calls each leaf links to the one *)
(* with the next keys, through splits of leaves and of the root leaf.      *)
LeafChain ==
  AtRest =>
    \A p \in Leaves(Tree) :
      LET After == {q \in Leaves(Tree) :
                      \A j \in KeysBelow(p), k \in KeysBelow(q) : j < k} \ {p}
      IN  IF After = {} THEN Tree[p].link = NoLeaf
          ELSE /\ Tree[p].link \in After
               /\ \A q \in After, j \in KeysBelow(Tree[p].link) :
                    \E k \in KeysBelow(q) : j <= k

(* Splits leave both halves filled, so that the tree stays logarithmic and *)
(* no internal node is without a separator.                                *)
HalfFull ==
  AtRest =>
    \A p \in Reachable(Tree) \ {root_page_id} :
      num_cells(Tree[p]) >= MaxCells \div 2

(* The index implements a dictionary: each insert, remove and find takes   *)
(* effect at its return, as the operation it was called as, with the key   *)
(* and the value it was given (call), through every split in between; no   *)
(* entry is lost on the way, a removed key is not found, and may be        *)
(* inserted again.                                                         *)
Index == INSTANCE OrderedIndex
           WITH NotFound <- "none", asked <- call,
                dict <- IF AtRest THEN Entries(Tree) ELSE before
ImplementsIndex == Index!Spec

(* Every call returns: no descent runs into a cycle of pages.              *)
EveryCallReturns == ~AtRest ~> AtRest
=============================================================================
