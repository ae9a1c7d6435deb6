------------------------------- MODULE Table -------------------------------
(***************************************************************************)
(* A table: rows in slotted heap pages, an index from rowids to heap       *)
(* slots, and a meta page with the next rowid and the current heap page,   *)
(* all in one file.  Every step fetches and changes what one call of the   *)
(* B-tree or one visit of a heap page or of the meta page changes.         *)
(*                                                                         *)
(* Below the table are the two components whose specifications it takes:   *)
(* the page array of PageStore (mem, versions: see PoolClient), and the    *)
(* dictionary of OrderedIndex, kept as the content of the root page.  That *)
(* content is one page, and so lost or kept as a whole in a crash, for     *)
(* tables of up to 510 rows; without crashes it stands for any tree.       *)
(*                                                                         *)
(* As in PageStore, a flush_all leaves the page that it wrote last in the  *)
(* buffer of the pager's stream, which dies with the process.              *)
(***************************************************************************)
EXTENDS SlottedPage, FiniteSets

CONSTANTS
  HEAP_PAGE_BASE,   \* 512
  SCHEMA_PAGE_ID,   \* 1023
  SLOTS,            \* 4096, the slots that pack_ptr tells apart
  Row,              \* rows, as the bytes that serialize_row makes of them
  Predicate,        \* the sets of rows that a WHERE may select
  None,             \* no row, or a failed insert
  Zero,             \* a page past the end of the file
  MaxRowid,         \* bound: the last rowid of a run
  MaxCrashes,       \* bound: the crashes of a run
  Exhaustion        \* TRUE: rows may be inserted when no heap page is left

ASSUME LayoutAssumption ==
  /\ HEAP_PAGE_BASE \in Nat /\ SCHEMA_PAGE_ID \in Nat
  /\ 0 < HEAP_PAGE_BASE /\ HEAP_PAGE_BASE < SCHEMA_PAGE_ID
(* The slots of a page have numbers that a pointer has room for.           *)
ASSUME SlotsAssumption ==
  SLOTS \in Nat \ {0} /\ PageSize - HeaderSize <= EntrySize * SLOTS
ASSUME RowAssumption == Row \subseteq Seq(Byte)
ASSUME BoundsAssumption == MaxRowid \in Nat /\ MaxCrashes \in Nat /\ Exhaustion \in BOOLEAN

VARIABLES
  mem,             \* what a reader of each page sees
  versions,        \* what each page has held since the last flush
  next_rowid,      \* members of Table
  cur_heap_page,
  pc,              \* what the call in progress does next
  row, slot,       \* insert_row: the row, and the slot it went to
  to_delete,       \* delete_where: the rowids it has still to delete,
                   \*   of which the least is the next (scan goes up),
  count,           \*   and how many it has deleted
  ret,             \* what the last call returned
  before,          \* history: the rows when the call in progress began
  issued,          \* history: the rowids returned since the file was created
  committed,       \* history: the rows at the last flush before the first
                   \*   crash, less those deleted since
  created,         \* history: "yes" when a CREATE TABLE has made the file,
                   \*   "kept" when it was then opened with its page 0
  crashes          \* history: the number of crashes

members == <<next_rowid, cur_heap_page>>
locals == <<row, slot, to_delete, count>>
vars == <<mem, versions, members, pc, locals, ret, before, issued,
          committed, created, crashes>>

root_page_id == 0
HeapPage == HEAP_PAGE_BASE .. SCHEMA_PAGE_ID - 1
Page == {root_page_id} \cup HeapPage \cup {SCHEMA_PAGE_ID}
Rowid == 1 .. MaxRowid
NoRow == <<>>

(* Mutant: a pointer without its page.                                     *)
pack_ptr_pageless(page_id, s) == s % SLOTS

pack_ptr(page_id, s) == (page_id - HEAP_PAGE_BASE) * SLOTS + (s % SLOTS)
ptr_page(packed) == (packed \div SLOTS) + HEAP_PAGE_BASE
ptr_slot(packed) == packed % SLOTS

(* The root page, with BTree::insert, remove and find on it: the calls of  *)
(* OrderedIndex.                                                           *)
Index(dict) == [dict |-> dict]
Without(index, key) == {e \in index.dict : e[1] # key}
index_insert(index, key, value) == Index(Without(index, key) \cup {<<key, value>>})
index_remove(index, key) == Index(Without(index, key))
Indexed(index, key) == index # Zero /\ \E e \in index.dict : e[1] = key
index_find(index, key) == (CHOOSE e \in index.dict : e[1] = key)[2]

(* get on the slot of a packed pointer.                                    *)
Fetch(m, packed) ==
  IF m[ptr_page(packed)] = Zero THEN NoRecord
  ELSE get(m[ptr_page(packed)], ptr_slot(packed))

(* The rows that scan calls back for.                                      *)
scan(m, next) ==
  {<<rid, Fetch(m, index_find(m[root_page_id], rid))>> :
     rid \in {i \in 1 .. next - 1 :
                /\ Indexed(m[root_page_id], i)
                /\ Fetch(m, index_find(m[root_page_id], i)) # NoRecord}}

(* heap_page: a page whose free_offset is 0 is made a slotted page.  That  *)
(* is a page of zeroes, or the meta page while rowids are below 2^16.      *)
heap_page(m, p) == IF m[p] = Zero \/ p = SCHEMA_PAGE_ID THEN init ELSE m[p]

(* Mutant: the two fields of the meta page are swapped.                    *)
Meta_swapped(next, cur) == [next_rowid |-> cur, cur_heap_page |-> next]

Meta(next, cur) == [next_rowid |-> next, cur_heap_page |-> cur]

(* A page of zeroes is none that a table writes.                           *)
ASSUME ZeroAssumption ==
  /\ Zero \notin [dict : SUBSET (Rowid \X Nat)]
  /\ Zero \notin [next_rowid : Nat, cur_heap_page : Nat]
  /\ Zero \notin [free_offset : 0 .. PageSize,
                  dir : Seq([offset : 0 .. PageSize, length : 0 .. PageSize]),
                  byte : [Offset -> Byte \cup {ZeroByte, EntryByte}]]

Write(m) ==
  /\ mem' = m
  /\ versions' = [p \in Page |-> {m[p]} \cup IF crashes < MaxCrashes
                                              THEN versions[p] ELSE {}]

Quiet == UNCHANGED <<issued, committed, created, crashes>>

-----------------------------------------------------------------------------
Init ==
  /\ mem = [p \in Page |-> Zero] /\ versions = [p \in Page |-> {Zero}]
  /\ next_rowid = 0 /\ cur_heap_page = 0
  /\ pc = "closed" /\ row = NoRow /\ slot = 0
  /\ to_delete = {} /\ count = 0
  /\ ret = None /\ before = {} /\ issued = {}
  /\ committed = {} /\ created = "no" /\ crashes = 0

(* A new file: BTree's and Table's constructors, up to flush_all.          *)
Create ==
  /\ pc = "closed" /\ \A p \in Page : mem[p] = Zero
  /\ next_rowid' = 1 /\ cur_heap_page' = HEAP_PAGE_BASE
  /\ Write([mem EXCEPT ![root_page_id] = Index({}), ![HEAP_PAGE_BASE] = init,
                       ![SCHEMA_PAGE_ID] = Meta(1, HEAP_PAGE_BASE)])
  /\ pc' = "flush"
  /\ UNCHANGED <<locals, ret, before>> /\ Quiet

(* read_meta.  On a file that a crash has left without its meta page both  *)
(* numbers read as 0.                                                      *)
read_meta(m) == IF m[SCHEMA_PAGE_ID] = Zero THEN Meta(0, 0) ELSE m[SCHEMA_PAGE_ID]

(* Mutant: the rowids of an existing table start again.                    *)
OpenTable_restarts ==
  /\ pc = "closed" /\ \E p \in Page : mem[p] # Zero
  /\ next_rowid' = 1
  /\ cur_heap_page' = read_meta(mem).cur_heap_page
  /\ pc' = "rest"
  /\ created' = IF created = "yes" /\ mem[root_page_id] # Zero THEN "kept" ELSE created
  /\ UNCHANGED <<mem, versions, locals, ret, before, issued, committed, crashes>>

(* An existing file, also one whose creation was cut short: any page of it *)
(* may be missing, and BTree's constructor does not make up for page 0.    *)
OpenTable ==
  /\ pc = "closed" /\ \E p \in Page : mem[p] # Zero
  /\ next_rowid' = read_meta(mem).next_rowid
  /\ cur_heap_page' = read_meta(mem).cur_heap_page
  /\ pc' = "rest"
  /\ created' = IF created = "yes" /\ mem[root_page_id] # Zero THEN "kept" ELSE created
  /\ UNCHANGED <<mem, versions, locals, ret, before, issued, committed, crashes>>

(* What FlushDone records besides the pages.                               *)
Flushed ==
  /\ pc \in {"flush", "closing"}
  /\ \/ pc = "flush" /\ pc' = "rest" /\ created' = "yes" /\ UNCHANGED members
     \/ pc = "closing" /\ pc' = "closed" /\ UNCHANGED created
        /\ next_rowid' = 0 /\ cur_heap_page' = 0
  /\ committed' = IF crashes = 0 THEN scan(mem, next_rowid) ELSE committed
  /\ UNCHANGED <<mem, locals, ret, before, issued, crashes>>

(* The pages that may be in the stream's buffer when flush_all returns.    *)
(* Table's constructor has fetched pages 0, HEAP_PAGE_BASE and             *)
(* SCHEMA_PAGE_ID, and the walk starts from the last; after ~Table's walk  *)
(* ~Pager flushes the stream.                                              *)
Buffered == IF pc = "flush" THEN {root_page_id} ELSE {}

(* Mutant: the walk of flush_all misses the first entry of the list, which *)
(* after a CREATE TABLE is the meta page.                                  *)
FlushDone_misses_first ==
  /\ Flushed
  /\ versions' = [p \in Page |->
       IF p \in Buffered \cup {SCHEMA_PAGE_ID} THEN versions[p] ELSE {mem[p]}]

(* Mutant: ~Pager does not flush the stream that holds the pages.          *)
FlushDone_unflushed == Flushed /\ UNCHANGED versions

(* The end of flush_all: what is in memory is what a crash brings back,    *)
(* save for the page in the stream's buffer.  That one is written with the *)
(* next access of the file; it is not followed when that is, and the page  *)
(* may come back old until the table is closed.                            *)
FlushDone ==
  /\ Flushed
  /\ versions' = [p \in Page |-> IF p \in Buffered THEN versions[p] ELSE {mem[p]}]

(* Table::~Table, up to flush_all.                                         *)
Close ==
  /\ pc = "rest"
  /\ Write([mem EXCEPT ![SCHEMA_PAGE_ID] = Meta(next_rowid, cur_heap_page)])
  /\ pc' = "closing"
  /\ before' = scan(mem, next_rowid)
  /\ UNCHANGED <<members, locals, ret>> /\ Quiet

(* The process dies.  Every page comes back as some version of itself.     *)
Crash ==
  /\ crashes < MaxCrashes /\ crashes' = crashes + 1
  /\ \E root \in versions[root_page_id], meta \in versions[SCHEMA_PAGE_ID],
        heap \in [HeapPage -> UNION {versions[p] : p \in HeapPage}] :
       /\ \A p \in HeapPage : heap[p] \in versions[p]
       /\ mem' = [p \in Page |-> IF p \in HeapPage THEN heap[p]
                                 ELSE IF p = root_page_id THEN root ELSE meta]
  /\ versions' = [p \in Page |-> {mem'[p]}]
  /\ next_rowid' = 0 /\ cur_heap_page' = 0
  /\ pc' = "closed" /\ row' = NoRow /\ slot' = 0
  /\ to_delete' = {} /\ count' = 0
  /\ before' = {} /\ UNCHANGED <<ret, issued, committed, created>>

-----------------------------------------------------------------------------
(* insert_row, up to its call of BTree::insert.                            *)
TooFull(p, r) == free_space(p) < Len(r) + EntrySize + 4

(* A table that was opened without its meta page inserts into page 0; that *)
(* is not followed.                                                        *)
InsertRow(r) ==
  /\ pc = "rest" /\ next_rowid <= MaxRowid /\ cur_heap_page # 0
  /\ Exhaustion \/ cur_heap_page + 1 < SCHEMA_PAGE_ID
  /\ LET cur   == cur_heap_page
         here  == [mem EXCEPT ![cur] = heap_page(mem, cur)]
         moves == TooFull(here[cur], r)
         page  == IF moves THEN cur + 1 ELSE cur
         none  == moves /\ page >= SCHEMA_PAGE_ID
         there == IF none THEN here ELSE [here EXCEPT ![page] = heap_page(here, page)]
         stored == ~none /\ fits(there[page], r)
     IN  /\ cur_heap_page' = page
         /\ \/ /\ ~stored   \* "out of heap pages", "slot insert failed"
               /\ Write(there) /\ ret' = None
               /\ UNCHANGED <<pc, locals, before>>
            \/ /\ stored
               /\ Write([there EXCEPT ![page] = insert(@, r)])
               /\ slot' = insert_result(there[page], r) /\ row' = r
               /\ pc' = "index" /\ before' = scan(mem, next_rowid)
               /\ UNCHANGED <<to_delete, count, ret>>
  /\ UNCHANGED next_rowid /\ Quiet

(* A page 0 of zeroes is an internal node without keys whose only child is *)
(* page 0: a descent of the B-tree goes round it forever.                  *)
Endless == mem[root_page_id] = Zero /\ pc' = "hang"
Spin == pc = "hang" /\ UNCHANGED vars

IndexRow ==
  /\ pc = "index" /\ next_rowid' = next_rowid + 1
  /\ \/ /\ mem[root_page_id] # Zero
        /\ Write([mem EXCEPT ![root_page_id] =
                    index_insert(@, next_rowid, pack_ptr(cur_heap_page, slot))])
        /\ pc' = "meta" /\ row' = NoRow /\ slot' = 0
     \/ Endless /\ UNCHANGED <<mem, versions, row, slot>>
  /\ UNCHANGED <<cur_heap_page, to_delete, count, ret, before>> /\ Quiet

WriteMeta ==
  /\ pc = "meta"
  /\ Write([mem EXCEPT ![SCHEMA_PAGE_ID] = Meta(next_rowid, cur_heap_page)])
  /\ ret' = [rowid |-> next_rowid - 1] /\ issued' = issued \cup {next_rowid - 1}
  /\ pc' = "rest" /\ before' = {}
  /\ UNCHANGED <<members, locals, committed, created, crashes>>

(* delete_where: the scan, which reads only, and then for each row it has  *)
(* collected delete_row, with a heap page to write and one of the index.   *)
DeleteWhere(P) ==
  /\ pc = "rest"
  /\ \/ /\ mem[root_page_id] # Zero \/ next_rowid <= 1
        /\ to_delete' = {e[1] : e \in {r \in scan(mem, next_rowid) : r[2] \in P}}
        /\ pc' = "delete" /\ before' = scan(mem, next_rowid)
     \/ next_rowid > 1 /\ Endless /\ UNCHANGED <<to_delete, before>>
  /\ UNCHANGED <<mem, versions, members, row, slot, count, ret>> /\ Quiet

(* The rowid whose turn it is.                                             *)
victim == CHOOSE rid \in to_delete : \A other \in to_delete : rid <= other

(* Mutant: the slot of a deleted row is not freed.                         *)
FreeSlot_kept ==
  /\ pc = "delete" /\ to_delete # {}
  /\ Indexed(mem[root_page_id], victim)
  /\ Write(mem)
  /\ pc' = "unindex"
  /\ committed' = {e \in committed : e[1] # victim}
  /\ UNCHANGED <<members, locals, ret, before, issued, created, crashes>>

(* delete_row's early return is never taken: the rowids are those that the *)
(* scan has just found in the index (a deadlock would show otherwise).     *)
FreeSlot ==
  /\ pc = "delete" /\ to_delete # {}
  /\ Indexed(mem[root_page_id], victim)
  /\ LET packed == index_find(mem[root_page_id], victim)
     IN  Write([mem EXCEPT ![ptr_page(packed)] = delete_slot(@, ptr_slot(packed))])
  /\ pc' = "unindex"
  /\ committed' = {e \in committed : e[1] # victim}
  /\ UNCHANGED <<members, locals, ret, before, issued, created, crashes>>

Unindex ==
  /\ pc = "unindex"
  /\ Write([mem EXCEPT ![root_page_id] = index_remove(@, victim)])
  /\ to_delete' = to_delete \ {victim} /\ count' = count + 1
  /\ pc' = "delete"
  /\ UNCHANGED <<members, row, slot, ret, before>> /\ Quiet

DeleteDone ==
  /\ pc = "delete" /\ to_delete = {}
  /\ ret' = [count |-> count] /\ count' = 0
  /\ pc' = "rest" /\ before' = {}
  /\ UNCHANGED <<mem, versions, members, row, slot, to_delete>> /\ Quiet

find_by_rowid(m, rid) ==
  IF ~Indexed(m[root_page_id], rid) THEN NoRecord
  ELSE Fetch(m, index_find(m[root_page_id], rid))

Find(rid) ==
  /\ pc = "rest"
  /\ \/ /\ mem[root_page_id] # Zero
        /\ ret' = IF find_by_rowid(mem, rid) = NoRecord THEN None
                  ELSE [row |-> find_by_rowid(mem, rid)]
        /\ UNCHANGED pc
     \/ Endless /\ UNCHANGED ret
  /\ UNCHANGED <<mem, versions, members, locals, before>> /\ Quiet

Next ==
  \/ Create \/ OpenTable \/ FlushDone \/ Close \/ Crash
  \/ \E r \in Row : InsertRow(r)
  \/ IndexRow \/ WriteMeta \/ Spin
  \/ \E P \in Predicate : DeleteWhere(P)
  \/ FreeSlot \/ Unindex \/ DeleteDone
  \/ \E rid \in Rowid : Find(rid)

Spec == Init /\ [][Next]_vars

-----------------------------------------------------------------------------
AtRest == pc = "rest"

(* The members name a row and a page of the file, calls leave their locals *)
(* well-typed, and what is in memory is a version that a crash may keep.   *)
TypeOK ==
  /\ next_rowid \in 0 .. MaxRowid + 1
  /\ cur_heap_page \in {0} \cup HeapPage \cup {SCHEMA_PAGE_ID}
  /\ slot \in Nat /\ row \in Row \cup {NoRow} /\ to_delete \subseteq Rowid
  /\ \A p \in Page : mem[p] \in versions[p]

LiveSlots ==
  {at \in HeapPage \X (0 .. PageSize) :
     /\ mem[at[1]] # Zero
     /\ at[2] \in Slots(mem[at[1]]) /\ ~deleted(mem[at[1]], at[2])}

(* Between calls the index and the heap agree: each live slot of a heap    *)
(* page is the target of one index entry, and each entry's slot is live.   *)
(* Deleted slots are used again while the index keeps its entry for the    *)
(* old row, dead, forever: no two rows share a slot, and none is leaked.   *)
SlotsMatchIndex ==
  AtRest /\ crashes = 0 =>
    LET target(e) == <<ptr_page(e[2]), ptr_slot(e[2])>>
    IN  /\ {target(e) : e \in mem[root_page_id].dict} = LiveSlots
        /\ Cardinality(mem[root_page_id].dict) = Cardinality(LiveSlots)

(* The meta page always holds meta data, and no heap page ever takes its   *)
(* place (the layout of page SCHEMA_PAGE_ID, table.cpp 7-12).              *)
MetaPageIsMeta ==
  mem[SCHEMA_PAGE_ID] # Zero => DOMAIN mem[SCHEMA_PAGE_ID] = DOMAIN Meta(0, 0)

(* A rowid is returned once, for next_rowid is always current on disk      *)
(* (the comment at table.cpp 96).                                          *)
RowidsAreFresh == [][WriteMeta => next_rowid - 1 \notin issued]_vars

(* Crashes take back no row that was there at the last flush completed     *)
(* before them and has not been deleted since, whatever pages had been     *)
(* evicted by then and in whatever order; and nothing done after them      *)
(* (reusing rowids and slots, deleting rows that came back) destroys one.  *)
CommittedRowsSurvive == AtRest => committed \subseteq scan(mem, next_rowid)

(* Once CREATE TABLE has made a table and returned, every opening of it,   *)
(* whatever crashes before, finds the numbers of the meta page ("ensure    *)
(* schema page hits disk immediately", table.cpp 49: flush_all writes it   *)
(* first).  Page 0 it writes last, into the stream's buffer: a process     *)
(* that dies after CREATE TABLE has returned may lose it, and every insert *)
(* and lookup then goes round a page 0 of zeroes.  But once the table was  *)
(* opened with its page 0, no crash takes it away, and no call hangs.      *)
CreatedTablesWork ==
  /\ created # "no" => (AtRest => cur_heap_page # 0 /\ next_rowid # 0)
  /\ created = "kept" => pc # "hang"

(* The table implements the set of rows: inserts, deletes and finds take   *)
(* effect as a whole at their return, and a file that is closed and opened *)
(* again holds the same rows.                                              *)
Rows == INSTANCE RowStore
          WITH rows <- IF AtRest THEN scan(mem, next_rowid) ELSE before
ImplementsRowStore == Rows!Spec
=============================================================================
