---------------------------- MODULE TableProofs -----------------------------
(***************************************************************************)
(* Proofs about a table for every layout, page size and number of rows and *)
(* crashes: its pages always hold what is meant for them, and a table that *)
(* was created keeps its meta page through any crash, and its page 0 once  *)
(* it was opened with it; before the first crash the index and the heap    *)
(* agree, and crashes take back no row that was there at an earlier flush; *)
(* without crashes the table implements the set of rows of                 *)
(* RowStore.  The heap pages are taken not to run out (Exhaustion).        *)
(***************************************************************************)
EXTENDS Table, SlottedPageProofs, FiniteSetTheorems, FunctionTheorems

(* The page layout and packed pointers.                                    *)

(* A number is divided by SLOTS into the two parts it was made of.         *)
LEMMA DivideSlots ==
  ASSUME NEW q \in Nat, NEW s \in 0 .. SLOTS - 1
  PROVE  (q * SLOTS + s) \div SLOTS = q /\ (q * SLOTS + s) % SLOTS = s
<1> DEFINE x == q * SLOTS + s
           d == x \div SLOTS
           r == x % SLOTS
<1>1. SLOTS \in Nat /\ SLOTS > 0
  BY SlotsAssumption
<1>2. d \in Int /\ r \in 0 .. SLOTS - 1 /\ x = SLOTS * d + r
  <2>1. x \in Nat
    BY <1>1
  <2> HIDE DEF x
  <2> QED BY <1>1, <2>1
<1>3. q * SLOTS + s = SLOTS * d + r
  BY <1>2
<1> HIDE DEF d, r
<1>4. ASSUME d > q PROVE FALSE
  <2>1. SLOTS * d >= SLOTS * (q + 1)
    BY <1>1, <1>2, <1>4
  <2>2. SLOTS * (q + 1) = q * SLOTS + SLOTS
    BY <1>1
  <2> QED BY <1>1, <1>2, <1>3, <2>1, <2>2
<1>5. ASSUME d < q PROVE FALSE
  <2>1. SLOTS * (d + 1) <= SLOTS * q
    BY <1>1, <1>2, <1>5
  <2>2. SLOTS * (d + 1) = SLOTS * d + SLOTS /\ SLOTS * q = q * SLOTS
    BY <1>1, <1>2
  <2> QED BY <1>1, <1>2, <1>3, <2>1, <2>2
<1>6. d = q
  BY <1>2, <1>4, <1>5
<1>7. r = s
  BY <1>1, <1>2, <1>3, <1>6
<1> QED BY <1>6, <1>7 DEF d, r

Ptr == {pack_ptr(p, s) : p \in HeapPage, s \in 0 .. SLOTS - 1}

(* The pages of the file are what the layout says.                         *)
LEMMA Layout ==
  /\ HEAP_PAGE_BASE \in HeapPage /\ HeapPage \subseteq Nat \ {0}
  /\ root_page_id \notin HeapPage /\ SCHEMA_PAGE_ID \notin HeapPage
  /\ root_page_id # SCHEMA_PAGE_ID /\ SCHEMA_PAGE_ID \in Nat
  /\ Page = {root_page_id, SCHEMA_PAGE_ID} \cup HeapPage
BY LayoutAssumption DEF HeapPage, Page, root_page_id

(* A packed pointer gives its page and its slot back.                      *)
LEMMA PackInverse ==
  ASSUME NEW p \in HeapPage, NEW s \in 0 .. SLOTS - 1
  PROVE  /\ pack_ptr(p, s) \in Ptr /\ pack_ptr(p, s) \in Nat
         /\ ptr_page(pack_ptr(p, s)) = p /\ ptr_slot(pack_ptr(p, s)) = s
<1> DEFINE q == p - HEAP_PAGE_BASE
<1>1. SLOTS \in Nat /\ SLOTS > 0 /\ s \in Nat /\ s % SLOTS = s
  BY SlotsAssumption
<1>2. q \in Nat /\ q + HEAP_PAGE_BASE = p
  BY LayoutAssumption DEF HeapPage
<1>3. pack_ptr(p, s) = q * SLOTS + s
  BY <1>1 DEF pack_ptr
<1>4. (q * SLOTS + s) \div SLOTS = q /\ (q * SLOTS + s) % SLOTS = s
  <2> HIDE DEF q
  <2> QED BY <1>2, DivideSlots
<1>5. pack_ptr(p, s) \in Nat
  <2> HIDE DEF q
  <2> QED BY <1>1, <1>2, <1>3
<1>6. pack_ptr(p, s) \in Ptr
  BY DEF Ptr
<1> QED BY <1>2, <1>3, <1>4, <1>5, <1>6 DEF ptr_page, ptr_slot

(* What a pointer names is a slot that a heap page may have, and two       *)
(* pointers to the same slot are the same.                                 *)
LEMMA PtrParts ==
  ASSUME NEW x \in Ptr
  PROVE  /\ ptr_page(x) \in HeapPage /\ ptr_slot(x) \in 0 .. SLOTS - 1 /\ x \in Nat
         /\ x = pack_ptr(ptr_page(x), ptr_slot(x))
<1>1. PICK p \in HeapPage, s \in 0 .. SLOTS - 1 : x = pack_ptr(p, s)
  BY DEF Ptr
<1> QED BY <1>1, PackInverse

(* No page has more slots than a pointer can name.                         *)
LEMMA SlotsFit ==
  ASSUME NEW p, PageOK(p)
  PROVE  /\ Len(p.dir) \in 0 .. SLOTS /\ Slots(p) \subseteq 0 .. SLOTS - 1
         /\ Slots(p) \subseteq 0 .. PageSize /\ Slots(p) \subseteq Nat
<1>1. /\ Len(p.dir) \in Nat /\ dir_end(p) <= p.free_offset /\ p.free_offset \in 0 .. PageSize
      /\ PageSize \in Nat /\ SLOTS \in Nat
  BY PageNumbers, PageSizeAssumption, SlotsAssumption DEF PageOK, Apart
<1>2. Len(p.dir) <= SLOTS /\ Len(p.dir) <= PageSize
  BY <1>1, SlotsAssumption DEF dir_end, HeaderSize, EntrySize
<1> QED BY <1>1, <1>2 DEF Slots

-----------------------------------------------------------------------------
(* What the pages of a table can hold.                                     *)

RootOK(v) ==
  /\ v \in [dict : SUBSET (Rowid \X Ptr)]
  /\ \A e, f \in v.dict : e[1] = f[1] => e = f

MetaOK(v) ==
  /\ v \in [next_rowid : 0 .. MaxRowid + 1, cur_heap_page : {0} \cup HeapPage]
  /\ v.next_rowid = 0 <=> v.cur_heap_page = 0

HeapOK(v) == PageOK(v) /\ \A s \in LiveIn(v) : get(v, s) \in Row

ContentOK(p, v) ==
  \/ v = Zero
  \/ p = root_page_id /\ RootOK(v)
  \/ p = SCHEMA_PAGE_ID /\ MetaOK(v)
  \/ p \in HeapPage /\ HeapOK(v)

(* None of that is a page of zeroes.                                       *)
LEMMA ZeroIsBlank == ~RootOK(Zero) /\ ~MetaOK(Zero) /\ ~HeapOK(Zero)
<1>1. ~RootOK(Zero)
  <2>1. [dict : SUBSET (Rowid \X Ptr)] \subseteq [dict : SUBSET (Rowid \X Nat)]
    BY PtrParts
  <2> QED BY <2>1, ZeroAssumption DEF RootOK
<1>2. ~MetaOK(Zero)
  <2>1. [next_rowid : 0 .. MaxRowid + 1, cur_heap_page : {0} \cup HeapPage]
          \subseteq [next_rowid : Nat, cur_heap_page : Nat]
    <3>1. 0 .. MaxRowid + 1 \subseteq Nat /\ {0} \cup HeapPage \subseteq Nat
      BY Layout, BoundsAssumption
    <3> QED BY <3>1
  <2> QED BY <2>1, ZeroAssumption DEF MetaOK
<1>3. ~HeapOK(Zero)
  BY ZeroAssumption DEF HeapOK, PageOK, PageType, EntryType, AnyByte
<1> QED BY <1>1, <1>2, <1>3

(* Finding in a dictionary.                                                *)
LEMMA IndexFound ==
  ASSUME NEW v, RootOK(v), NEW k
  PROVE  /\ Indexed(v, k) => /\ <<k, index_find(v, k)>> \in v.dict
                             /\ k \in Rowid /\ index_find(v, k) \in Ptr
         /\ \A x : <<k, x>> \in v.dict => Indexed(v, k) /\ index_find(v, k) = x
<1>1. ASSUME Indexed(v, k)
      PROVE  /\ <<k, index_find(v, k)>> \in v.dict
             /\ k \in Rowid /\ index_find(v, k) \in Ptr
  <2> DEFINE e == CHOOSE e \in v.dict : e[1] = k
  <2>1. e \in v.dict /\ e[1] = k
    BY <1>1 DEF Indexed
  <2>2. e \in Rowid \X Ptr
    BY <2>1 DEF RootOK
  <2>3. index_find(v, k) = e[2]
    BY DEF index_find
  <2> HIDE DEF e
  <2> QED BY <2>1, <2>2, <2>3
<1>2. ASSUME NEW x, <<k, x>> \in v.dict PROVE Indexed(v, k) /\ index_find(v, k) = x
  <2>1. Indexed(v, k)
    BY <1>2, ZeroIsBlank DEF Indexed
  <2>2. <<k, index_find(v, k)>> = <<k, x>>
    BY <1>1, <1>2, <2>1 DEF RootOK
  <2> QED BY <2>1, <2>2
<1> QED BY <1>1, <1>2

(* Inserting into a dictionary.                                            *)
LEMMA IndexInserted ==
  ASSUME NEW v, RootOK(v), NEW k \in Rowid, NEW x \in Ptr
  PROVE  LET w == index_insert(v, k, x)
         IN  RootOK(w) /\ w.dict = {e \in v.dict : e[1] # k} \cup {<<k, x>>}
<1>1. index_insert(v, k, x).dict = {e \in v.dict : e[1] # k} \cup {<<k, x>>}
  BY DEF index_insert, Index, Without
<1> QED BY <1>1 DEF RootOK, index_insert, Index, Without

(* Removing from a dictionary.                                             *)
LEMMA IndexRemoved ==
  ASSUME NEW v, RootOK(v), NEW k
  PROVE  RootOK(index_remove(v, k)) /\ index_remove(v, k).dict = {e \in v.dict : e[1] # k}
BY DEF RootOK, index_remove, Index, Without

(* A heap page with one more row is a heap page, and the row is in a slot  *)
(* that was not live.                                                      *)
LEMMA HeapInserted ==
  ASSUME NEW v, HeapOK(v), NEW r \in Row, fits(v, r)
  PROVE  LET w == insert(v, r)
             n == next_slot(v)
         IN  /\ HeapOK(w) /\ LiveIn(w) = LiveIn(v) \cup {n} /\ n \notin LiveIn(v)
             /\ get(w, n) = r /\ \A s \in LiveIn(v) : get(w, s) = get(v, s)
             /\ n \in Slots(w)
<1> DEFINE n == next_slot(v)
           w == insert(v, r)
<1>1. Changed(v, w, n, r) /\ LiveIn(w) = LiveIn(v) \cup {n} /\ n \notin LiveIn(v)
  BY InsertStores, RowAssumption DEF HeapOK
<1>2. \A s \in LiveIn(v) : s \in Slots(v) /\ s # n
  BY <1>1 DEF LiveIn
<1>3. n \in Slots(w)
  BY <1>1 DEF LiveIn
<1> QED BY <1>1, <1>2, <1>3 DEF HeapOK, Changed

(* A heap page with a row less is a heap page.                             *)
LEMMA HeapDeleted ==
  ASSUME NEW v, HeapOK(v), NEW s \in 0 .. SLOTS - 1
  PROVE  LET w == delete_slot(v, s)
         IN  /\ HeapOK(w) /\ LiveIn(w) = LiveIn(v) \ {s}
             /\ \A t \in LiveIn(w) : get(w, t) = get(v, t)
<1> DEFINE w == delete_slot(v, s)
<1>1. Len(v.dir) \in Nat /\ SLOTS \in Nat
  BY SlotsFit, SlotsAssumption DEF HeapOK
<1>2. CASE s \notin Slots(v)
  <2>1. s >= Len(v.dir)
    BY <1>1, <1>2 DEF Slots
  <2> QED BY <1>2, <2>1 DEF delete_slot, LiveIn
<1>3. CASE s \in Slots(v)
  <2>1. Changed(v, w, s, NoRecord) /\ LiveIn(w) = LiveIn(v) \ {s}
    BY <1>3, DeleteEmpties DEF HeapOK
  <2>2. \A t \in LiveIn(w) : t \in Slots(v) /\ t # s
    BY <2>1 DEF LiveIn
  <2> QED BY <2>1, <2>2 DEF HeapOK, Changed
<1> QED BY <1>2, <1>3

(* A page that was just made a slotted page is a heap page without rows.   *)
LEMMA HeapInit == HeapOK(init) /\ LiveIn(init) = {}
BY InitEmpty DEF HeapOK

(* What get answers for a slot of a heap page: the row of a live slot, and *)
(* NoRecord, which is no row, otherwise.                                   *)
LEMMA HeapGet ==
  ASSUME NEW v, HeapOK(v), NEW s \in 0 .. SLOTS - 1
  PROVE  /\ s \in LiveIn(v) => get(v, s) \in Row /\ get(v, s) # NoRecord
         /\ s \notin LiveIn(v) => get(v, s) = NoRecord
<1>1. NoRecord \notin Row
  BY AnswersAssumption, RowAssumption
<1>2. Len(v.dir) \in Nat /\ SLOTS \in Nat
  BY SlotsFit, SlotsAssumption DEF HeapOK
<1>3. s \notin Slots(v) => s >= Len(v.dir)
  BY <1>2 DEF Slots
<1> QED BY <1>1, <1>3 DEF HeapOK, LiveIn, get

-----------------------------------------------------------------------------
(* The inductive invariant.                                                *)

(* Pages hold what is meant for them, in memory and wherever a crash may   *)
(* take it from.                                                           *)
PagesOK ==
  /\ mem = [p \in Page |-> mem[p]]
  /\ \A p \in Page : mem[p] \in versions[p] /\ \A v \in versions[p] : ContentOK(p, v)

MembersOK ==
  /\ next_rowid \in 0 .. MaxRowid + 1 /\ cur_heap_page \in {0} \cup HeapPage
  /\ next_rowid = 0 <=> cur_heap_page = 0
  /\ pc = "closed" => next_rowid = 0

(* The pointer x names a live slot of the heap pages in m.                 *)
LiveAt(m, x) == m[ptr_page(x)] # Zero /\ ptr_slot(x) \in LiveIn(m[ptr_page(x)])

HerePtr == pack_ptr(cur_heap_page, slot)

(* What a call has noted down is still true.                               *)
LocalsOK ==
  /\ pc \in {"closed", "flush", "closing", "rest", "index", "meta",
             "delete", "unindex", "hang"}
  /\ row \in Row \cup {NoRow} /\ slot \in Nat /\ to_delete \subseteq Rowid
  /\ count \in Nat /\ crashes \in Nat
  /\ pc \notin {"delete", "unindex"} => to_delete = {}
  /\ pc = "unindex" => to_delete # {}
  /\ pc = "index" =>
       /\ next_rowid # 0 /\ next_rowid <= MaxRowid
       /\ row \in Row /\ slot \in 0 .. SLOTS - 1
       /\ LiveAt(mem, HerePtr) /\ get(mem[cur_heap_page], slot) = row
  /\ pc = "meta" => next_rowid > 1
  /\ \A rid \in to_delete :
       /\ mem[root_page_id] # Zero
       /\ \E x \in Ptr : <<rid, x>> \in mem[root_page_id].dict /\ mem[ptr_page(x)] # Zero
  /\ pc \in {"flush", "closing"} =>
       mem[SCHEMA_PAGE_ID] = Meta(next_rowid, cur_heap_page)

(* A file that is not open has one version of each page.                   *)
ClosedOK == pc = "closed" => \A p \in Page : versions[p] = {mem[p]}

(* A table that was created will be found, and the page 0 that it was once *)
(* opened with stays.                                                      *)
CreatedOK ==
  /\ pc = "flush" => mem[root_page_id] # Zero /\ next_rowid = 1
  /\ created \in {"no", "yes", "kept"}
  /\ created # "no" =>
       /\ \A v \in versions[SCHEMA_PAGE_ID] : v # Zero /\ v.next_rowid # 0
       /\ pc # "closed" => next_rowid # 0
  /\ created = "kept" => Zero \notin versions[root_page_id] /\ pc # "hang"

TypeInv == PagesOK /\ MembersOK /\ LocalsOK /\ ClosedOK /\ CreatedOK

-----------------------------------------------------------------------------
(* What the writes of the actions do to memory and to its versions.        *)

(* Writing pages with what is meant for them.                              *)
LEMMA Written ==
  ASSUME PagesOK, NEW m, m = [p \in Page |-> m[p]], \A p \in Page : ContentOK(p, m[p]), Write(m)
  PROVE  /\ PagesOK' /\ mem' = m
         /\ \A p \in Page : versions'[p] \subseteq versions[p] \cup {m[p]}
<1>1. mem' = m
  BY DEF Write
<1>2. ASSUME NEW p \in Page
      PROVE  m[p] \in versions'[p] /\ versions'[p] \subseteq versions[p] \cup {m[p]}
  BY DEF Write
<1>3. ASSUME NEW p \in Page, NEW v \in versions'[p] PROVE ContentOK(p, v)
  <2>1. v \in versions[p] \/ v = m[p]
    BY <1>2
  <2> QED BY <2>1 DEF PagesOK
<1>4. PagesOK'
  <2> SUFFICES /\ mem' = [p \in Page |-> mem'[p]]
               /\ \A p \in Page : mem'[p] \in versions'[p]
               /\ \A p \in Page : \A v \in versions'[p] : ContentOK(p, v)
    BY DEF PagesOK, ContentOK, RootOK, MetaOK, HeapOK
  <2> QED BY <1>1, <1>2, <1>3
<1> QED BY <1>1, <1>2, <1>4

(* Writing one page.                                                       *)
LEMMA WrittenOne ==
  ASSUME PagesOK, NEW q \in Page, NEW c, ContentOK(q, c), Write([mem EXCEPT ![q] = c])
  PROVE  /\ PagesOK' /\ mem'[q] = c /\ \A p \in Page : p # q => mem'[p] = mem[p]
         /\ versions'[q] \subseteq versions[q] \cup {c}
         /\ \A p \in Page : p # q => versions'[p] \subseteq versions[p]
<1> DEFINE m == [mem EXCEPT ![q] = c]
<1>1. /\ mem = [p \in Page |-> mem[p]]
      /\ \A p \in Page : mem[p] \in versions[p] /\ ContentOK(p, mem[p])
  BY DEF PagesOK
<1>2. m = [p \in Page |-> IF p = q THEN c ELSE mem[p]]
  BY <1>1
<1>3. \A p \in Page : m[p] = IF p = q THEN c ELSE mem[p]
  BY <1>2
<1>4. m = [p \in Page |-> m[p]]
  BY <1>2, <1>3
<1> HIDE DEF m
<1>5. Write(m)
  BY DEF m
<1>6. \A p \in Page : ContentOK(p, m[p])
  BY <1>1, <1>3
<1>7. /\ PagesOK' /\ mem' = m
      /\ \A p \in Page : versions'[p] \subseteq versions[p] \cup {m[p]}
  BY <1>4, <1>5, <1>6, Written
<1> QED BY <1>1, <1>3, <1>7

(* insert_row prepares a heap page, the current one or the next, and       *)
(* stores the row there if it fits; other pages change only in that a      *)
(* blank one may be made a slotted page.                                   *)
LEMMA InsertRowEffect ==
  ASSUME PagesOK, MembersOK, ~Exhaustion, NEW r \in Row, InsertRow(r)
  PROVE  \E page \in HeapPage : \E base \in {mem[page], init} :
           /\ HeapOK(base) /\ (base = mem[page] \/ (mem[page] = Zero /\ base = init))
           /\ PagesOK' /\ cur_heap_page' = page
           /\ \A p \in Page : p # page => mem'[p] = mem[p] \/ (mem[p] = Zero /\ mem'[p] = init)
           /\ \A p \in Page \ HeapPage : mem'[p] = mem[p] /\ versions'[p] \subseteq versions[p]
           /\ \A p \in Page : versions'[p] \subseteq versions[p] \cup {mem'[p]}
           /\ \/ /\ mem'[page] = base /\ ret' = None
                 /\ UNCHANGED <<pc, locals, before>>
              \/ /\ fits(base, r) /\ mem'[page] = insert(base, r)
                 /\ slot' = next_slot(base) /\ row' = r /\ pc' = "index"
                 /\ before' = scan(mem, next_rowid) /\ UNCHANGED <<to_delete, count, ret>>
<1> DEFINE cur   == cur_heap_page
           here  == [mem EXCEPT ![cur] = heap_page(mem, cur)]
           moves == TooFull(here[cur], r)
           page  == IF moves THEN cur + 1 ELSE cur
           none  == moves /\ page >= SCHEMA_PAGE_ID
           there == IF none THEN here ELSE [here EXCEPT ![page] = heap_page(here, page)]
           room  == ~none /\ fits(there[page], r)
           base  == there[page]
<1>1. cur \in HeapPage /\ cur + 1 \in HeapPage /\ cur + 1 < SCHEMA_PAGE_ID
  BY LayoutAssumption DEF InsertRow, MembersOK, HeapPage
<1>2. page \in HeapPage /\ ~none
  BY <1>1, LayoutAssumption DEF HeapPage
<1>3. HeapPage \subseteq Page /\ SCHEMA_PAGE_ID \notin HeapPage
  BY Layout
<1>4. /\ mem = [p \in Page |-> mem[p]]
      /\ \A p \in Page : mem[p] \in versions[p] /\ ContentOK(p, mem[p])
  BY DEF PagesOK
<1>5. /\ here = [p \in Page |-> IF p = cur THEN heap_page(mem, cur) ELSE mem[p]]
  BY <1>1, <1>3, <1>4
<1>6. /\ \A p \in Page : here[p] = mem[p] \/ (mem[p] = Zero /\ here[p] = init /\ p = cur)
      /\ here = [p \in Page |-> here[p]]
  <2>1. \A p \in Page : here[p] = IF p = cur THEN heap_page(mem, cur) ELSE mem[p]
    BY <1>5
  <2> HIDE DEF here
  <2> QED BY <1>1, <1>3, <1>5, <2>1 DEF heap_page
<1> HIDE DEF here, moves
<1>7. there = [p \in Page |-> IF p = page THEN heap_page(here, page) ELSE here[p]]
  BY <1>2, <1>3, <1>6
<1>8. \A p \in Page : there[p] = IF p = page THEN heap_page(here, page) ELSE here[p]
  BY <1>7
<1>9. there = [p \in Page |-> there[p]]
  BY <1>7, <1>8
<1> HIDE DEF there, page, none
<1>10. \A p \in Page : there[p] = mem[p] \/ (mem[p] = Zero /\ there[p] = init /\ p \in HeapPage)
  BY <1>1, <1>2, <1>3, <1>6, <1>8 DEF heap_page
<1>11. base # Zero /\ (base = mem[page] \/ (mem[page] = Zero /\ base = init))
  <2>1. init # Zero
    BY HeapInit, ZeroIsBlank
  <2> QED BY <1>2, <1>3, <1>8, <1>10, <2>1 DEF heap_page
<1>12. \A p \in Page : ContentOK(p, there[p])
  BY <1>4, <1>10, HeapInit DEF ContentOK
<1>13. HeapOK(base)
  BY <1>2, <1>3, <1>11, <1>12, Layout DEF ContentOK
<1>14. cur_heap_page' = page
  BY DEF InsertRow, page, none, there, room, here, moves
<1>15. CASE ~room
  <2>1. Write(there) /\ ret' = None /\ UNCHANGED <<pc, locals, before>>
    BY <1>15 DEF InsertRow, page, none, there, room, here, moves
  <2>2. /\ PagesOK' /\ mem' = there
        /\ \A p \in Page : versions'[p] \subseteq versions[p] \cup {there[p]}
    BY <1>9, <1>12, <2>1, Written
  <2>3. \A p \in Page \ HeapPage : mem'[p] = mem[p] /\ versions'[p] \subseteq versions[p]
    BY <1>4, <1>10, <2>2
  <2> QED BY <1>2, <1>10, <1>11, <1>13, <1>14, <2>1, <2>2, <2>3
<1>16. CASE room
  <2> DEFINE m == [there EXCEPT ![page] = insert(there[page], r)]
  <2>1. /\ Write(m) /\ slot' = insert_result(base, r) /\ row' = r /\ pc' = "index"
        /\ before' = scan(mem, next_rowid) /\ UNCHANGED <<to_delete, count, ret>>
    BY <1>16 DEF InsertRow, page, none, there, room, here, moves
  <2>2. fits(base, r)
    BY <1>16
  <2>3. HeapOK(insert(base, r))
    BY <1>13, <2>2, HeapInserted
  <2>4. m = [p \in Page |-> IF p = page THEN insert(base, r) ELSE there[p]]
    BY <1>2, <1>3, <1>9
  <2>5. \A p \in Page : m[p] = IF p = page THEN insert(base, r) ELSE there[p]
    BY <2>4
  <2>6. m = [p \in Page |-> m[p]]
    BY <2>4, <2>5
  <2> HIDE DEF m
  <2>7. \A p \in Page : ContentOK(p, m[p])
    BY <1>2, <1>12, <2>3, <2>5 DEF ContentOK
  <2>8. /\ PagesOK' /\ mem' = m
        /\ \A p \in Page : versions'[p] \subseteq versions[p] \cup {m[p]}
    BY <2>1, <2>6, <2>7, Written
  <2>9. \A p \in Page \ HeapPage : mem'[p] = mem[p] /\ versions'[p] \subseteq versions[p]
    BY <1>2, <1>4, <1>10, <2>5, <2>8
  <2>10. slot' = next_slot(base)
    BY <2>1, <2>2 DEF insert_result
  <2> QED BY <1>2, <1>3, <1>10, <1>11, <1>13, <1>14, <2>1, <2>2, <2>5, <2>8, <2>9, <2>10
<1> QED BY <1>15, <1>16

(* What a scan finds: each rowid below the next whose index entry names a  *)
(* live slot, with the row in that slot.                                   *)
LEMMA ScanRows ==
  ASSUME NEW m, \A p \in Page : ContentOK(p, m[p]), NEW n \in 0 .. MaxRowid + 1
  PROVE  /\ scan(m, n) \subseteq Rowid \X Row /\ \A e \in scan(m, n) : e[1] \in 1 .. n - 1
         /\ \A rid, r : <<rid, r>> \in scan(m, n) <=>
              /\ rid \in 1 .. n - 1 /\ m[root_page_id] # Zero
              /\ \E x \in Ptr : /\ <<rid, x>> \in m[root_page_id].dict /\ LiveAt(m, x)
                                /\ r = get(m[ptr_page(x)], ptr_slot(x))
<1> DEFINE root == m[root_page_id]
           Got(rid) == Fetch(m, index_find(root, rid))
<1>1. ASSUME NEW x \in Ptr
      PROVE  /\ LiveAt(m, x) => /\ Fetch(m, x) = get(m[ptr_page(x)], ptr_slot(x))
                                /\ Fetch(m, x) \in Row /\ Fetch(m, x) # NoRecord
             /\ ~LiveAt(m, x) => Fetch(m, x) = NoRecord
  <2> DEFINE p == ptr_page(x)
             s == ptr_slot(x)
  <2>1. p \in HeapPage /\ s \in 0 .. SLOTS - 1 /\ p \in Page
    BY PtrParts, Layout
  <2>2. m[p] = Zero \/ HeapOK(m[p])
    BY <2>1, Layout DEF ContentOK
  <2>3. CASE m[p] = Zero
    BY <2>3 DEF Fetch, LiveAt
  <2>4. CASE m[p] # Zero
    <3>1. /\ s \in LiveIn(m[p]) => get(m[p], s) \in Row /\ get(m[p], s) # NoRecord
          /\ s \notin LiveIn(m[p]) => get(m[p], s) = NoRecord
      BY <2>1, <2>2, <2>4, HeapGet
    <3> QED BY <2>4, <3>1 DEF Fetch, LiveAt
  <2> QED BY <2>3, <2>4
<1>2. (root # Zero => RootOK(root)) /\ \A rid : Indexed(root, rid) => root # Zero
  BY Layout DEF ContentOK, Indexed
<1>3. 1 .. n - 1 \subseteq Rowid
  BY BoundsAssumption DEF Rowid
<1>4. scan(m, n) = {<<rid, Got(rid)>> :
                       rid \in {i \in 1 .. n - 1 : Indexed(root, i) /\ Got(i) # NoRecord}}
  BY DEF scan
<1>5. ASSUME NEW rid \in 1 .. n - 1, root # Zero
      PROVE  /\ Indexed(root, rid) => /\ <<rid, index_find(root, rid)>> \in root.dict
                                      /\ index_find(root, rid) \in Ptr
             /\ \A x : <<rid, x>> \in root.dict => Indexed(root, rid) /\ index_find(root, rid) = x
  BY <1>2, <1>5, IndexFound
<1>6. ASSUME NEW e \in scan(m, n) PROVE e \in Rowid \X Row /\ e[1] \in 1 .. n - 1
  <2>1. PICK rid \in 1 .. n - 1 : Indexed(root, rid) /\ Got(rid) # NoRecord /\ e = <<rid, Got(rid)>>
    BY <1>4
  <2>2. index_find(root, rid) \in Ptr
    BY <1>2, <1>5, <2>1
  <2>3. Got(rid) \in Row
    BY <1>1, <2>1, <2>2
  <2> QED BY <1>3, <2>1, <2>3
<1>7. ASSUME NEW rid, NEW r, <<rid, r>> \in scan(m, n)
      PROVE  /\ rid \in 1 .. n - 1 /\ root # Zero
             /\ \E x \in Ptr : /\ <<rid, x>> \in root.dict /\ LiveAt(m, x)
                               /\ r = get(m[ptr_page(x)], ptr_slot(x))
  <2>1. rid \in 1 .. n - 1 /\ Indexed(root, rid) /\ Got(rid) # NoRecord /\ r = Got(rid)
    BY <1>4, <1>7
  <2>2. root # Zero
    BY <1>2, <2>1
  <2>3. index_find(root, rid) \in Ptr /\ <<rid, index_find(root, rid)>> \in root.dict
    BY <1>5, <2>1, <2>2
  <2> QED BY <1>1, <2>1, <2>2, <2>3
<1>8. ASSUME NEW rid \in 1 .. n - 1, NEW x \in Ptr, root # Zero, <<rid, x>> \in root.dict, LiveAt(m, x)
      PROVE  <<rid, get(m[ptr_page(x)], ptr_slot(x))>> \in scan(m, n)
  <2>1. Indexed(root, rid) /\ index_find(root, rid) = x
    BY <1>5, <1>8
  <2> QED BY <1>1, <1>4, <1>8, <2>1
<1> HIDE DEF root
<1>9. \A rid, r : <<rid, r>> \in scan(m, n) <=>
        /\ rid \in 1 .. n - 1 /\ root # Zero
        /\ \E x \in Ptr : /\ <<rid, x>> \in root.dict /\ LiveAt(m, x)
                          /\ r = get(m[ptr_page(x)], ptr_slot(x))
  <2>1. ASSUME NEW rid \in 1 .. n - 1, root # Zero, NEW r, NEW x \in Ptr,
               <<rid, x>> \in root.dict, LiveAt(m, x), r = get(m[ptr_page(x)], ptr_slot(x))
        PROVE  <<rid, r>> \in scan(m, n)
    BY <1>8, <2>1
  <2> QED BY <1>7, <2>1
<1> QED BY <1>6, <1>9 DEF root

-----------------------------------------------------------------------------
(* Every action preserves TypeInv.                                         *)

(* The kinds of a page do not mix.                                         *)
LEMMA PageKinds ==
  ASSUME PagesOK
  PROVE  /\ \A v \in versions[root_page_id] : v = Zero \/ RootOK(v)
         /\ \A v \in versions[SCHEMA_PAGE_ID] : v = Zero \/ MetaOK(v)
         /\ \A p \in HeapPage : \A v \in versions[p] : v = Zero \/ HeapOK(v)
         /\ \A p \in Page : mem[p] \in versions[p]
         /\ root_page_id \in Page /\ SCHEMA_PAGE_ID \in Page /\ HeapPage \subseteq Page
BY Layout DEF PagesOK, ContentOK

(* CREATE TABLE writes the three pages of a table without rows.            *)
LEMMA CreateTypes == TypeInv /\ Create => TypeInv'
<1> SUFFICES ASSUME TypeInv, Create PROVE TypeInv'
  OBVIOUS
<1> DEFINE m == [mem EXCEPT ![root_page_id] = Index({}), ![HEAP_PAGE_BASE] = init,
                            ![SCHEMA_PAGE_ID] = Meta(1, HEAP_PAGE_BASE)]
<1>1. /\ root_page_id \in Page /\ SCHEMA_PAGE_ID \in Page /\ HEAP_PAGE_BASE \in Page
      /\ HEAP_PAGE_BASE \in HeapPage /\ HEAP_PAGE_BASE # 0
      /\ root_page_id # HEAP_PAGE_BASE /\ SCHEMA_PAGE_ID # HEAP_PAGE_BASE
      /\ root_page_id # SCHEMA_PAGE_ID
  BY Layout
<1>2. mem = [p \in Page |-> mem[p]] /\ \A p \in Page : ContentOK(p, mem[p])
  BY DEF TypeInv, PagesOK
<1>3. RootOK(Index({})) /\ HeapOK(init) /\ MetaOK(Meta(1, HEAP_PAGE_BASE))
  <2>1. RootOK(Index({}))
    BY DEF RootOK, Index
  <2>2. 1 \in 0 .. MaxRowid + 1
    BY BoundsAssumption
  <2>3. MetaOK(Meta(1, HEAP_PAGE_BASE))
    BY <1>1, <2>2 DEF MetaOK, Meta
  <2> QED BY <2>1, <2>3, HeapInit
<1>4. m = [p \in Page |-> IF p = root_page_id THEN Index({})
                          ELSE IF p = HEAP_PAGE_BASE THEN init
                          ELSE IF p = SCHEMA_PAGE_ID THEN Meta(1, HEAP_PAGE_BASE)
                          ELSE mem[p]]
  BY <1>1, <1>2
<1>5. /\ m[root_page_id] = Index({}) /\ m[HEAP_PAGE_BASE] = init
      /\ m[SCHEMA_PAGE_ID] = Meta(1, HEAP_PAGE_BASE)
      /\ \A p \in Page \ {root_page_id, HEAP_PAGE_BASE, SCHEMA_PAGE_ID} : m[p] = mem[p]
      /\ m = [p \in Page |-> m[p]]
  BY <1>1, <1>4
<1>6. Write(m)
  BY DEF Create
<1> HIDE DEF m
<1>7. \A p \in Page : ContentOK(p, m[p])
  BY <1>1, <1>2, <1>3, <1>5 DEF ContentOK
<1>8. /\ PagesOK' /\ mem' = m
      /\ \A p \in Page : versions'[p] \subseteq versions[p] \cup {m[p]}
  BY <1>5, <1>6, <1>7, Written DEF TypeInv
<1>9. /\ pc = "closed" /\ next_rowid' = 1 /\ cur_heap_page' = HEAP_PAGE_BASE /\ pc' = "flush"
      /\ mem[root_page_id] = Zero
      /\ UNCHANGED <<row, slot, to_delete, count, crashes, created>>
  BY <1>1 DEF Create, locals, Quiet
<1>10. MembersOK'
  BY <1>1, <1>9, BoundsAssumption DEF MembersOK
<1>11. LocalsOK'
  BY <1>5, <1>8, <1>9 DEF TypeInv, LocalsOK
<1>12. created = "no"
  <2>1. mem[SCHEMA_PAGE_ID] = Zero
    BY <1>1 DEF Create
  <2> QED BY <1>1, <2>1 DEF TypeInv, CreatedOK, PagesOK
<1>13. mem'[root_page_id] # Zero /\ mem'[root_page_id] = Index({})
  BY <1>3, <1>5, <1>8, ZeroIsBlank
<1>14. ClosedOK'
  BY <1>9 DEF ClosedOK
<1>15. CreatedOK'
  BY <1>9, <1>12, <1>13 DEF CreatedOK
<1> QED BY <1>8, <1>10, <1>11, <1>14, <1>15 DEF TypeInv

(* Opening takes the members from the meta page.                           *)
LEMMA OpenTypes == TypeInv /\ OpenTable => TypeInv'
<1> SUFFICES ASSUME TypeInv, OpenTable PROVE TypeInv'
  OBVIOUS
<1> DEFINE z == mem[SCHEMA_PAGE_ID]
<1>1. /\ pc = "closed" /\ pc' = "rest"
      /\ next_rowid' = read_meta(mem).next_rowid /\ cur_heap_page' = read_meta(mem).cur_heap_page
      /\ created' = IF created = "yes" /\ mem[root_page_id] # Zero THEN "kept" ELSE created
      /\ UNCHANGED <<mem, versions, row, slot, to_delete, count, crashes>>
  BY DEF OpenTable, locals
<1>2. PagesOK'
  BY <1>1 DEF TypeInv, PagesOK, ContentOK, RootOK, MetaOK, HeapOK
<1>3. z \in versions[SCHEMA_PAGE_ID] /\ (z = Zero \/ MetaOK(z))
  BY PageKinds DEF TypeInv
<1>4. z = Zero => next_rowid' = 0 /\ cur_heap_page' = 0
  BY <1>1 DEF read_meta, Meta
<1>5. z # Zero => next_rowid' = z.next_rowid /\ cur_heap_page' = z.cur_heap_page
  BY <1>1 DEF read_meta
<1>6. MembersOK'
  BY <1>1, <1>3, <1>4, <1>5, BoundsAssumption DEF MembersOK, MetaOK
<1>7. LocalsOK'
  BY <1>1 DEF TypeInv, LocalsOK
<1>8. ClosedOK'
  BY <1>1 DEF ClosedOK
<1>9. CreatedOK'
  <2>1. versions[root_page_id] = {mem[root_page_id]}
    BY <1>1, Layout DEF TypeInv, ClosedOK
  <2>2. created # "no" => next_rowid' # 0
    BY <1>3, <1>5 DEF TypeInv, CreatedOK
  <2> QED BY <1>1, <2>1, <2>2 DEF TypeInv, CreatedOK
<1> QED BY <1>2, <1>6, <1>7, <1>8, <1>9 DEF TypeInv

(* Flushing leaves one version of every page but of the one that may be in *)
(* the buffer.                                                             *)
LEMMA FlushTypes == TypeInv /\ FlushDone => TypeInv'
<1> SUFFICES ASSUME TypeInv, FlushDone PROVE TypeInv'
  OBVIOUS
<1>1. /\ pc \in {"flush", "closing"}
      /\ UNCHANGED <<mem, row, slot, to_delete, count, crashes>>
      /\ \/ /\ pc = "flush" /\ pc' = "rest"
            /\ UNCHANGED <<next_rowid, cur_heap_page>>
         \/ /\ pc = "closing" /\ pc' = "closed"
            /\ next_rowid' = 0 /\ cur_heap_page' = 0
  BY DEF FlushDone, Flushed, locals, members
<1>2. created' = IF pc = "flush" THEN "yes" ELSE created
  BY DEF FlushDone, Flushed
<1>3. \A p \in Page : /\ mem[p] \in versions'[p] /\ versions'[p] \subseteq versions[p]
                      /\ p # root_page_id \/ pc = "closing" => versions'[p] = {mem[p]}
  <2>1. \A p \in Page : versions'[p] = IF p \in Buffered THEN versions[p] ELSE {mem[p]}
    BY DEF FlushDone
  <2> QED BY <1>1, <2>1, PageKinds DEF TypeInv, Buffered
<1>4. /\ versions'[root_page_id] \subseteq versions[root_page_id]
      /\ versions'[SCHEMA_PAGE_ID] = {mem[SCHEMA_PAGE_ID]}
      /\ mem[SCHEMA_PAGE_ID] \in versions[SCHEMA_PAGE_ID]
  BY <1>3, PageKinds, Layout DEF TypeInv
<1>5. PagesOK'
  <2> SUFFICES /\ mem' = [p \in Page |-> mem'[p]]
               /\ \A p \in Page : mem'[p] \in versions'[p]
               /\ \A p \in Page : \A v \in versions'[p] : ContentOK(p, v)
    BY DEF PagesOK, ContentOK, RootOK, MetaOK, HeapOK
  <2> QED BY <1>1, <1>3 DEF TypeInv, PagesOK
<1>6. MembersOK'
  BY <1>1, BoundsAssumption DEF TypeInv, MembersOK
<1>7. LocalsOK'
  BY <1>1 DEF TypeInv, LocalsOK
<1>8. mem[SCHEMA_PAGE_ID] = Meta(next_rowid, cur_heap_page)
  BY <1>1 DEF TypeInv, LocalsOK
<1>9. ClosedOK'
  BY <1>1, <1>3 DEF ClosedOK
<1>10. CreatedOK'
  <2>1. CASE pc = "flush"
    <3>1. mem[root_page_id] # Zero /\ next_rowid # 0 /\ next_rowid' = next_rowid /\ pc' = "rest"
      BY <1>1, <2>1 DEF TypeInv, CreatedOK
    <3>2. mem[SCHEMA_PAGE_ID] # Zero
      <4>1. MetaOK(Meta(next_rowid, cur_heap_page))
        BY DEF TypeInv, MembersOK, MetaOK, Meta
      <4> QED BY <1>8, <4>1, ZeroIsBlank
    <3>3. mem[SCHEMA_PAGE_ID].next_rowid = next_rowid
      BY <1>8 DEF Meta
    <3> QED BY <1>1, <1>2, <1>4, <2>1, <3>1, <3>2, <3>3 DEF CreatedOK
  <2>2. CASE pc = "closing"
    BY <1>1, <1>2, <1>4, <2>2 DEF TypeInv, CreatedOK
  <2> QED BY <1>1, <2>1, <2>2
<1> QED BY <1>5, <1>6, <1>7, <1>9, <1>10 DEF TypeInv

(* Closing writes the members to the meta page.                            *)
LEMMA CloseTypes == TypeInv /\ Close => TypeInv'
<1> SUFFICES ASSUME TypeInv, Close PROVE TypeInv'
  OBVIOUS
<1> DEFINE z == Meta(next_rowid, cur_heap_page)
<1>1. /\ pc = "rest" /\ pc' = "closing"
      /\ Write([mem EXCEPT ![SCHEMA_PAGE_ID] = z])
      /\ UNCHANGED <<next_rowid, cur_heap_page, row, slot, to_delete, count, crashes, created>>
  BY DEF Close, members, locals, Quiet
<1>2. SCHEMA_PAGE_ID \in Page /\ root_page_id \in Page /\ root_page_id # SCHEMA_PAGE_ID
  BY Layout
<1>3. MetaOK(z) /\ z.next_rowid = next_rowid
  BY DEF TypeInv, MembersOK, MetaOK, Meta
<1>4. ContentOK(SCHEMA_PAGE_ID, z) /\ z # Zero
  BY <1>3, ZeroIsBlank DEF ContentOK
<1> HIDE DEF z
<1>5. /\ PagesOK' /\ mem'[SCHEMA_PAGE_ID] = z
      /\ \A p \in Page : p # SCHEMA_PAGE_ID => mem'[p] = mem[p]
      /\ versions'[SCHEMA_PAGE_ID] \subseteq versions[SCHEMA_PAGE_ID] \cup {z}
      /\ \A p \in Page : p # SCHEMA_PAGE_ID => versions'[p] \subseteq versions[p]
  BY <1>1, <1>2, <1>4, WrittenOne DEF TypeInv
<1>6. /\ mem'[root_page_id] = mem[root_page_id]
      /\ versions'[root_page_id] \subseteq versions[root_page_id]
  BY <1>2, <1>5
<1>7. MembersOK'
  BY <1>1 DEF TypeInv, MembersOK
<1>8. LocalsOK'
  BY <1>1, <1>5 DEF TypeInv, LocalsOK, z
<1>9. ClosedOK'
  BY <1>1 DEF ClosedOK
<1>10. CreatedOK'
  BY <1>1, <1>3, <1>4, <1>5, <1>6 DEF TypeInv, CreatedOK
<1> QED BY <1>5, <1>7, <1>8, <1>9, <1>10 DEF TypeInv

(* A crash takes each page from its versions.                              *)
LEMMA CrashTypes == TypeInv /\ Crash => TypeInv'
<1> SUFFICES ASSUME TypeInv, Crash PROVE TypeInv'
  OBVIOUS
<1>1. /\ crashes' = crashes + 1 /\ next_rowid' = 0 /\ cur_heap_page' = 0
      /\ pc' = "closed" /\ row' = NoRow /\ slot' = 0 /\ to_delete' = {} /\ count' = 0
  BY DEF Crash
<1>0. UNCHANGED created
  BY DEF Crash
<1>2. mem' = [p \in Page |-> mem'[p]] /\ \A p \in Page : mem'[p] \in versions[p]
  <2>1. PICK root \in versions[root_page_id], meta \in versions[SCHEMA_PAGE_ID],
             heap \in [HeapPage -> UNION {versions[p] : p \in HeapPage}] :
               /\ \A p \in HeapPage : heap[p] \in versions[p]
               /\ mem' = [p \in Page |-> IF p \in HeapPage THEN heap[p]
                                         ELSE IF p = root_page_id THEN root ELSE meta]
    BY DEF Crash
  <2>2. \A p \in Page : mem'[p] = IF p \in HeapPage THEN heap[p]
                                  ELSE IF p = root_page_id THEN root ELSE meta
    BY <2>1
  <2>3. mem' = [p \in Page |-> mem'[p]]
    BY <2>1, <2>2
  <2> QED BY <2>1, <2>2, <2>3, Layout
<1>3. \A p \in Page : versions'[p] = {mem'[p]} /\ versions'[p] \subseteq versions[p]
  <2>1. \A p \in Page : versions'[p] = {mem'[p]}
    BY DEF Crash
  <2> QED BY <1>2, <2>1
<1>4. root_page_id \in Page /\ SCHEMA_PAGE_ID \in Page
  BY Layout
<1>5. PagesOK'
  <2> SUFFICES /\ mem' = [p \in Page |-> mem'[p]]
               /\ \A p \in Page : mem'[p] \in versions'[p]
               /\ \A p \in Page : \A v \in versions'[p] : ContentOK(p, v)
    BY DEF PagesOK, ContentOK, RootOK, MetaOK, HeapOK
  <2> QED BY <1>2, <1>3 DEF TypeInv, PagesOK
<1>6. MembersOK'
  BY <1>1, BoundsAssumption DEF MembersOK
<1>7. LocalsOK'
  <2>1. crashes' \in Nat
    BY <1>1 DEF TypeInv, LocalsOK
  <2>2. pc' \notin {"delete", "unindex", "index", "meta", "flush", "closing"}
    BY <1>1
  <2> QED BY <1>1, <2>1, <2>2 DEF LocalsOK
<1>8. ClosedOK'
  BY <1>3 DEF ClosedOK
<1>9. CreatedOK'
  BY <1>0, <1>1, <1>3, <1>4 DEF TypeInv, CreatedOK
<1> QED BY <1>5, <1>6, <1>7, <1>8, <1>9 DEF TypeInv

(* insert_row notes down where it has stored the row.                      *)
LEMMA InsertTypes ==
  ASSUME TypeInv, ~Exhaustion, NEW r \in Row, InsertRow(r)
  PROVE  TypeInv'
<1>1. PICK page \in HeapPage : \E base \in {mem[page], init} :
        /\ HeapOK(base) /\ PagesOK' /\ cur_heap_page' = page
        /\ \A p \in Page \ HeapPage : mem'[p] = mem[p] /\ versions'[p] \subseteq versions[p]
        /\ \/ /\ mem'[page] = base /\ ret' = None
              /\ UNCHANGED <<pc, locals, before>>
           \/ /\ fits(base, r) /\ mem'[page] = insert(base, r)
              /\ slot' = next_slot(base) /\ row' = r /\ pc' = "index"
              /\ before' = scan(mem, next_rowid) /\ UNCHANGED <<to_delete, count, ret>>
  BY InsertRowEffect DEF TypeInv
<1>2. PICK base \in {mem[page], init} :
        /\ HeapOK(base)
        /\ \/ mem'[page] = base /\ UNCHANGED <<pc, row, slot, to_delete, count>>
           \/ /\ fits(base, r) /\ mem'[page] = insert(base, r)
              /\ slot' = next_slot(base) /\ row' = r /\ pc' = "index"
              /\ UNCHANGED <<to_delete, count>>
  BY <1>1 DEF locals
<1>3. /\ pc = "rest" /\ next_rowid <= MaxRowid /\ cur_heap_page # 0 /\ next_rowid' = next_rowid
      /\ UNCHANGED <<created, crashes>>
  BY DEF InsertRow, Quiet
<1>4. /\ mem'[root_page_id] = mem[root_page_id]
      /\ versions'[root_page_id] \subseteq versions[root_page_id]
      /\ mem'[SCHEMA_PAGE_ID] = mem[SCHEMA_PAGE_ID]
      /\ versions'[SCHEMA_PAGE_ID] \subseteq versions[SCHEMA_PAGE_ID]
  BY <1>1, Layout
<1>5. next_rowid # 0 /\ page # 0
  BY <1>3, Layout DEF TypeInv, MembersOK
<1>6. MembersOK'
  BY <1>1, <1>2, <1>3, <1>5 DEF TypeInv, MembersOK
<1>7. LocalsOK'
  <2>1. CASE mem'[page] = base /\ UNCHANGED <<pc, row, slot, to_delete, count>>
    BY <1>3, <2>1 DEF TypeInv, LocalsOK
  <2>2. CASE /\ fits(base, r) /\ mem'[page] = insert(base, r)
             /\ slot' = next_slot(base) /\ row' = r /\ pc' = "index"
             /\ UNCHANGED <<to_delete, count>>
    <3>1. /\ HeapOK(mem'[page]) /\ slot' \in LiveIn(mem'[page]) /\ slot' \in Slots(mem'[page])
          /\ get(mem'[page], slot') = r
      BY <1>2, <2>2, HeapInserted
    <3>2. slot' \in 0 .. SLOTS - 1 /\ slot' \in Nat
      BY <3>1, SlotsFit DEF HeapOK
    <3>3. ptr_page(HerePtr') = page /\ ptr_slot(HerePtr') = slot'
      BY <1>1, <3>2, PackInverse DEF HerePtr
    <3>4. mem'[page] # Zero
      BY <3>1, ZeroIsBlank
    <3>5. LiveAt(mem', HerePtr')
      BY <3>1, <3>3, <3>4 DEF LiveAt
    <3>6. to_delete' = {}
      BY <1>3, <2>2 DEF TypeInv, LocalsOK
    <3> QED BY <1>1, <1>3, <1>5, <2>2, <3>1, <3>2, <3>5, <3>6 DEF TypeInv, LocalsOK
  <2> QED BY <1>2, <2>1, <2>2
<1>8. pc' \in {"rest", "index"}
  BY <1>2, <1>3
<1>9. ClosedOK'
  BY <1>8 DEF ClosedOK
<1>10. CreatedOK'
  BY <1>3, <1>4, <1>5, <1>8 DEF TypeInv, CreatedOK
<1> QED BY <1>1, <1>6, <1>7, <1>9, <1>10 DEF TypeInv

(* The index is given a rowid and a pointer to a live slot.                *)
LEMMA IndexTypes == TypeInv /\ IndexRow => TypeInv'
<1> SUFFICES ASSUME TypeInv, IndexRow PROVE TypeInv'
  OBVIOUS
<1> DEFINE root == mem[root_page_id]
           c == index_insert(root, next_rowid, HerePtr)
<1>1. /\ pc = "index" /\ next_rowid' = next_rowid + 1 /\ cur_heap_page' = cur_heap_page
      /\ UNCHANGED <<to_delete, count, created, crashes>>
  BY DEF IndexRow, Quiet
<1>2. /\ next_rowid \in 1 .. MaxRowid /\ next_rowid \in Rowid /\ cur_heap_page \in HeapPage
      /\ slot \in 0 .. SLOTS - 1 /\ to_delete = {}
  BY <1>1, BoundsAssumption DEF TypeInv, LocalsOK, MembersOK, Rowid
<1>3. HerePtr \in Ptr
  BY <1>2, PackInverse DEF HerePtr
<1>4. root_page_id \in Page /\ SCHEMA_PAGE_ID \in Page /\ root_page_id # SCHEMA_PAGE_ID
  BY Layout
<1>5. MembersOK'
  <2>1. pc' # "closed"
    BY DEF IndexRow, Endless
  <2> QED BY <1>1, <1>2, <2>1, BoundsAssumption DEF TypeInv, MembersOK
<1>6. CASE root # Zero
  <2>1. pc' = "meta" /\ row' = NoRow /\ slot' = 0 /\ Write([mem EXCEPT ![root_page_id] = c])
    BY <1>6 DEF IndexRow, Endless, HerePtr
  <2>2. RootOK(root)
    BY <1>6, PageKinds DEF TypeInv
  <2>3. RootOK(c)
    BY <1>2, <1>3, <2>2, IndexInserted
  <2>4. c # Zero /\ ContentOK(root_page_id, c)
    BY <2>3, ZeroIsBlank DEF ContentOK
  <2> HIDE DEF c
  <2>5. /\ PagesOK' /\ mem'[root_page_id] = c
        /\ versions'[root_page_id] \subseteq versions[root_page_id] \cup {c}
        /\ mem'[SCHEMA_PAGE_ID] = mem[SCHEMA_PAGE_ID]
        /\ versions'[SCHEMA_PAGE_ID] \subseteq versions[SCHEMA_PAGE_ID]
    BY <1>4, <2>1, <2>4, WrittenOne DEF TypeInv
  <2>6. LocalsOK'
    <3>1. next_rowid' > 1
      BY <1>1, <1>2
    <3> QED BY <1>1, <1>2, <2>1, <3>1 DEF TypeInv, LocalsOK
  <2>7. ClosedOK' /\ CreatedOK'
    <3>1. created = "kept" => Zero \notin versions'[root_page_id]
      BY <2>4, <2>5 DEF TypeInv, CreatedOK
    <3>2. next_rowid' # 0
      BY <1>1, <1>2
    <3> QED BY <1>1, <2>1, <2>5, <3>1, <3>2 DEF TypeInv, ClosedOK, CreatedOK
  <2> QED BY <1>5, <2>5, <2>6, <2>7 DEF TypeInv
<1>7. CASE root = Zero
  <2>1. pc' = "hang" /\ UNCHANGED <<mem, versions, row, slot>>
    BY <1>7 DEF IndexRow, Endless
  <2>2. PagesOK'
    BY <2>1 DEF TypeInv, PagesOK, ContentOK, RootOK, MetaOK, HeapOK
  <2>3. LocalsOK'
    BY <1>1, <1>2, <2>1 DEF TypeInv, LocalsOK
  <2>4. root \in versions[root_page_id]
    BY PageKinds DEF TypeInv
  <2>5. ClosedOK'
    BY <2>1 DEF ClosedOK
  <2>6. CreatedOK'
    BY <1>1, <1>2, <1>7, <2>1, <2>4 DEF TypeInv, CreatedOK
  <2> QED BY <1>5, <2>2, <2>3, <2>5, <2>6 DEF TypeInv
<1> QED BY <1>6, <1>7

(* The meta page is given the members.                                     *)
LEMMA MetaTypes == TypeInv /\ WriteMeta => TypeInv'
<1> SUFFICES ASSUME TypeInv, WriteMeta PROVE TypeInv'
  OBVIOUS
<1> DEFINE z == Meta(next_rowid, cur_heap_page)
<1>1. /\ pc = "meta" /\ pc' = "rest"
      /\ Write([mem EXCEPT ![SCHEMA_PAGE_ID] = z])
      /\ UNCHANGED <<next_rowid, cur_heap_page, row, slot, to_delete, count, created, crashes>>
  BY DEF WriteMeta, members, locals
<1>2. SCHEMA_PAGE_ID \in Page /\ root_page_id \in Page /\ root_page_id # SCHEMA_PAGE_ID
  BY Layout
<1>3. MetaOK(z) /\ z.next_rowid = next_rowid
  BY DEF TypeInv, MembersOK, MetaOK, Meta
<1>4. ContentOK(SCHEMA_PAGE_ID, z) /\ z # Zero
  BY <1>3, ZeroIsBlank DEF ContentOK
<1> HIDE DEF z
<1>5. /\ PagesOK' /\ mem'[SCHEMA_PAGE_ID] = z
      /\ versions'[SCHEMA_PAGE_ID] \subseteq versions[SCHEMA_PAGE_ID] \cup {z}
      /\ mem'[root_page_id] = mem[root_page_id]
      /\ versions'[root_page_id] \subseteq versions[root_page_id]
  BY <1>1, <1>2, <1>4, WrittenOne DEF TypeInv
<1>6. MembersOK'
  BY <1>1 DEF TypeInv, MembersOK
<1>7. next_rowid > 1 /\ to_delete = {} /\ next_rowid # 0
  BY <1>1 DEF TypeInv, LocalsOK
<1>8. LocalsOK'
  BY <1>1, <1>7 DEF TypeInv, LocalsOK
<1>9. ClosedOK'
  BY <1>1 DEF ClosedOK
<1>10. CreatedOK'
  BY <1>1, <1>3, <1>4, <1>5, <1>7 DEF TypeInv, CreatedOK
<1> QED BY <1>5, <1>6, <1>8, <1>9, <1>10 DEF TypeInv

(* delete_where collects rowids of the index.                              *)
LEMMA DeleteWhereTypes ==
  ASSUME TypeInv, NEW P \in Predicate, DeleteWhere(P)
  PROVE  TypeInv'
<1> DEFINE root == mem[root_page_id]
<1>1. /\ pc = "rest"
      /\ \/ /\ pc' = "delete"
            /\ to_delete' = {e[1] : e \in {r \in scan(mem, next_rowid) : r[2] \in P}}
         \/ pc' = "hang" /\ root = Zero /\ to_delete' = to_delete
      /\ UNCHANGED <<mem, versions, next_rowid, cur_heap_page, row, slot, count, created, crashes>>
  BY DEF DeleteWhere, Endless, members, Quiet
<1>2. PagesOK'
  BY <1>1 DEF TypeInv, PagesOK, ContentOK, RootOK, MetaOK, HeapOK
<1>3. MembersOK'
  BY <1>1 DEF TypeInv, MembersOK
<1>4. /\ \A p \in Page : ContentOK(p, mem[p])
      /\ next_rowid \in 0 .. MaxRowid + 1
  BY PageKinds DEF TypeInv, PagesOK, MembersOK
<1>5. /\ scan(mem, next_rowid) \subseteq Rowid \X Row
      /\ \A rid, r : <<rid, r>> \in scan(mem, next_rowid) =>
           /\ root # Zero
           /\ \E x \in Ptr : <<rid, x>> \in root.dict /\ LiveAt(mem, x)
  <2> HIDE DEF root
  <2> QED BY <1>4, ScanRows DEF root
<1>6. ASSUME NEW rid \in to_delete'
      PROVE  /\ rid \in Rowid /\ root # Zero
             /\ \E x \in Ptr : <<rid, x>> \in root.dict /\ mem[ptr_page(x)] # Zero
  <2>0. to_delete = {}
    BY <1>1 DEF TypeInv, LocalsOK
  <2>1. PICK e \in scan(mem, next_rowid) : rid = e[1]
    BY <1>1, <1>6, <2>0
  <2>2. e[1] \in Rowid /\ e = <<rid, e[2]>>
    BY <1>5, <2>1
  <2> QED BY <1>5, <2>1, <2>2 DEF LiveAt
<1>7. LocalsOK'
  <2>1. to_delete' \subseteq Rowid
    BY <1>6
  <2>2. \A rid \in to_delete' :
          /\ mem'[root_page_id] # Zero
          /\ \E x \in Ptr : <<rid, x>> \in mem'[root_page_id].dict /\ mem'[ptr_page(x)] # Zero
    BY <1>1, <1>6
  <2>3. pc' = "hang" => to_delete' = {}
    BY <1>1 DEF TypeInv, LocalsOK
  <2> HIDE DEF root
  <2> QED BY <1>1, <2>1, <2>2, <2>3 DEF TypeInv, LocalsOK
<1>8. ClosedOK' /\ CreatedOK'
  <2>1. root \in versions[root_page_id]
    BY PageKinds DEF TypeInv
  <2> QED BY <1>1, <2>1 DEF TypeInv, ClosedOK, CreatedOK
<1> QED BY <1>2, <1>3, <1>7, <1>8 DEF TypeInv

(* The rowid whose turn it is, is one of those to delete.                  *)
LEMMA Victim ==
  ASSUME to_delete \subseteq Rowid, to_delete # {}
  PROVE  victim \in to_delete
<1>1. \E rid \in to_delete : \A other \in to_delete : rid <= other
  BY LeastNatural, to_delete \subseteq Nat DEF Rowid
<1> QED BY <1>1 DEF victim

(* What deleting a row frees: a slot of the heap page that its index entry *)
(* names.                                                                  *)
LEMMA FreeSlotEffect ==
  ASSUME TypeInv, FreeSlot
  PROVE  \E x \in Ptr :
           /\ mem[root_page_id] # Zero /\ RootOK(mem[root_page_id])
           /\ victim \in to_delete /\ victim' = victim
           /\ <<victim, x>> \in mem[root_page_id].dict /\ ptr_page(x) \in Page
           /\ HeapOK(mem[ptr_page(x)]) /\ HeapOK(mem'[ptr_page(x)])
           /\ LiveIn(mem'[ptr_page(x)]) = LiveIn(mem[ptr_page(x)]) \ {ptr_slot(x)}
           /\ \A t \in LiveIn(mem'[ptr_page(x)]) :
                get(mem'[ptr_page(x)], t) = get(mem[ptr_page(x)], t)
           /\ PagesOK'
           /\ \A p \in Page : p # ptr_page(x) =>
                mem'[p] = mem[p] /\ versions'[p] \subseteq versions[p]
           /\ \A p \in Page : versions'[p] \subseteq versions[p] \cup {mem'[p]}
           /\ pc = "delete" /\ pc' = "unindex" /\ to_delete # {}
           /\ UNCHANGED <<next_rowid, cur_heap_page, row, slot, to_delete, count, crashes>>
<1> DEFINE root == mem[root_page_id]
           x == index_find(root, victim)
           q == ptr_page(x)
           c == delete_slot(mem[q], ptr_slot(x))
<1>1. /\ pc = "delete" /\ pc' = "unindex" /\ to_delete # {}
      /\ UNCHANGED <<next_rowid, cur_heap_page, row, slot, to_delete, count, crashes>>
      /\ Indexed(root, victim) /\ Write([mem EXCEPT ![q] = c])
  BY DEF FreeSlot, members, locals
<1>2. victim \in to_delete
  BY <1>1, Victim DEF TypeInv, LocalsOK
<1>3. victim' = victim
  BY <1>1 DEF victim
<1>4. /\ root # Zero
      /\ \E y \in Ptr : <<victim, y>> \in root.dict /\ mem[ptr_page(y)] # Zero
  BY <1>2 DEF TypeInv, LocalsOK
<1>5. RootOK(root)
  BY <1>4, PageKinds DEF TypeInv
<1>6. x \in Ptr /\ <<victim, x>> \in root.dict /\ mem[q] # Zero
  <2>1. /\ Indexed(root, victim) => <<victim, index_find(root, victim)>> \in root.dict
                                    /\ index_find(root, victim) \in Ptr
        /\ \A y : <<victim, y>> \in root.dict => index_find(root, victim) = y
    <3> HIDE DEF root
    <3> QED BY <1>5, IndexFound
  <2> QED BY <1>1, <1>4, <2>1
<1> HIDE DEF x, root
<1>7. q \in HeapPage /\ q \in Page /\ ptr_slot(x) \in 0 .. SLOTS - 1
  BY <1>6, PtrParts, Layout
<1>8. HeapOK(mem[q])
  BY <1>6, <1>7, PageKinds DEF TypeInv
<1>9. /\ HeapOK(c) /\ LiveIn(c) = LiveIn(mem[q]) \ {ptr_slot(x)}
      /\ \A t \in LiveIn(c) : get(c, t) = get(mem[q], t)
  BY <1>7, <1>8, HeapDeleted
<1>10. ContentOK(q, c)
  BY <1>7, <1>9 DEF ContentOK
<1> HIDE DEF c, q
<1>11. /\ PagesOK' /\ mem'[q] = c /\ \A p \in Page : p # q => mem'[p] = mem[p]
       /\ versions'[q] \subseteq versions[q] \cup {c}
       /\ \A p \in Page : p # q => versions'[p] \subseteq versions[p]
  BY <1>1, <1>7, <1>10, WrittenOne DEF TypeInv
<1>12. \A p \in Page : versions'[p] \subseteq versions[p] \cup {mem'[p]}
  BY <1>7, <1>11
<1>13. /\ HeapOK(mem[q]) /\ HeapOK(mem'[q])
       /\ LiveIn(mem'[q]) = LiveIn(mem[q]) \ {ptr_slot(x)}
       /\ \A t \in LiveIn(mem'[q]) : get(mem'[q], t) = get(mem[q], t)
  BY <1>8, <1>9, <1>11
<1> QED BY <1>1, <1>2, <1>3, <1>4, <1>5, <1>6, <1>7, <1>11, <1>12, <1>13 DEF q, root

(* Freeing a slot leaves a heap page a heap page.                          *)
LEMMA FreeTypes == TypeInv /\ FreeSlot => TypeInv'
<1> SUFFICES ASSUME TypeInv, FreeSlot PROVE TypeInv'
  OBVIOUS
<1>1. PICK x \in Ptr :
        /\ ptr_page(x) \in Page /\ HeapOK(mem[ptr_page(x)]) /\ HeapOK(mem'[ptr_page(x)])
        /\ PagesOK'
        /\ \A p \in Page : p # ptr_page(x) =>
             mem'[p] = mem[p] /\ versions'[p] \subseteq versions[p]
        /\ pc = "delete" /\ pc' = "unindex" /\ to_delete # {}
        /\ UNCHANGED <<next_rowid, cur_heap_page, row, slot, to_delete, count, crashes>>
  BY FreeSlotEffect
<1>2. UNCHANGED created
  BY DEF FreeSlot
<1>3. /\ mem'[root_page_id] = mem[root_page_id]
      /\ versions'[root_page_id] \subseteq versions[root_page_id]
      /\ mem'[SCHEMA_PAGE_ID] = mem[SCHEMA_PAGE_ID]
      /\ versions'[SCHEMA_PAGE_ID] \subseteq versions[SCHEMA_PAGE_ID]
  BY <1>1, PtrParts, Layout
<1>4. MembersOK'
  BY <1>1 DEF TypeInv, MembersOK
<1>5. \A p \in Page : mem[p] # Zero => mem'[p] # Zero
  BY <1>1, ZeroIsBlank
<1>6. LocalsOK'
  <2>1. \A y \in Ptr : mem[ptr_page(y)] # Zero => mem'[ptr_page(y)] # Zero
    BY <1>5, PtrParts, Layout
  <2> QED BY <1>1, <1>3, <2>1 DEF TypeInv, LocalsOK
<1>7. ClosedOK'
  BY <1>1 DEF ClosedOK
<1>8. CreatedOK'
  BY <1>1, <1>2, <1>3 DEF TypeInv, CreatedOK
<1> QED BY <1>1, <1>4, <1>6, <1>7, <1>8 DEF TypeInv

(* The entries of the rowids that are left stay in the index.              *)
LEMMA UnindexTypes == TypeInv /\ Unindex => TypeInv'
<1> SUFFICES ASSUME TypeInv, Unindex PROVE TypeInv'
  OBVIOUS
<1> DEFINE root == mem[root_page_id]
           c == index_remove(root, victim)
<1>1. /\ pc = "unindex" /\ pc' = "delete"
      /\ to_delete' = to_delete \ {victim} /\ count' = count + 1
      /\ Write([mem EXCEPT ![root_page_id] = c])
      /\ UNCHANGED <<next_rowid, cur_heap_page, row, slot, created, crashes>>
  BY DEF Unindex, members, Quiet
<1>2. to_delete # {} /\ victim \in to_delete /\ root # Zero
  <2>1. to_delete # {} /\ victim \in to_delete
    BY <1>1, Victim DEF TypeInv, LocalsOK
  <2> QED BY <2>1 DEF TypeInv, LocalsOK
<1>3. RootOK(root)
  BY <1>2, PageKinds DEF TypeInv
<1>4. RootOK(c) /\ c.dict = {e \in root.dict : e[1] # victim}
  <2> HIDE DEF root
  <2> QED BY <1>3, IndexRemoved
<1>5. c # Zero /\ ContentOK(root_page_id, c)
  BY <1>4, ZeroIsBlank DEF ContentOK
<1> HIDE DEF c
<1>6. /\ PagesOK' /\ mem'[root_page_id] = c
      /\ \A p \in Page : p # root_page_id => mem'[p] = mem[p] /\ versions'[p] \subseteq versions[p]
      /\ versions'[root_page_id] \subseteq versions[root_page_id] \cup {c}
  BY <1>1, <1>5, Layout, WrittenOne DEF TypeInv
<1>7. /\ mem'[SCHEMA_PAGE_ID] = mem[SCHEMA_PAGE_ID]
      /\ versions'[SCHEMA_PAGE_ID] \subseteq versions[SCHEMA_PAGE_ID]
  BY <1>6, Layout
<1>8. MembersOK'
  BY <1>1 DEF TypeInv, MembersOK
<1>9. ASSUME NEW rid \in to_delete'
      PROVE  \E x \in Ptr : <<rid, x>> \in c.dict /\ mem'[ptr_page(x)] # Zero
  <2>1. rid \in to_delete /\ rid # victim
    BY <1>1
  <2>2. PICK x \in Ptr : <<rid, x>> \in root.dict /\ mem[ptr_page(x)] # Zero
    BY <2>1 DEF TypeInv, LocalsOK
  <2>3. <<rid, x>> \in c.dict
    BY <1>4, <2>1, <2>2
  <2>4. mem'[ptr_page(x)] = mem[ptr_page(x)]
    BY <1>6, PtrParts, Layout
  <2> QED BY <2>2, <2>3, <2>4
<1>10. LocalsOK'
  <2>1. \A rid \in to_delete' :
          /\ mem'[root_page_id] # Zero
          /\ \E x \in Ptr : <<rid, x>> \in mem'[root_page_id].dict /\ mem'[ptr_page(x)] # Zero
    BY <1>5, <1>6, <1>9
  <2>2. to_delete' \subseteq Rowid /\ count' \in Nat
    BY <1>1 DEF TypeInv, LocalsOK
  <2> HIDE DEF root
  <2> QED BY <1>1, <2>1, <2>2 DEF TypeInv, LocalsOK
<1>11. ClosedOK' /\ CreatedOK'
  <2>2. created = "kept" => Zero \notin versions'[root_page_id]
    BY <1>5, <1>6 DEF TypeInv, CreatedOK
  <2> QED BY <1>1, <1>7, <2>2 DEF TypeInv, ClosedOK, CreatedOK
<1> QED BY <1>6, <1>8, <1>10, <1>11 DEF TypeInv

(* A deletion is done when no rowid is left.                               *)
LEMMA DoneTypes == TypeInv /\ DeleteDone => TypeInv'
<1> SUFFICES ASSUME TypeInv, DeleteDone PROVE TypeInv'
  OBVIOUS
<1>1. /\ pc = "delete" /\ pc' = "rest" /\ count' = 0
      /\ to_delete = {} /\ to_delete' = to_delete
      /\ UNCHANGED <<mem, versions, next_rowid, cur_heap_page, row, slot, created, crashes>>
  BY DEF DeleteDone, members, Quiet
<1>2. PagesOK'
  BY <1>1 DEF TypeInv, PagesOK, ContentOK, RootOK, MetaOK, HeapOK
<1>3. LocalsOK'
  BY <1>1 DEF TypeInv, LocalsOK
<1>4. MembersOK' /\ ClosedOK' /\ CreatedOK'
  BY <1>1 DEF TypeInv, MembersOK, ClosedOK, CreatedOK
<1> QED BY <1>2, <1>3, <1>4 DEF TypeInv

(* find_by_rowid changes nothing but its answer.                           *)
LEMMA FindTypes ==
  ASSUME TypeInv, NEW rid \in Rowid, Find(rid)
  PROVE  TypeInv'
<1>1. /\ pc = "rest" /\ (pc' = pc \/ (pc' = "hang" /\ mem[root_page_id] = Zero))
      /\ UNCHANGED <<mem, versions, next_rowid, cur_heap_page, row, slot, to_delete, count>>
      /\ UNCHANGED <<created, crashes>>
  BY DEF Find, Endless, members, locals, Quiet
<1>2. PagesOK'
  BY <1>1 DEF TypeInv, PagesOK, ContentOK, RootOK, MetaOK, HeapOK
<1>3. MembersOK'
  BY <1>1 DEF TypeInv, MembersOK
<1>6. LocalsOK'
  <2>1. to_delete = {}
    BY <1>1 DEF TypeInv, LocalsOK
  <2> QED BY <1>1, <2>1 DEF TypeInv, LocalsOK
<1>4. mem[root_page_id] \in versions[root_page_id]
  BY PageKinds DEF TypeInv
<1>5. ClosedOK' /\ CreatedOK'
  BY <1>1, <1>4 DEF TypeInv, ClosedOK, CreatedOK
<1> QED BY <1>2, <1>3, <1>5, <1>6 DEF TypeInv

(* Nor does a step that changes nothing.                                   *)
LEMMA StutterTypes == TypeInv /\ UNCHANGED vars => TypeInv'
<1> SUFFICES ASSUME TypeInv, UNCHANGED vars PROVE TypeInv'
  OBVIOUS
<1>1. UNCHANGED <<mem, versions, next_rowid, cur_heap_page, pc, row, slot, to_delete, count,
                  created, crashes>>
  BY DEF vars, members, locals
<1>2. PagesOK'
  BY <1>1 DEF TypeInv, PagesOK, ContentOK, RootOK, MetaOK, HeapOK
<1>3. MembersOK' /\ LocalsOK' /\ ClosedOK' /\ CreatedOK'
  <2>1. LocalsOK'
    BY <1>1 DEF TypeInv, LocalsOK, HerePtr
  <2> QED BY <1>1, <2>1 DEF TypeInv, MembersOK, ClosedOK, CreatedOK
<1> QED BY <1>2, <1>3 DEF TypeInv

(* An empty file.                                                          *)
LEMMA InitTypes == Init => TypeInv
<1> SUFFICES ASSUME Init PROVE TypeInv
  OBVIOUS
<1>1. \A p \in Page : mem[p] = Zero /\ versions[p] = {Zero}
  BY DEF Init
<1>2. root_page_id \in Page /\ SCHEMA_PAGE_ID \in Page
  BY Layout
<1>3. PagesOK
  BY <1>1 DEF Init, PagesOK, ContentOK
<1>4. MembersOK /\ LocalsOK
  BY BoundsAssumption DEF Init, MembersOK, LocalsOK
<1>5. ClosedOK /\ CreatedOK
  BY <1>1, <1>2 DEF Init, ClosedOK, CreatedOK
<1> QED BY <1>3, <1>4, <1>5 DEF TypeInv

(* So every step keeps the types.                                          *)
LEMMA StepTypes ==
  ASSUME ~Exhaustion, TypeInv, [Next]_vars
  PROVE  TypeInv'
BY CreateTypes, OpenTypes, FlushTypes, CloseTypes, CrashTypes, InsertTypes, IndexTypes, MetaTypes,
   DeleteWhereTypes, FreeTypes, UnindexTypes, DoneTypes, FindTypes, StutterTypes DEF Next, Spin

(* Every page holds what is meant for it, in memory and wherever a crash   *)
(* may take it from.                                                       *)
THEOREM TypesKept ==
  ASSUME ~Exhaustion
  PROVE  Spec => []TypeInv
<1>1. TypeInv /\ [Next]_vars => TypeInv'
  BY StepTypes
<1> QED BY <1>1, InitTypes, PTL DEF Spec

(* The members are those of a table, what a call keeps is well-typed, and  *)
(* what is in memory is what a crash may keep (TypeOK).                    *)
THEOREM TypeCorrect ==
  ASSUME ~Exhaustion
  PROVE  Spec => []TypeOK
<1>1. TypeInv => TypeOK
  BY DEF TypeInv, PagesOK, MembersOK, LocalsOK, TypeOK
<1> QED BY <1>1, TypesKept, PTL

(* A table that CREATE TABLE has made is found whatever crashes later, and *)
(* once it was opened with its page 0 no call goes round a page 0 that was *)
(* never written (CreatedTablesWork).                                      *)
THEOREM CreationLasts ==
  ASSUME ~Exhaustion
  PROVE  Spec => []CreatedTablesWork
<1>1. TypeInv => CreatedTablesWork
  BY DEF TypeInv, MembersOK, CreatedOK, CreatedTablesWork, AtRest
<1> QED BY <1>1, TypesKept, PTL

(* As long as heap pages do not run out the meta page holds meta data: no  *)
(* heap page takes its place (MetaPageIsMeta).                             *)
THEOREM MetaPageKept ==
  ASSUME ~Exhaustion
  PROVE  Spec => []MetaPageIsMeta
<1>1. TypeInv => MetaPageIsMeta
  <2>1. ASSUME TypeInv, mem[SCHEMA_PAGE_ID] # Zero PROVE MetaOK(mem[SCHEMA_PAGE_ID])
    BY <2>1, PageKinds DEF TypeInv
  <2> QED BY <2>1 DEF MetaPageIsMeta, MetaOK, Meta
<1> QED BY <1>1, TypesKept, PTL

-----------------------------------------------------------------------------
(* The index and the heap, on top of the types that are kept.              *)

(* Before the first crash, index and heap agree, up to the slot that the   *)
(* call in progress has filled or freed.                                   *)
LivePtrs == {x \in Ptr : LiveAt(mem, x)}
Named == {e[2] : e \in mem[root_page_id].dict}

MatchOK ==
  crashes = 0 =>
    /\ mem[root_page_id] = Zero => pc = "closed" /\ \A p \in Page : mem[p] = Zero
    /\ mem[root_page_id] # Zero =>
         /\ \A e, f \in mem[root_page_id].dict : e[2] = f[2] => e = f
         /\ pc \notin {"index", "unindex"} => Named = LivePtrs
         /\ pc = "index" => HerePtr \notin Named /\ Named \cup {HerePtr} = LivePtrs
         /\ pc = "unindex" =>
              \E x \in Ptr :
                /\ <<victim, x>> \in mem[root_page_id].dict
                /\ x \notin LivePtrs /\ Named = LivePtrs \cup {x}

(* Until then the index holds, and the table has returned, only rowids     *)
(* below the one that comes next: the member, or the meta page's when the  *)
(* file is closed.                                                         *)
Coming == IF pc = "closed" THEN read_meta(mem).next_rowid ELSE next_rowid

NumbersOK ==
  crashes = 0 =>
    /\ mem[root_page_id] # Zero => \A e \in mem[root_page_id].dict : e[1] < Coming
    /\ \A rid \in issued : rid \in Nat /\ rid < Coming /\ (pc = "meta" => rid < Coming - 1)

(* Wherever a crash takes the pages from, a committed row is among them:   *)
(* under its rowid in the index, in the slot that this names and no other  *)
(* rowid does, and with a rowid less than the next.                        *)
Safe(e) ==
  \E x \in Ptr :
    /\ \A v \in versions[root_page_id] :
         /\ v # Zero /\ <<e[1], x>> \in v.dict
         /\ \A f \in v.dict : f[2] = x => f[1] = e[1]
    /\ \A w \in versions[ptr_page(x)] :
         w # Zero /\ ptr_slot(x) \in LiveIn(w) /\ get(w, ptr_slot(x)) = e[2]
    /\ \A z \in versions[SCHEMA_PAGE_ID] : z # Zero /\ e[1] < z.next_rowid
    /\ pc # "closed" => e[1] < next_rowid
    /\ pc = "index" => x # HerePtr
    /\ pc = "unindex" => e[1] # victim

CommittedOK == \A e \in committed : e \in Rowid \X Row /\ Safe(e)

IInv == TypeInv /\ MatchOK /\ NumbersOK /\ CommittedOK

-----------------------------------------------------------------------------
(* What the actions do to the live slots.                                  *)

(* An insert leaves every live row where it is.  One that succeeds makes   *)
(* one more slot live.                                                     *)
LEMMA InsertLive ==
  ASSUME TypeInv, ~Exhaustion, NEW r \in Row, InsertRow(r)
  PROVE  /\ \A x \in Ptr : LiveAt(mem, x) =>
              /\ LiveAt(mem', x)
              /\ get(mem'[ptr_page(x)], ptr_slot(x)) = get(mem[ptr_page(x)], ptr_slot(x))
         /\ mem'[root_page_id] = mem[root_page_id]
         /\ mem'[SCHEMA_PAGE_ID] = mem[SCHEMA_PAGE_ID]
         /\ \A p \in Page \ HeapPage : versions'[p] \subseteq versions[p]
         /\ \A p \in Page : versions'[p] \subseteq versions[p] \cup {mem'[p]}
         /\ \/ pc' = "rest" /\ LivePtrs' = LivePtrs
            \/ /\ pc' = "index" /\ HerePtr' \in Ptr \ LivePtrs
               /\ LivePtrs' = LivePtrs \cup {HerePtr'}
<1>1. PICK page \in HeapPage : \E base \in {mem[page], init} :
        /\ HeapOK(base) /\ (base = mem[page] \/ (mem[page] = Zero /\ base = init))
        /\ PagesOK' /\ cur_heap_page' = page
        /\ \A p \in Page : p # page => mem'[p] = mem[p] \/ (mem[p] = Zero /\ mem'[p] = init)
        /\ \A p \in Page \ HeapPage : mem'[p] = mem[p] /\ versions'[p] \subseteq versions[p]
        /\ \A p \in Page : versions'[p] \subseteq versions[p] \cup {mem'[p]}
        /\ \/ mem'[page] = base /\ pc' = pc
           \/ /\ fits(base, r) /\ mem'[page] = insert(base, r)
              /\ slot' = next_slot(base) /\ pc' = "index"
  BY InsertRowEffect DEF TypeInv
<1>2. PICK base \in {mem[page], init} :
        /\ HeapOK(base) /\ (base = mem[page] \/ (mem[page] = Zero /\ base = init))
        /\ \/ mem'[page] = base /\ pc' = pc
           \/ /\ fits(base, r) /\ mem'[page] = insert(base, r)
              /\ slot' = next_slot(base) /\ pc' = "index"
  BY <1>1
<1>3. LiveIn(init) = {} /\ init # Zero /\ base # Zero
  BY <1>2, HeapInit, ZeroIsBlank
<1>4. ASSUME NEW x \in Ptr, ptr_page(x) # page
      PROVE  /\ LiveAt(mem', x) <=> LiveAt(mem, x)
             /\ LiveAt(mem, x) =>
                  get(mem'[ptr_page(x)], ptr_slot(x)) = get(mem[ptr_page(x)], ptr_slot(x))
  <2>1. ptr_page(x) \in Page
    BY PtrParts, Layout
  <2> QED BY <1>1, <1>3, <1>4, <2>1 DEF LiveAt
<1>5. ASSUME NEW x \in Ptr, ptr_page(x) = page
      PROVE  /\ LiveAt(mem, x) <=> ptr_slot(x) \in LiveIn(base)
             /\ LiveAt(mem, x) => base = mem[page]
  BY <1>2, <1>3, <1>5 DEF LiveAt
<1>6. /\ mem'[root_page_id] = mem[root_page_id] /\ mem'[SCHEMA_PAGE_ID] = mem[SCHEMA_PAGE_ID]
  BY <1>1, Layout
<1>7. CASE mem'[page] = base /\ pc' = pc
  <2>1. pc' = "rest"
    BY <1>7 DEF InsertRow
  <2>2. \A x \in Ptr : /\ LiveAt(mem', x) <=> LiveAt(mem, x)
                       /\ LiveAt(mem, x) => get(mem'[ptr_page(x)], ptr_slot(x))
                                              = get(mem[ptr_page(x)], ptr_slot(x))
    BY <1>3, <1>4, <1>5, <1>7 DEF LiveAt
  <2> QED BY <1>1, <1>6, <2>1, <2>2 DEF LivePtrs
<1>8. CASE /\ fits(base, r) /\ mem'[page] = insert(base, r)
           /\ slot' = next_slot(base) /\ pc' = "index"
  <2> DEFINE w == mem'[page]
             n == slot'
  <2>1. /\ HeapOK(w) /\ LiveIn(w) = LiveIn(base) \cup {n} /\ n \notin LiveIn(base)
        /\ \A s \in LiveIn(base) : get(w, s) = get(base, s)
        /\ n \in Slots(w)
    BY <1>2, <1>8, HeapInserted
  <2>2. n \in 0 .. SLOTS - 1 /\ w # Zero
    BY <2>1, SlotsFit, ZeroIsBlank DEF HeapOK
  <2>3. HerePtr' = pack_ptr(page, n)
    BY <1>1 DEF HerePtr
  <2>4. HerePtr' \in Ptr /\ ptr_page(HerePtr') = page /\ ptr_slot(HerePtr') = n
    BY <2>2, <2>3, PackInverse
  <2>5. ASSUME NEW x \in Ptr
        PROVE  /\ x = HerePtr' <=> ptr_page(x) = page /\ ptr_slot(x) = n
    BY <2>3, <2>4, PtrParts
  <2> HIDE DEF n
  <2>6. HerePtr' \notin LivePtrs
    BY <1>5, <2>1, <2>4 DEF LivePtrs
  <2>7. ASSUME NEW x \in Ptr, ptr_page(x) = page
        PROVE  LiveAt(mem', x) <=> (LiveAt(mem, x) \/ x = HerePtr')
    BY <1>5, <2>1, <2>2, <2>5, <2>7 DEF LiveAt
  <2>8. LivePtrs' = LivePtrs \cup {HerePtr'}
    BY <1>4, <2>4, <2>7 DEF LivePtrs
  <2>9. \A x \in Ptr : LiveAt(mem, x) =>
          /\ LiveAt(mem', x)
          /\ get(mem'[ptr_page(x)], ptr_slot(x)) = get(mem[ptr_page(x)], ptr_slot(x))
    BY <1>4, <1>5, <2>1, <2>7
  <2> QED BY <1>1, <1>6, <1>8, <2>4, <2>6, <2>8, <2>9
<1> QED BY <1>2, <1>7, <1>8

(* A deleted row's slot is freed and no other.                             *)
LEMMA FreeLive ==
  ASSUME TypeInv, FreeSlot
  PROVE  \E x \in Ptr :
           /\ <<victim, x>> \in mem[root_page_id].dict /\ victim' = victim
           /\ mem[root_page_id] # Zero
           /\ LivePtrs' = LivePtrs \ {x}
           /\ \A y \in Ptr \ {x} : LiveAt(mem, y) =>
                /\ LiveAt(mem', y)
                /\ get(mem'[ptr_page(y)], ptr_slot(y)) = get(mem[ptr_page(y)], ptr_slot(y))
           /\ mem'[root_page_id] = mem[root_page_id]
           /\ mem'[SCHEMA_PAGE_ID] = mem[SCHEMA_PAGE_ID]
           /\ \A p \in Page \ HeapPage : versions'[p] \subseteq versions[p]
           /\ \A p \in Page : versions'[p] \subseteq versions[p] \cup {mem'[p]}
           /\ pc = "delete" /\ pc' = "unindex" /\ UNCHANGED <<next_rowid, crashes>>
<1>1. PICK x \in Ptr :
        /\ mem[root_page_id] # Zero /\ victim' = victim
        /\ <<victim, x>> \in mem[root_page_id].dict /\ ptr_page(x) \in Page
        /\ HeapOK(mem[ptr_page(x)]) /\ HeapOK(mem'[ptr_page(x)])
        /\ LiveIn(mem'[ptr_page(x)]) = LiveIn(mem[ptr_page(x)]) \ {ptr_slot(x)}
        /\ \A t \in LiveIn(mem'[ptr_page(x)]) :
             get(mem'[ptr_page(x)], t) = get(mem[ptr_page(x)], t)
        /\ \A p \in Page : p # ptr_page(x) =>
             mem'[p] = mem[p] /\ versions'[p] \subseteq versions[p]
        /\ \A p \in Page : versions'[p] \subseteq versions[p] \cup {mem'[p]}
        /\ pc = "delete" /\ pc' = "unindex" /\ UNCHANGED <<next_rowid, crashes>>
  BY FreeSlotEffect
<1>2. ASSUME NEW y \in Ptr
      PROVE  /\ LiveAt(mem', y) <=> (LiveAt(mem, y) /\ y # x)
             /\ LiveAt(mem', y) =>
                  get(mem'[ptr_page(y)], ptr_slot(y)) = get(mem[ptr_page(y)], ptr_slot(y))
  <2>1. ptr_page(y) \in Page
    BY PtrParts, Layout
  <2>2. CASE ptr_page(y) # ptr_page(x)
    BY <1>1, <2>1, <2>2 DEF LiveAt
  <2>3. CASE ptr_page(y) = ptr_page(x)
    <3>1. y = x <=> ptr_slot(y) = ptr_slot(x)
      BY <2>3, PtrParts
    <3>2. mem[ptr_page(x)] # Zero /\ mem'[ptr_page(x)] # Zero
      BY <1>1, ZeroIsBlank
    <3> QED BY <1>1, <2>3, <3>1, <3>2 DEF LiveAt
  <2> QED BY <2>2, <2>3
<1>3. LivePtrs' = LivePtrs \ {x}
  BY <1>2 DEF LivePtrs
<1>4. ptr_page(x) \in HeapPage
  BY PtrParts
<1>5. /\ mem'[root_page_id] = mem[root_page_id] /\ mem'[SCHEMA_PAGE_ID] = mem[SCHEMA_PAGE_ID]
      /\ \A p \in Page \ HeapPage : versions'[p] \subseteq versions[p]
  BY <1>1, <1>4, Layout
<1> QED BY <1>1, <1>2, <1>3, <1>5

(* Pages other than heap pages have no part in what is live.               *)
LEMMA LiveSame ==
  ASSUME \A p \in HeapPage : mem'[p] = mem[p]
  PROVE  LivePtrs' = LivePtrs
BY PtrParts DEF LivePtrs, LiveAt

-----------------------------------------------------------------------------
(* Every action preserves MatchOK.                                         *)

(* The actions that write no heap page and not the index.                  *)
LEMMA QuietMatch ==
  ASSUME MatchOK, \A p \in HeapPage : mem'[p] = mem[p], mem'[root_page_id] = mem[root_page_id],
         crashes' = crashes, pc \notin {"closed", "index", "unindex"},
         pc' \notin {"index", "unindex"}
  PROVE  MatchOK'
<1>1. LivePtrs' = LivePtrs /\ Named' = Named
  BY LiveSame DEF Named
<1> QED BY <1>1 DEF MatchOK

(* A new table has no rows and no entries.                                 *)
LEMMA CreateMatch == TypeInv /\ MatchOK /\ Create => MatchOK'
<1> SUFFICES ASSUME TypeInv, MatchOK, Create PROVE MatchOK'
  OBVIOUS
<1> DEFINE m == [mem EXCEPT ![root_page_id] = Index({}), ![HEAP_PAGE_BASE] = init,
                            ![SCHEMA_PAGE_ID] = Meta(1, HEAP_PAGE_BASE)]
<1>1. mem = [p \in Page |-> mem[p]] /\ \A p \in Page : mem[p] = Zero
  BY DEF Create, TypeInv, PagesOK
<1>2. /\ HEAP_PAGE_BASE \in Page /\ HeapPage \subseteq Page /\ root_page_id \in Page
      /\ root_page_id \notin HeapPage /\ SCHEMA_PAGE_ID \notin HeapPage
      /\ root_page_id # HEAP_PAGE_BASE /\ root_page_id # SCHEMA_PAGE_ID
  BY Layout
<1>3. m = [p \in Page |-> IF p = SCHEMA_PAGE_ID THEN Meta(1, HEAP_PAGE_BASE)
                          ELSE IF p = HEAP_PAGE_BASE THEN init
                          ELSE IF p = root_page_id THEN Index({})
                          ELSE mem[p]]
  BY <1>1, <1>2
<1>4. m[root_page_id] = Index({}) /\ \A p \in HeapPage : m[p] \in {init, Zero}
  BY <1>1, <1>2, <1>3
<1>5. mem' = m /\ pc' = "flush"
  BY DEF Create, Write
<1> HIDE DEF m
<1>6. mem'[root_page_id].dict = {} /\ Named' = {}
  BY <1>4, <1>5 DEF Index, Named
<1>7. mem'[root_page_id] # Zero
  BY <1>5 , CreateTypes DEF TypeInv, CreatedOK
<1>8. LivePtrs' = {}
  BY <1>4, <1>5, HeapInit, PtrParts DEF LivePtrs, LiveAt
<1> QED BY <1>5, <1>6, <1>7, <1>8 DEF MatchOK

(* An existing table has an index, or a crash has taken it.                *)
LEMMA OpenMatch == MatchOK /\ OpenTable => MatchOK'
<1> SUFFICES ASSUME MatchOK, OpenTable PROVE MatchOK'
  OBVIOUS
<1>1. /\ pc = "closed" /\ pc' = "rest" /\ UNCHANGED <<mem, crashes>>
      /\ \E p \in Page : mem[p] # Zero
  BY DEF OpenTable, Quiet
<1>2. LivePtrs' = LivePtrs /\ Named' = Named
  BY <1>1, LiveSame DEF Named
<1> QED BY <1>1, <1>2 DEF MatchOK

(* A row that is stored has the one live slot that is not yet named.       *)
LEMMA InsertMatch ==
  ASSUME TypeInv, MatchOK, ~Exhaustion, NEW r \in Row, InsertRow(r)
  PROVE  MatchOK'
<1>1. pc = "rest" /\ crashes' = crashes
  BY DEF InsertRow, Quiet
<1>2. /\ mem'[root_page_id] = mem[root_page_id]
      /\ \/ pc' = "rest" /\ LivePtrs' = LivePtrs
         \/ /\ pc' = "index" /\ HerePtr' \in Ptr \ LivePtrs
            /\ LivePtrs' = LivePtrs \cup {HerePtr'}
  BY InsertLive
<1>3. Named' = Named
  BY <1>2 DEF Named
<1> QED BY <1>1, <1>2, <1>3 DEF MatchOK

(* Its entry names it.                                                     *)
LEMMA IndexMatch == TypeInv /\ MatchOK /\ NumbersOK /\ IndexRow => MatchOK'
<1> SUFFICES ASSUME TypeInv, MatchOK, NumbersOK, IndexRow, crashes' = 0 PROVE MatchOK'
  BY DEF MatchOK
<1> DEFINE root == mem[root_page_id]
           c == index_insert(root, next_rowid, HerePtr)
<1>1. pc = "index" /\ crashes = 0
  BY DEF IndexRow, Quiet
<1>2. root # Zero
  BY <1>1 DEF MatchOK
<1>3. pc' = "meta" /\ Write([mem EXCEPT ![root_page_id] = c])
  BY <1>2 DEF IndexRow, Endless, HerePtr
<1>4. next_rowid \in Rowid /\ HerePtr \in Ptr
  <2>1. next_rowid \in 1 .. MaxRowid /\ cur_heap_page \in HeapPage /\ slot \in 0 .. SLOTS - 1
    BY <1>1, BoundsAssumption DEF TypeInv, LocalsOK, MembersOK
  <2> QED BY <2>1, PackInverse DEF Rowid, HerePtr
<1>5. RootOK(root)
  BY <1>2, PageKinds DEF TypeInv
<1>6. RootOK(c) /\ c.dict = {e \in root.dict : e[1] # next_rowid} \cup {<<next_rowid, HerePtr>>}
  <2> HIDE DEF root
  <2> QED BY <1>4, <1>5, IndexInserted
<1>7. c # Zero /\ ContentOK(root_page_id, c)
  BY <1>6, ZeroIsBlank DEF ContentOK
<1> HIDE DEF c
<1>8. mem'[root_page_id] = c /\ \A p \in HeapPage : mem'[p] = mem[p]
  <2>1. mem'[root_page_id] = c /\ \A p \in Page : p # root_page_id => mem'[p] = mem[p]
    BY <1>3, <1>7, Layout, WrittenOne DEF TypeInv
  <2> QED BY <2>1, Layout
<1>9. LivePtrs' = LivePtrs
  BY <1>8, LiveSame
<1>10. /\ \A e, f \in root.dict : e[2] = f[2] => e = f
       /\ HerePtr \notin Named /\ Named \cup {HerePtr} = LivePtrs
  BY <1>1, <1>2 DEF MatchOK
<1>11. \A e \in root.dict : e[1] # next_rowid
  <2>1. \A e \in root.dict : e[1] < next_rowid
    BY <1>1, <1>2 DEF NumbersOK, Coming
  <2> QED BY <1>4, <1>5, <2>1 DEF RootOK, Rowid
<1>12. c.dict = root.dict \cup {<<next_rowid, HerePtr>>}
  BY <1>6, <1>11
<1>13. Named' = Named \cup {HerePtr}
  <2>1. Named' = {e[2] : e \in root.dict \cup {<<next_rowid, HerePtr>>}}
    BY <1>8, <1>12 DEF Named
  <2>2. <<next_rowid, HerePtr>>[2] = HerePtr
    OBVIOUS
  <2>3. Named = {e[2] : e \in root.dict}
    BY DEF Named
  <2> HIDE DEF root
  <2> QED BY <2>1, <2>2, <2>3
<1>14. \A e, f \in mem'[root_page_id].dict : e[2] = f[2] => e = f
  BY <1>8, <1>10, <1>12 DEF Named
<1> QED BY <1>3, <1>7, <1>8, <1>9, <1>10, <1>13, <1>14 DEF MatchOK

(* The victim's entry is the one whose slot is freed.                      *)
LEMMA FreeMatch == TypeInv /\ MatchOK /\ FreeSlot => MatchOK'
<1> SUFFICES ASSUME TypeInv, MatchOK, FreeSlot, crashes' = 0 PROVE MatchOK'
  BY DEF MatchOK
<1>1. PICK x \in Ptr :
        /\ <<victim, x>> \in mem[root_page_id].dict /\ victim' = victim
        /\ mem[root_page_id] # Zero
        /\ LivePtrs' = LivePtrs \ {x}
        /\ mem'[root_page_id] = mem[root_page_id]
        /\ pc = "delete" /\ pc' = "unindex" /\ crashes' = crashes
  BY FreeLive
<1>2. Named = LivePtrs /\ \A e, f \in mem[root_page_id].dict : e[2] = f[2] => e = f
  BY <1>1 DEF MatchOK
<1>3. Named' = Named
  BY <1>1 DEF Named
<1>4. x \in Named
  <2>1. <<victim, x>>[2] = x
    OBVIOUS
  <2> QED BY <1>1, <2>1 DEF Named
<1>5. x \notin LivePtrs' /\ Named' = LivePtrs' \cup {x}
  BY <1>1, <1>2, <1>3, <1>4
<1> QED BY <1>1, <1>2, <1>5 DEF MatchOK

(* Then the entry goes, too.                                               *)
LEMMA UnindexMatch == TypeInv /\ MatchOK /\ Unindex => MatchOK'
<1> SUFFICES ASSUME TypeInv, MatchOK, Unindex, crashes' = 0 PROVE MatchOK'
  BY DEF MatchOK
<1> DEFINE root == mem[root_page_id]
           c == index_remove(root, victim)
<1>1. /\ pc = "unindex" /\ pc' = "delete" /\ crashes = 0
      /\ Write([mem EXCEPT ![root_page_id] = c])
  BY DEF Unindex, Quiet
<1>2. root # Zero
  BY <1>1 DEF MatchOK
<1>3. PICK x \in Ptr : /\ <<victim, x>> \in root.dict
                       /\ x \notin LivePtrs /\ Named = LivePtrs \cup {x}
  BY <1>1, <1>2 DEF MatchOK
<1>4. \A e, f \in root.dict : e[2] = f[2] => e = f
  BY <1>1, <1>2 DEF MatchOK
<1>5. RootOK(root)
  BY <1>2, PageKinds DEF TypeInv
<1>6. RootOK(c) /\ c.dict = {e \in root.dict : e[1] # victim}
  <2> HIDE DEF root
  <2> QED BY <1>5, IndexRemoved
<1>7. c # Zero /\ ContentOK(root_page_id, c)
  BY <1>6, ZeroIsBlank DEF ContentOK
<1> HIDE DEF c
<1>8. mem'[root_page_id] = c /\ \A p \in HeapPage : mem'[p] = mem[p]
  <2>1. mem'[root_page_id] = c /\ \A p \in Page : p # root_page_id => mem'[p] = mem[p]
    BY <1>1, <1>7, Layout, WrittenOne DEF TypeInv
  <2> QED BY <2>1, Layout
<1>9. LivePtrs' = LivePtrs
  BY <1>8, LiveSame
<1>10. Named' = {e[2] : e \in c.dict} /\ Named = {e[2] : e \in root.dict}
  BY <1>8 DEF Named
<1> HIDE DEF root
<1>11. \A e \in root.dict : e[1] = victim <=> e[2] = x
  <2>1. \A e \in root.dict : e[1] = victim => e = <<victim, x>>
    BY <1>3, <1>5 DEF RootOK
  <2>2. \A e \in root.dict : e[2] = x => e = <<victim, x>>
    BY <1>3, <1>4
  <2> QED BY <2>1, <2>2
<1>12. Named' = LivePtrs
  BY <1>3, <1>6, <1>10, <1>11
<1> QED BY <1>1, <1>4, <1>6, <1>7, <1>8, <1>9, <1>12 DEF MatchOK

(* The other actions, of which a crash alone ends the agreement.           *)
LEMMA OtherMatch ==
  ASSUME TypeInv, MatchOK,
         \/ FlushDone \/ Close \/ Crash \/ WriteMeta \/ DeleteDone \/ UNCHANGED vars
         \/ \E P \in Predicate : DeleteWhere(P)
         \/ \E rid \in Rowid : Find(rid)
  PROVE  MatchOK'
<1>1. CASE FlushDone \/ DeleteDone \/ \E P \in Predicate : DeleteWhere(P)
  <2>1. /\ mem' = mem /\ crashes' = crashes /\ pc \in {"flush", "closing", "delete", "rest"}
        /\ pc' \notin {"index", "unindex"}
    BY <1>1 DEF FlushDone, Flushed, DeleteDone, DeleteWhere, Endless, Quiet
  <2> QED BY <2>1, QuietMatch
<1>2. CASE Close \/ WriteMeta
  <2> DEFINE z == Meta(next_rowid, cur_heap_page)
  <2>1. /\ crashes' = crashes /\ pc \in {"rest", "meta"} /\ pc' \in {"closing", "rest"}
        /\ mem' = [mem EXCEPT ![SCHEMA_PAGE_ID] = z]
    BY <1>2 DEF Close, WriteMeta, Quiet, Write
  <2>2. mem = [p \in Page |-> mem[p]]
    BY DEF TypeInv, PagesOK
  <2>3. mem' = [p \in Page |-> IF p = SCHEMA_PAGE_ID THEN z ELSE mem[p]]
    BY <2>1, <2>2
  <2>4. mem'[root_page_id] = mem[root_page_id] /\ \A p \in HeapPage : mem'[p] = mem[p]
    BY <2>3, Layout
  <2> QED BY <2>1, <2>4, QuietMatch
<1>3. CASE Crash
  <2>1. crashes' # 0
    BY <1>3 DEF Crash, TypeInv, LocalsOK
  <2> QED BY <2>1 DEF MatchOK
<1>4. CASE \E rid \in Rowid : Find(rid)
  <2>1. /\ mem' = mem /\ crashes' = crashes /\ pc = "rest"
        /\ pc' = "rest" \/ (pc' = "hang" /\ mem[root_page_id] = Zero)
    BY <1>4 DEF Find, Endless, Quiet
  <2>2. CASE pc' = "rest"
    BY <2>1, <2>2, QuietMatch
  <2>3. CASE mem[root_page_id] = Zero
    BY <2>1, <2>3 DEF MatchOK
  <2> QED BY <2>1, <2>2, <2>3
<1>5. CASE UNCHANGED vars
  <2>1. UNCHANGED <<mem, crashes, pc, cur_heap_page, slot, to_delete>>
    BY <1>5 DEF vars, members, locals
  <2>2. LivePtrs' = LivePtrs /\ Named' = Named /\ HerePtr' = HerePtr /\ victim' = victim
    BY <2>1, LiveSame DEF Named, HerePtr, victim
  <2> QED BY <2>1, <2>2 DEF MatchOK
<1> QED BY <1>1, <1>2, <1>3, <1>4, <1>5

(* An empty file has neither.                                              *)
LEMMA InitMatch == Init => MatchOK
BY Layout DEF Init, MatchOK

(* So a table without crashes stays in agreement.                          *)
LEMMA StepMatch ==
  ASSUME ~Exhaustion, TypeInv, MatchOK, NumbersOK, [Next]_vars
  PROVE  MatchOK'
BY CreateMatch, OpenMatch, InsertMatch, IndexMatch, FreeMatch, UnindexMatch, OtherMatch
   DEF Next, Spin

-----------------------------------------------------------------------------
(* Rowids stay below the one that comes next.                              *)

(* While the file is open the member says which that is.                   *)
LEMMA OpenNumbers ==
  ASSUME NumbersOK, crashes' = crashes, pc # "closed", pc' # "closed",
         next_rowid' = next_rowid, pc' # "meta", issued' = issued,
         mem'[root_page_id] = mem[root_page_id]
  PROVE  NumbersOK'
BY DEF NumbersOK, Coming

(* Only what adds an entry, or returns a rowid, moves on to the next.      *)
LEMMA NumbersKept ==
  ASSUME ~Exhaustion, TypeInv, NumbersOK, [Next]_vars
  PROVE  NumbersOK'
<1>1. CASE Create
  <2> SUFFICES ASSUME crashes' = 0 PROVE NumbersOK'
    BY DEF NumbersOK
  <2>1. /\ pc = "closed" /\ mem[SCHEMA_PAGE_ID] = Zero /\ crashes = 0
        /\ next_rowid' = 1 /\ pc' = "flush" /\ issued' = issued
    BY <1>1, Layout DEF Create, Quiet
  <2>2. Coming = 0 /\ Coming' = 1
    BY <2>1 DEF Coming, read_meta, Meta
  <2>3. mem'[root_page_id] = Index({})
    <3> DEFINE m == [mem EXCEPT ![root_page_id] = Index({}), ![HEAP_PAGE_BASE] = init,
                                ![SCHEMA_PAGE_ID] = Meta(1, HEAP_PAGE_BASE)]
    <3>1. mem = [p \in Page |-> mem[p]]
      BY DEF TypeInv, PagesOK
    <3>2. m[root_page_id] = Index({})
      BY <3>1, Layout
    <3>3. mem' = m
      BY <1>1 DEF Create, Write
    <3> QED BY <3>2, <3>3
  <2> QED BY <2>1, <2>2, <2>3 DEF NumbersOK, Index
<1>2. CASE OpenTable
  <2>1. Coming' = Coming /\ UNCHANGED <<mem, crashes, issued>> /\ pc' = "rest"
    BY <1>2 DEF OpenTable, Coming, Quiet
  <2> QED BY <2>1 DEF NumbersOK
<1>3. CASE FlushDone
  <2>1. /\ UNCHANGED <<mem, crashes, issued>>
        /\ mem[SCHEMA_PAGE_ID] = Meta(next_rowid, cur_heap_page)
        /\ \/ pc = "flush" /\ pc' = "rest" /\ next_rowid' = next_rowid
           \/ pc = "closing" /\ pc' = "closed"
    BY <1>3 DEF FlushDone, Flushed, members, TypeInv, LocalsOK
  <2>2. MetaOK(Meta(next_rowid, cur_heap_page))
    BY DEF TypeInv, MembersOK, MetaOK, Meta
  <2>3. read_meta(mem).next_rowid = next_rowid
    BY <2>1, <2>2, ZeroIsBlank DEF read_meta, Meta
  <2>4. Coming' = Coming
    BY <2>1, <2>3 DEF Coming
  <2> QED BY <2>1, <2>4 DEF NumbersOK
<1>4. CASE Close
  <2>1. /\ pc = "rest" /\ pc' = "closing" /\ UNCHANGED <<next_rowid, crashes, issued>>
        /\ mem' = [mem EXCEPT ![SCHEMA_PAGE_ID] = Meta(next_rowid, cur_heap_page)]
    BY <1>4 DEF Close, members, Quiet, Write
  <2>2. mem'[root_page_id] = mem[root_page_id]
    BY <2>1, Layout DEF TypeInv, PagesOK
  <2> QED BY <2>1, <2>2, OpenNumbers
<1>5. CASE Crash
  <2>1. crashes' # 0
    BY <1>5 DEF Crash, TypeInv, LocalsOK
  <2> QED BY <2>1 DEF NumbersOK
<1>6. CASE \E r \in Row : InsertRow(r)
  <2>1. PICK r \in Row : InsertRow(r)
    BY <1>6
  <2>2. pc = "rest" /\ UNCHANGED <<next_rowid, crashes, issued>>
    BY <2>1 DEF InsertRow, Quiet
  <2>3. mem'[root_page_id] = mem[root_page_id] /\ pc' \in {"rest", "index"}
    BY <2>1, InsertLive
  <2> QED BY <2>2, <2>3, OpenNumbers
<1>7. CASE IndexRow
  <2> DEFINE root == mem[root_page_id]
             c == index_insert(root, next_rowid, HerePtr)
  <2>1. /\ pc = "index" /\ next_rowid' = next_rowid + 1 /\ next_rowid \in Nat
        /\ pc' \in {"meta", "hang"} /\ UNCHANGED <<crashes, issued>>
    BY <1>7 DEF IndexRow, Endless, Quiet, TypeInv, MembersOK
  <2>2. Coming = next_rowid /\ Coming' = next_rowid + 1
    BY <2>1 DEF Coming
  <2>3. CASE root = Zero
    <3>1. mem' = mem /\ pc' = "hang"
      BY <1>7, <2>3 DEF IndexRow, Endless
    <3> QED BY <2>1, <2>2, <2>3, <3>1 DEF NumbersOK
  <2>4. CASE root # Zero
    <3>1. mem' = [mem EXCEPT ![root_page_id] = c]
      BY <1>7, <2>4 DEF IndexRow, Endless, Write, HerePtr
    <3>2. mem'[root_page_id] = c
      BY <3>1, Layout DEF TypeInv, PagesOK
    <3>3. c.dict \subseteq root.dict \cup {<<next_rowid, HerePtr>>}
      BY DEF index_insert, Index, Without
    <3>4. RootOK(root)
      BY <2>4, PageKinds DEF TypeInv
    <3>5. \A e \in root.dict : e[1] \in Nat
      BY <3>4 DEF RootOK, Rowid
    <3> HIDE DEF c
    <3>6. crashes = 0 => \A e \in mem'[root_page_id].dict : e[1] < next_rowid + 1
      BY <2>1, <2>2, <2>4, <3>2, <3>3, <3>5 DEF NumbersOK
    <3> QED BY <2>1, <2>2, <3>6 DEF NumbersOK
  <2> QED BY <2>3, <2>4
<1>8. CASE WriteMeta
  <2>1. /\ pc = "meta" /\ pc' = "rest" /\ UNCHANGED <<next_rowid, crashes>>
        /\ issued' = issued \cup {next_rowid - 1} /\ next_rowid \in Nat /\ next_rowid > 1
        /\ mem' = [mem EXCEPT ![SCHEMA_PAGE_ID] = Meta(next_rowid, cur_heap_page)]
    BY <1>8 DEF WriteMeta, members, Write, TypeInv, MembersOK, LocalsOK
  <2>2. mem'[root_page_id] = mem[root_page_id]
    BY <2>1, Layout DEF TypeInv, PagesOK
  <2>3. Coming = next_rowid /\ Coming' = next_rowid
    BY <2>1 DEF Coming
  <2> QED BY <2>1, <2>2, <2>3 DEF NumbersOK
<1>9. CASE Unindex
  <2> DEFINE root == mem[root_page_id]
             c == index_remove(root, victim)
  <2>1. /\ pc = "unindex" /\ pc' = "delete" /\ UNCHANGED <<next_rowid, crashes, issued>>
        /\ mem' = [mem EXCEPT ![root_page_id] = c]
    BY <1>9 DEF Unindex, members, Quiet, Write
  <2>2. mem'[root_page_id] = c
    BY <2>1, Layout DEF TypeInv, PagesOK
  <2>3. c.dict \subseteq root.dict
    BY DEF index_remove, Index, Without
  <2>4. to_delete # {} /\ root # Zero
    BY <2>1 DEF TypeInv, LocalsOK
  <2> HIDE DEF c
  <2> QED BY <2>1, <2>2, <2>3, <2>4 DEF NumbersOK, Coming
<1>10. CASE FreeSlot
  <2>1. /\ mem'[root_page_id] = mem[root_page_id] /\ pc = "delete" /\ pc' = "unindex"
        /\ UNCHANGED <<next_rowid, crashes>>
    BY <1>10, FreeLive
  <2>2. UNCHANGED issued
    BY <1>10 DEF FreeSlot
  <2> QED BY <2>1, <2>2, OpenNumbers
<1>11. CASE DeleteDone \/ (\E P \in Predicate : DeleteWhere(P)) \/ \E rid \in Rowid : Find(rid)
  <2>1. /\ UNCHANGED <<mem, next_rowid, crashes, issued>>
        /\ pc \in {"delete", "rest"} /\ pc' \in {"rest", "delete", "hang"}
    BY <1>11 DEF DeleteDone, DeleteWhere, Find, Endless, members, Quiet
  <2> QED BY <2>1, OpenNumbers
<1>12. CASE UNCHANGED vars
  <2>1. UNCHANGED <<mem, next_rowid, crashes, issued, pc>>
    BY <1>12 DEF vars, members
  <2> QED BY <2>1 DEF NumbersOK, Coming
<1> QED BY <1>1, <1>2, <1>3, <1>4, <1>5, <1>6, <1>7, <1>8, <1>9, <1>10, <1>11, <1>12 DEF Next, Spin

(* An empty file has no rowids.                                            *)
LEMMA InitNumbers == Init => NumbersOK
BY Layout DEF Init, NumbersOK

-----------------------------------------------------------------------------
(* Committed rows stay safe.                                               *)

(* Nothing is written that is not a version of some page already.          *)
LEMMA SafeUnwritten ==
  ASSUME TypeInv, NEW e, Safe(e), \A p \in Page : versions'[p] \subseteq versions[p],
         pc' # "closed" => e[1] < next_rowid', pc' \notin {"index", "unindex"}
  PROVE  Safe(e)'
<1>1. PICK x \in Ptr :
        /\ \A v \in versions[root_page_id] :
             /\ v # Zero /\ <<e[1], x>> \in v.dict
             /\ \A f \in v.dict : f[2] = x => f[1] = e[1]
        /\ \A w \in versions[ptr_page(x)] :
             w # Zero /\ ptr_slot(x) \in LiveIn(w) /\ get(w, ptr_slot(x)) = e[2]
        /\ \A z \in versions[SCHEMA_PAGE_ID] : z # Zero /\ e[1] < z.next_rowid
  BY DEF Safe
<1>2. /\ versions'[root_page_id] \subseteq versions[root_page_id]
      /\ versions'[SCHEMA_PAGE_ID] \subseteq versions[SCHEMA_PAGE_ID]
      /\ versions'[ptr_page(x)] \subseteq versions[ptr_page(x)]
  BY PtrParts, Layout
<1> QED BY <1>1, <1>2 DEF Safe

(* The actions that write no page, and a crash.                            *)
LEMMA ReadersSafe ==
  ASSUME TypeInv, NEW e, Safe(e),
         \/ OpenTable \/ FlushDone \/ Crash \/ DeleteDone
         \/ \E P \in Predicate : DeleteWhere(P)
         \/ \E rid \in Rowid : Find(rid)
  PROVE  Safe(e)'
<1>1. /\ \A p \in Page : mem[p] \in versions[p]
      /\ \A z \in versions[SCHEMA_PAGE_ID] : z # Zero /\ e[1] < z.next_rowid
      /\ mem[root_page_id] # Zero
      /\ pc # "closed" => e[1] < next_rowid
  BY PageKinds DEF TypeInv, Safe
<1>2. CASE OpenTable
  <2>1. next_rowid' = read_meta(mem).next_rowid /\ pc' = "rest" /\ versions' = versions
    BY <1>2 DEF OpenTable
  <2>2. e[1] < next_rowid'
    BY <1>1, <2>1, Layout DEF read_meta
  <2> QED BY <2>1, <2>2, SafeUnwritten
<1>3. CASE FlushDone
  <2>1. /\ \A p \in Page : versions'[p] = versions[p] \/ versions'[p] = {mem[p]}
        /\ pc # "closed" /\ pc' \in {"rest", "closed"}
        /\ pc' = "rest" => next_rowid' = next_rowid
    BY <1>3 DEF FlushDone, Flushed, members
  <2>2. \A p \in Page : versions'[p] \subseteq versions[p]
    BY <1>1, <2>1
  <2> QED BY <1>1, <2>1, <2>2, SafeUnwritten
<1>4. CASE Crash
  <2>1. pc' = "closed" /\ \A p \in Page : mem'[p] \in versions[p] /\ versions'[p] = {mem'[p]}
    <3>1. pc' = "closed" /\ \A p \in Page : versions'[p] = {mem'[p]}
      BY <1>4 DEF Crash
    <3>2. PICK root \in versions[root_page_id], meta \in versions[SCHEMA_PAGE_ID],
               heap \in [HeapPage -> UNION {versions[p] : p \in HeapPage}] :
                 /\ \A p \in HeapPage : heap[p] \in versions[p]
                 /\ mem' = [p \in Page |-> IF p \in HeapPage THEN heap[p]
                                           ELSE IF p = root_page_id THEN root ELSE meta]
      BY <1>4 DEF Crash
    <3>3. \A p \in Page : mem'[p] = IF p \in HeapPage THEN heap[p]
                                    ELSE IF p = root_page_id THEN root ELSE meta
      BY <3>2
    <3> QED BY <3>1, <3>2, <3>3, Layout
  <2> QED BY <2>1, SafeUnwritten
<1>5. CASE DeleteDone \/ (\E P \in Predicate : DeleteWhere(P)) \/ \E rid \in Rowid : Find(rid)
  <2>1. /\ UNCHANGED <<versions, next_rowid>> /\ pc # "closed"
        /\ pc' \in {"rest", "delete", "hang"}
    BY <1>5 DEF DeleteDone, DeleteWhere, Find, Endless, members
  <2> QED BY <1>1, <2>1, SafeUnwritten
<1> QED BY <1>2, <1>3, <1>4, <1>5

(* The meta page is written with the rowid that comes next.                *)
LEMMA MetaSafe ==
  ASSUME TypeInv, NEW e, Safe(e), Close \/ WriteMeta
  PROVE  Safe(e)'
<1> DEFINE z == Meta(next_rowid, cur_heap_page)
<1>1. /\ Write([mem EXCEPT ![SCHEMA_PAGE_ID] = z]) /\ next_rowid' = next_rowid
      /\ pc \in {"rest", "meta"} /\ pc' \in {"closing", "rest"}
  BY DEF Close, WriteMeta, members
<1>2. MetaOK(z) /\ z.next_rowid = next_rowid
  BY DEF TypeInv, MembersOK, MetaOK, Meta
<1>3. ContentOK(SCHEMA_PAGE_ID, z) /\ z # Zero
  BY <1>2, ZeroIsBlank DEF ContentOK
<1> HIDE DEF z
<1>4. /\ versions'[SCHEMA_PAGE_ID] \subseteq versions[SCHEMA_PAGE_ID] \cup {z}
      /\ \A p \in Page : p # SCHEMA_PAGE_ID => versions'[p] \subseteq versions[p]
  BY <1>1, <1>3, Layout, WrittenOne DEF TypeInv
<1>5. PICK x \in Ptr :
        /\ \A v \in versions[root_page_id] :
             /\ v # Zero /\ <<e[1], x>> \in v.dict
             /\ \A f \in v.dict : f[2] = x => f[1] = e[1]
        /\ \A w \in versions[ptr_page(x)] :
             w # Zero /\ ptr_slot(x) \in LiveIn(w) /\ get(w, ptr_slot(x)) = e[2]
        /\ \A y \in versions[SCHEMA_PAGE_ID] : y # Zero /\ e[1] < y.next_rowid
        /\ e[1] < next_rowid
  BY <1>1 DEF Safe
<1>6. /\ versions'[root_page_id] \subseteq versions[root_page_id]
      /\ versions'[ptr_page(x)] \subseteq versions[ptr_page(x)]
  BY <1>4, PtrParts, Layout
<1> QED BY <1>1, <1>2, <1>3, <1>4, <1>5, <1>6 DEF Safe

(* An insert writes no slot that was live.                                 *)
LEMMA InsertSafe ==
  ASSUME TypeInv, ~Exhaustion, NEW e, Safe(e), NEW r \in Row, InsertRow(r)
  PROVE  Safe(e)'
<1>1. pc = "rest" /\ next_rowid' = next_rowid
  BY DEF InsertRow
<1>2. /\ \A x \in Ptr : LiveAt(mem, x) =>
           /\ LiveAt(mem', x)
           /\ get(mem'[ptr_page(x)], ptr_slot(x)) = get(mem[ptr_page(x)], ptr_slot(x))
      /\ \A p \in Page \ HeapPage : versions'[p] \subseteq versions[p]
      /\ \A p \in Page : versions'[p] \subseteq versions[p] \cup {mem'[p]}
      /\ pc' \in {"rest", "index"} /\ (pc' = "index" => HerePtr' \notin LivePtrs)
  BY InsertLive
<1>3. PICK x \in Ptr :
        /\ \A v \in versions[root_page_id] :
             /\ v # Zero /\ <<e[1], x>> \in v.dict
             /\ \A f \in v.dict : f[2] = x => f[1] = e[1]
        /\ \A w \in versions[ptr_page(x)] :
             w # Zero /\ ptr_slot(x) \in LiveIn(w) /\ get(w, ptr_slot(x)) = e[2]
        /\ \A y \in versions[SCHEMA_PAGE_ID] : y # Zero /\ e[1] < y.next_rowid
        /\ e[1] < next_rowid
  BY <1>1 DEF Safe
<1>4. ptr_page(x) \in Page /\ mem[ptr_page(x)] \in versions[ptr_page(x)]
  BY PtrParts, Layout DEF TypeInv, PagesOK
<1>5. LiveAt(mem, x) /\ get(mem[ptr_page(x)], ptr_slot(x)) = e[2]
  BY <1>3, <1>4 DEF LiveAt
<1>6. LiveAt(mem', x) /\ get(mem'[ptr_page(x)], ptr_slot(x)) = e[2]
  BY <1>2, <1>5
<1>7. \A w \in versions'[ptr_page(x)] :
        w # Zero /\ ptr_slot(x) \in LiveIn(w) /\ get(w, ptr_slot(x)) = e[2]
  BY <1>2, <1>3, <1>4, <1>6 DEF LiveAt
<1>8. /\ versions'[root_page_id] \subseteq versions[root_page_id]
      /\ versions'[SCHEMA_PAGE_ID] \subseteq versions[SCHEMA_PAGE_ID]
  BY <1>2, Layout
<1>9. pc' = "index" => x # HerePtr'
  BY <1>2, <1>5 DEF LivePtrs
<1> QED BY <1>1, <1>2, <1>3, <1>7, <1>8, <1>9 DEF Safe

(* A new entry is for a new rowid and a slot of its own.                   *)
LEMMA IndexSafe ==
  ASSUME TypeInv, NEW e \in Rowid \X Row, Safe(e), IndexRow
  PROVE  Safe(e)'
<1> DEFINE root == mem[root_page_id]
           c == index_insert(root, next_rowid, HerePtr)
<1>1. pc = "index" /\ next_rowid' = next_rowid + 1 /\ next_rowid \in Nat /\ e[1] \in Nat
  BY DEF IndexRow, TypeInv, MembersOK, Rowid
<1>2. PICK x \in Ptr :
        /\ \A v \in versions[root_page_id] :
             /\ v # Zero /\ <<e[1], x>> \in v.dict
             /\ \A f \in v.dict : f[2] = x => f[1] = e[1]
        /\ \A w \in versions[ptr_page(x)] :
             w # Zero /\ ptr_slot(x) \in LiveIn(w) /\ get(w, ptr_slot(x)) = e[2]
        /\ \A y \in versions[SCHEMA_PAGE_ID] : y # Zero /\ e[1] < y.next_rowid
        /\ e[1] < next_rowid /\ x # HerePtr
  BY <1>1 DEF Safe
<1>3. root \in versions[root_page_id] /\ root # Zero /\ RootOK(root)
  BY <1>2, PageKinds DEF TypeInv
<1>4. pc' = "meta" /\ Write([mem EXCEPT ![root_page_id] = c])
  BY <1>3 DEF IndexRow, Endless, HerePtr
<1>5. next_rowid \in Rowid /\ HerePtr \in Ptr
  <2>1. next_rowid \in 1 .. MaxRowid /\ cur_heap_page \in HeapPage /\ slot \in 0 .. SLOTS - 1
    BY <1>1, BoundsAssumption DEF TypeInv, LocalsOK, MembersOK
  <2> QED BY <2>1, PackInverse DEF Rowid, HerePtr
<1>6. RootOK(c) /\ c.dict = {f \in root.dict : f[1] # next_rowid} \cup {<<next_rowid, HerePtr>>}
  <2> HIDE DEF root
  <2> QED BY <1>3, <1>5, IndexInserted
<1>7. c # Zero /\ ContentOK(root_page_id, c)
  BY <1>6, ZeroIsBlank DEF ContentOK
<1> HIDE DEF c
<1>8. /\ versions'[root_page_id] \subseteq versions[root_page_id] \cup {c}
      /\ \A p \in Page : p # root_page_id => versions'[p] \subseteq versions[p]
  BY <1>4, <1>7, Layout, WrittenOne DEF TypeInv
<1>9. /\ versions'[SCHEMA_PAGE_ID] \subseteq versions[SCHEMA_PAGE_ID]
      /\ versions'[ptr_page(x)] \subseteq versions[ptr_page(x)]
  BY <1>8, PtrParts, Layout
<1>10. <<e[1], x>> \in c.dict /\ \A f \in c.dict : f[2] = x => f[1] = e[1]
  <2>1. <<e[1], x>> \in root.dict /\ \A f \in root.dict : f[2] = x => f[1] = e[1]
    BY <1>2, <1>3
  <2>2. e[1] # next_rowid
    BY <1>1, <1>2
  <2> HIDE DEF root
  <2> QED BY <1>2, <1>6, <2>1, <2>2
<1>11. e[1] < next_rowid'
  BY <1>1, <1>2
<1> QED BY <1>2, <1>4, <1>7, <1>8, <1>9, <1>10, <1>11 DEF Safe

(* A slot is freed for the victim only.                                    *)
LEMMA FreeSafe ==
  ASSUME TypeInv, NEW e, Safe(e), e[1] # victim, FreeSlot
  PROVE  Safe(e)'
<1>1. PICK x0 \in Ptr :
        /\ <<victim, x0>> \in mem[root_page_id].dict /\ victim' = victim
        /\ \A y \in Ptr \ {x0} : LiveAt(mem, y) =>
             /\ LiveAt(mem', y)
             /\ get(mem'[ptr_page(y)], ptr_slot(y)) = get(mem[ptr_page(y)], ptr_slot(y))
        /\ \A p \in Page \ HeapPage : versions'[p] \subseteq versions[p]
        /\ \A p \in Page : versions'[p] \subseteq versions[p] \cup {mem'[p]}
        /\ pc = "delete" /\ pc' = "unindex" /\ next_rowid' = next_rowid
  BY FreeLive
<1>2. PICK x \in Ptr :
        /\ \A v \in versions[root_page_id] :
             /\ v # Zero /\ <<e[1], x>> \in v.dict
             /\ \A f \in v.dict : f[2] = x => f[1] = e[1]
        /\ \A w \in versions[ptr_page(x)] :
             w # Zero /\ ptr_slot(x) \in LiveIn(w) /\ get(w, ptr_slot(x)) = e[2]
        /\ \A y \in versions[SCHEMA_PAGE_ID] : y # Zero /\ e[1] < y.next_rowid
        /\ e[1] < next_rowid
  BY <1>1 DEF Safe
<1>3. /\ mem[root_page_id] \in versions[root_page_id]
      /\ ptr_page(x) \in Page /\ mem[ptr_page(x)] \in versions[ptr_page(x)]
  BY PageKinds, PtrParts DEF TypeInv
<1>4. x # x0
  <2>1. \A f \in mem[root_page_id].dict : f[2] = x => f[1] = e[1]
    BY <1>2, <1>3
  <2>2. <<victim, x0>>[1] = victim /\ <<victim, x0>>[2] = x0
    OBVIOUS
  <2> QED BY <1>1, <2>1, <2>2
<1>5. LiveAt(mem, x) /\ get(mem[ptr_page(x)], ptr_slot(x)) = e[2]
  BY <1>2, <1>3 DEF LiveAt
<1>6. LiveAt(mem', x) /\ get(mem'[ptr_page(x)], ptr_slot(x)) = e[2]
  BY <1>1, <1>4, <1>5
<1>7. \A w \in versions'[ptr_page(x)] :
        w # Zero /\ ptr_slot(x) \in LiveIn(w) /\ get(w, ptr_slot(x)) = e[2]
  BY <1>1, <1>2, <1>3, <1>6 DEF LiveAt
<1>8. /\ versions'[root_page_id] \subseteq versions[root_page_id]
      /\ versions'[SCHEMA_PAGE_ID] \subseteq versions[SCHEMA_PAGE_ID]
  BY <1>1, Layout
<1> QED BY <1>1, <1>2, <1>7, <1>8 DEF Safe

(* And the victim's entry is the only one to go.                           *)
LEMMA UnindexSafe ==
  ASSUME TypeInv, NEW e, Safe(e), Unindex
  PROVE  Safe(e)'
<1> DEFINE root == mem[root_page_id]
           c == index_remove(root, victim)
<1>1. /\ pc = "unindex" /\ pc' = "delete" /\ next_rowid' = next_rowid
      /\ Write([mem EXCEPT ![root_page_id] = c])
  BY DEF Unindex, members
<1>2. PICK x \in Ptr :
        /\ \A v \in versions[root_page_id] :
             /\ v # Zero /\ <<e[1], x>> \in v.dict
             /\ \A f \in v.dict : f[2] = x => f[1] = e[1]
        /\ \A w \in versions[ptr_page(x)] :
             w # Zero /\ ptr_slot(x) \in LiveIn(w) /\ get(w, ptr_slot(x)) = e[2]
        /\ \A y \in versions[SCHEMA_PAGE_ID] : y # Zero /\ e[1] < y.next_rowid
        /\ e[1] < next_rowid /\ e[1] # victim
  BY <1>1 DEF Safe
<1>3. root \in versions[root_page_id] /\ root # Zero /\ RootOK(root)
  BY <1>2, PageKinds DEF TypeInv
<1>4. RootOK(c) /\ c.dict = {f \in root.dict : f[1] # victim}
  <2> HIDE DEF root
  <2> QED BY <1>3, IndexRemoved
<1>5. c # Zero /\ ContentOK(root_page_id, c)
  BY <1>4, ZeroIsBlank DEF ContentOK
<1> HIDE DEF c
<1>6. /\ versions'[root_page_id] \subseteq versions[root_page_id] \cup {c}
      /\ \A p \in Page : p # root_page_id => versions'[p] \subseteq versions[p]
  BY <1>1, <1>5, Layout, WrittenOne DEF TypeInv
<1>7. /\ versions'[SCHEMA_PAGE_ID] \subseteq versions[SCHEMA_PAGE_ID]
      /\ versions'[ptr_page(x)] \subseteq versions[ptr_page(x)]
  BY <1>6, PtrParts, Layout
<1>8. <<e[1], x>> \in c.dict /\ \A f \in c.dict : f[2] = x => f[1] = e[1]
  <2>1. <<e[1], x>> \in root.dict /\ \A f \in root.dict : f[2] = x => f[1] = e[1]
    BY <1>2, <1>3
  <2> HIDE DEF root
  <2> QED BY <1>2, <1>4, <2>1
<1> QED BY <1>1, <1>2, <1>5, <1>6, <1>7, <1>8 DEF Safe

(* What a completed flush has written is safe.                             *)
LEMMA FlushSafe ==
  ASSUME TypeInv, MatchOK, FlushDone, crashes = 0, NEW e \in scan(mem, next_rowid)
  PROVE  e \in Rowid \X Row /\ Safe(e)'
<1> DEFINE root == mem[root_page_id]
<1>1. /\ \A p \in Page : ContentOK(p, mem[p])
      /\ pc \in {"flush", "closing"} /\ pc' \in {"rest", "closed"}
      /\ pc' = "rest" => next_rowid' = next_rowid
      /\ mem[SCHEMA_PAGE_ID] = Meta(next_rowid, cur_heap_page)
      /\ next_rowid \in 0 .. MaxRowid + 1
  BY PageKinds DEF FlushDone, Flushed, members, TypeInv, PagesOK, LocalsOK, MembersOK
<1>2. root # Zero
  BY <1>1 DEF MatchOK
<1>3. /\ scan(mem, next_rowid) \subseteq Rowid \X Row
      /\ \A f \in scan(mem, next_rowid) : f[1] \in 1 .. next_rowid - 1
      /\ \A rid, r : <<rid, r>> \in scan(mem, next_rowid) =>
           \E x \in Ptr : /\ <<rid, x>> \in root.dict /\ LiveAt(mem, x)
                          /\ r = get(mem[ptr_page(x)], ptr_slot(x))
  <2>1. /\ scan(mem, next_rowid) \subseteq Rowid \X Row
        /\ \A f \in scan(mem, next_rowid) : f[1] \in 1 .. next_rowid - 1
        /\ \A rid, r : <<rid, r>> \in scan(mem, next_rowid) <=>
             /\ rid \in 1 .. next_rowid - 1 /\ mem[root_page_id] # Zero
             /\ \E x \in Ptr : /\ <<rid, x>> \in mem[root_page_id].dict /\ LiveAt(mem, x)
                               /\ r = get(mem[ptr_page(x)], ptr_slot(x))
    BY ONLY ScanRows, <1>1, <1>2
  <2> QED BY <2>1
<1>4. e \in Rowid \X Row /\ e = <<e[1], e[2]>> /\ e[1] \in 1 .. next_rowid - 1
  BY <1>3
<1>5. PICK x \in Ptr : /\ <<e[1], x>> \in root.dict /\ LiveAt(mem, x)
                       /\ e[2] = get(mem[ptr_page(x)], ptr_slot(x))
  BY <1>3, <1>4
<1>6. \A f \in root.dict : f[2] = x => f[1] = e[1]
  <2>1. \A f, g \in root.dict : f[2] = g[2] => f = g
    BY <1>1, <1>2 DEF MatchOK
  <2>2. <<e[1], x>>[2] = x /\ <<e[1], x>>[1] = e[1]
    OBVIOUS
  <2> HIDE DEF root
  <2> QED BY <1>5, <2>1, <2>2
<1>7. mem[SCHEMA_PAGE_ID] # Zero /\ mem[SCHEMA_PAGE_ID].next_rowid = next_rowid
  <2>1. MetaOK(Meta(next_rowid, cur_heap_page))
    BY DEF TypeInv, MembersOK, MetaOK, Meta
  <2> QED BY <1>1, <2>1, ZeroIsBlank DEF Meta
<1>8. e[1] < next_rowid
  BY <1>1, <1>4
<1>9. /\ versions'[root_page_id] = {root} /\ versions'[SCHEMA_PAGE_ID] = {mem[SCHEMA_PAGE_ID]}
      /\ versions'[ptr_page(x)] = {mem[ptr_page(x)]}
  <2>1. pc # "flush"
    BY <1>4 DEF TypeInv, CreatedOK
  <2>2. \A p \in Page : versions'[p] = {mem[p]}
    BY <2>1 DEF FlushDone, Buffered
  <2> QED BY <2>2, PtrParts, Layout
<1> QED BY <1>1, <1>2, <1>4, <1>5, <1>6, <1>7, <1>8, <1>9 DEF Safe, LiveAt

(* So every committed row stays safe until it is deleted.                  *)
LEMMA CommittedKept ==
  ASSUME ~Exhaustion, TypeInv, MatchOK, CommittedOK, [Next]_vars
  PROVE  CommittedOK'
<1> SUFFICES ASSUME NEW e \in committed' PROVE e \in Rowid \X Row /\ Safe(e)'
  BY DEF CommittedOK
<1>1. CASE FlushDone /\ crashes = 0
  BY <1>1, FlushSafe DEF FlushDone, Flushed
<1>2. CASE ~(FlushDone /\ crashes = 0)
  <2>1. e \in committed /\ (FreeSlot => e[1] # victim)
    BY <1>2 DEF Next, Create, OpenTable, FlushDone, Flushed, Close, Crash, InsertRow, IndexRow,
                WriteMeta, Spin, DeleteWhere, FreeSlot, Unindex, DeleteDone, Find, Quiet, vars
  <2>2. e \in Rowid \X Row /\ Safe(e)
    BY <2>1 DEF CommittedOK
  <2>3. ~Create
    <3>1. mem[root_page_id] # Zero
      BY <2>2, PageKinds DEF Safe, TypeInv
    <3> QED BY <3>1, Layout DEF Create
  <2>4. CASE UNCHANGED vars
    <3>1. UNCHANGED <<versions, next_rowid, pc, cur_heap_page, slot, to_delete>>
      BY <2>4 DEF vars, members, locals
    <3>2. HerePtr' = HerePtr /\ victim' = victim
      BY <3>1 DEF HerePtr, victim
    <3> QED BY <2>2, <3>1, <3>2 DEF Safe
  <2> QED BY <2>1, <2>2, <2>3, <2>4, ReadersSafe, MetaSafe, InsertSafe, IndexSafe, FreeSafe,
             UnindexSafe DEF Next, Spin
<1> QED BY <1>1, <1>2

-----------------------------------------------------------------------------
(* The theorems.                                                           *)

(* The invariant holds of an empty file,                                   *)
LEMMA InitInvariant == Init => IInv
BY InitTypes, InitMatch, InitNumbers DEF IInv, CommittedOK, Init

(* and every step keeps it.                                                *)
LEMMA StepInvariant ==
  ASSUME ~Exhaustion, IInv, [Next]_vars
  PROVE  IInv'
BY StepTypes, StepMatch, NumbersKept, CommittedKept DEF IInv

(* Pages and calls are well-typed, index and heap agree until a crash, and *)
(* committed rows are safe wherever a crash takes the pages from.          *)
THEOREM TableInvariant ==
  ASSUME ~Exhaustion
  PROVE  Spec => []IInv
<1>1. IInv /\ [Next]_vars => IInv'
  BY StepInvariant
<1> QED BY <1>1, InitInvariant, PTL DEF Spec

(* Between calls each live slot of a heap page is the target of one index  *)
(* entry, and each entry's slot is live: no two rows share a slot, and     *)
(* none is leaked (SlotsMatchIndex).                                       *)
THEOREM IndexMatchesHeap ==
  ASSUME ~Exhaustion
  PROVE  Spec => []SlotsMatchIndex
<1>1. IInv => SlotsMatchIndex
  <2> SUFFICES ASSUME TypeInv, MatchOK, AtRest, crashes = 0 PROVE SlotsMatchIndex
    BY DEF IInv, SlotsMatchIndex
  <2> DEFINE dict == mem[root_page_id].dict
             target(e) == <<ptr_page(e[2]), ptr_slot(e[2])>>
  <2>1. mem[root_page_id] # Zero
    BY DEF MatchOK, AtRest
  <2>2. Named = LivePtrs /\ \A e, f \in dict : e[2] = f[2] => e = f
    BY <2>1 DEF MatchOK, AtRest
  <2>3. /\ dict \subseteq Rowid \X Ptr /\ \A e, f \in dict : e[1] = f[1] => e = f
    BY <2>1, PageKinds DEF TypeInv, RootOK
  <2>4. ASSUME NEW x \in LivePtrs PROVE <<ptr_page(x), ptr_slot(x)>> \in LiveSlots
    <3>1. x \in Ptr /\ LiveAt(mem, x) /\ ptr_page(x) \in HeapPage
      BY PtrParts DEF LivePtrs
    <3>2. HeapOK(mem[ptr_page(x)])
      BY <3>1, PageKinds DEF TypeInv, LiveAt
    <3>3. Slots(mem[ptr_page(x)]) \subseteq 0 .. PageSize
      BY <3>2, SlotsFit DEF HeapOK
    <3> QED BY <3>1, <3>3 DEF LiveSlots, LiveAt, LiveIn
  <2>5. ASSUME NEW at \in LiveSlots
        PROVE  \E x \in LivePtrs : at = <<ptr_page(x), ptr_slot(x)>>
    <3>1. /\ at \in HeapPage \X (0 .. PageSize) /\ mem[at[1]] # Zero
          /\ at[2] \in LiveIn(mem[at[1]]) /\ at[2] \in Slots(mem[at[1]])
      BY DEF LiveSlots, LiveIn
    <3>2. HeapOK(mem[at[1]])
      BY <3>1, PageKinds DEF TypeInv
    <3>3. at[2] \in 0 .. SLOTS - 1
      BY <3>1, <3>2, SlotsFit DEF HeapOK
    <3>4. /\ pack_ptr(at[1], at[2]) \in Ptr /\ ptr_page(pack_ptr(at[1], at[2])) = at[1]
          /\ ptr_slot(pack_ptr(at[1], at[2])) = at[2]
      BY <3>1, <3>3, PackInverse
    <3>5. pack_ptr(at[1], at[2]) \in LivePtrs
      BY <3>1, <3>4 DEF LivePtrs, LiveAt
    <3> QED BY <3>1, <3>4, <3>5
  <2> DEFINE f == [e \in dict |-> target(e)]
             g == [e \in dict |-> e[1]]
  <2>6. \A e \in dict : e[2] \in LivePtrs /\ e[2] \in Ptr
    BY <2>2, <2>3 DEF Named
  <2>7. f \in [dict -> LiveSlots]
    BY <2>4, <2>6
  <2>8. \A e1, e2 \in dict : f[e1] = f[e2] => e1 = e2
    <3>1. ASSUME NEW e1 \in dict, NEW e2 \in dict, target(e1) = target(e2) PROVE e1 = e2
      <4>1. ptr_page(e1[2]) = ptr_page(e2[2]) /\ ptr_slot(e1[2]) = ptr_slot(e2[2])
        BY <3>1
      <4>2. e1[2] = e2[2]
        BY <2>6, <4>1, PtrParts
      <4> QED BY <2>2, <4>2
    <3> QED BY <3>1
  <2>9. \A at \in LiveSlots : \E e \in dict : f[e] = at
    <3>1. ASSUME NEW at \in LiveSlots PROVE \E e \in dict : target(e) = at
      <4>1. PICK x \in LivePtrs : at = <<ptr_page(x), ptr_slot(x)>>
        BY <2>5
      <4>2. PICK e \in dict : x = e[2]
        BY <2>2 DEF Named
      <4> QED BY <4>1, <4>2
    <3> QED BY <3>1
  <2>10. {target(e) : e \in dict} = LiveSlots
    <3>1. \A e \in dict : target(e) \in LiveSlots
      BY <2>4, <2>6
    <3>2. \A at \in LiveSlots : \E e \in dict : target(e) = at
      BY <2>9
    <3> HIDE DEF target, dict
    <3> QED BY <3>1, <3>2
  <2>11. IsFiniteSet(dict)
    <3>1. IsFiniteSet(Rowid)
      BY FS_Interval, BoundsAssumption DEF Rowid
    <3>2. g \in [dict -> Rowid] /\ \A e1, e2 \in dict : g[e1] = g[e2] => e1 = e2
      BY <2>3
    <3> HIDE DEF g, dict
    <3>3. g \in Injection(dict, Rowid)
      BY <3>2, Fun_IsInj
    <3> QED BY <3>1, <3>3, FS_Injection
  <2>12. Cardinality(dict) = Cardinality(LiveSlots)
    <3> HIDE DEF f, dict
    <3>1. f \in Bijection(dict, LiveSlots)
      BY <2>7, <2>8, <2>9, Fun_IsBij
    <3> QED BY <2>11, <3>1, FS_Bijection DEF ExistsBijection
  <2> QED BY <2>10, <2>12 DEF SlotsMatchIndex
<1> QED BY <1>1, TableInvariant, PTL

(* Crashes take back no row that was there at the last flush completed     *)
(* before them and has not been deleted since, and nothing done after them *)
(* destroys one (CommittedRowsSurvive).                                    *)
THEOREM CommittedRowsKept ==
  ASSUME ~Exhaustion
  PROVE  Spec => []CommittedRowsSurvive
<1>1. IInv => CommittedRowsSurvive
  <2> SUFFICES ASSUME TypeInv, CommittedOK, AtRest, NEW e \in committed
               PROVE  e \in scan(mem, next_rowid)
    BY DEF IInv, CommittedRowsSurvive
  <2>1. e \in Rowid \X Row /\ e = <<e[1], e[2]>> /\ Safe(e)
    BY DEF CommittedOK
  <2>2. PICK x \in Ptr :
          /\ \A v \in versions[root_page_id] : v # Zero /\ <<e[1], x>> \in v.dict
          /\ \A w \in versions[ptr_page(x)] :
               w # Zero /\ ptr_slot(x) \in LiveIn(w) /\ get(w, ptr_slot(x)) = e[2]
          /\ e[1] < next_rowid
    BY <2>1 DEF Safe, AtRest
  <2>3. /\ mem[root_page_id] # Zero /\ <<e[1], x>> \in mem[root_page_id].dict
        /\ LiveAt(mem, x) /\ e[2] = get(mem[ptr_page(x)], ptr_slot(x))
    BY <2>2, PageKinds, PtrParts DEF TypeInv, LiveAt
  <2>4. next_rowid \in 0 .. MaxRowid + 1 /\ \A p \in Page : ContentOK(p, mem[p])
    BY DEF TypeInv, MembersOK, PagesOK
  <2>5. e[1] \in 1 .. next_rowid - 1
    BY <2>1, <2>2, <2>4 DEF Rowid
  <2>6. <<e[1], e[2]>> \in scan(mem, next_rowid)
    BY <2>3, <2>4, <2>5, ScanRows
  <2> QED BY <2>1, <2>6
<1> QED BY <1>1, TableInvariant, PTL

(* Without crashes no rowid is returned twice, also not across a close and *)
(* an open (RowidsAreFresh).                                               *)
THEOREM RowidsNotReused ==
  ASSUME ~Exhaustion, MaxCrashes = 0
  PROVE  Spec => RowidsAreFresh
<1>1. Init => crashes = 0
  BY DEF Init
<1>2. crashes = 0 /\ [Next]_vars => (crashes = 0)'
  <2> SUFFICES ASSUME crashes = 0, [Next]_vars PROVE crashes' = 0
    OBVIOUS
  <2>1. ~Crash
    BY DEF Crash
  <2> QED BY <2>1 DEF Next, Create, OpenTable, FlushDone, Flushed, Close, InsertRow, IndexRow,
             WriteMeta, Spin, DeleteWhere, FreeSlot, Unindex, DeleteDone, Find, Quiet, vars
<1>3. IInv /\ crashes = 0 => [WriteMeta => next_rowid - 1 \notin issued]_vars
  <2> SUFFICES ASSUME IInv, crashes = 0, WriteMeta PROVE next_rowid - 1 \notin issued
    OBVIOUS
  <2>1. pc = "meta" /\ Coming = next_rowid /\ next_rowid \in Nat
    BY DEF WriteMeta, Coming, IInv, TypeInv, MembersOK
  <2>2. \A rid \in issued : rid \in Nat /\ rid < next_rowid - 1
    BY <2>1 DEF IInv, NumbersOK
  <2> QED BY <2>1, <2>2
<1> QED BY <1>1, <1>2, <1>3, TableInvariant, PTL DEF Spec, RowidsAreFresh

-----------------------------------------------------------------------------
(* The set of rows.                                                        *)

(* A row is stored under a rowid if the index entry of the rowid names a   *)
(* live slot with the row.                                                 *)
Holds(m, rid, r) ==
  \E x \in Ptr : /\ <<rid, x>> \in m[root_page_id].dict /\ LiveAt(m, x)
                 /\ r = get(m[ptr_page(x)], ptr_slot(x))

Functional(S) == \A e, f \in S : e[1] = f[1] => e = f

(* Of the rows before a deletion those are left that are not selected or   *)
(* whose turn has not come; the others have been counted.                  *)
Deleting(P, left) ==
  /\ scan(mem, next_rowid) = {e \in before : e[2] \notin P \/ e[1] \in left}
  /\ \A rid \in to_delete : \E e \in before : e[1] = rid /\ e[2] \in P
  /\ count = Cardinality({e \in before : e[2] \in P /\ e[1] \notin to_delete})

(* What a call has done so far to the rows that were there when it began.  *)
RowsOK ==
  /\ before \subseteq Rowid \X Row /\ Functional(before)
  /\ pc \notin {"delete", "unindex"} => count = 0
  /\ pc \in {"closed", "flush", "closing", "index"} => before = scan(mem, Coming)
  /\ pc = "meta" =>
       \E r \in Row : scan(mem, next_rowid) = before \cup {<<next_rowid - 1, r>>}
  /\ pc = "delete" => \E P \in Predicate : Deleting(P, to_delete)
  /\ pc = "unindex" => \E P \in Predicate : Deleting(P, to_delete \ {victim})

RInv == IInv /\ crashes = 0 /\ RowsOK

(* The rows of RowStore.                                                   *)
Now == IF AtRest THEN scan(mem, next_rowid) ELSE before

-----------------------------------------------------------------------------
(* Scans.                                                                  *)

(* Sets of pairs are compared pair by pair.                                *)
LEMMA SamePairs ==
  ASSUME NEW S, NEW T, S \subseteq Rowid \X Row, T \subseteq Rowid \X Row,
         \A rid, r : <<rid, r>> \in S <=> <<rid, r>> \in T
  PROVE  S = T
<1>1. \A e \in S : e = <<e[1], e[2]>>
  OBVIOUS
<1>2. \A e \in T : e = <<e[1], e[2]>>
  OBVIOUS
<1> QED BY <1>1, <1>2

(* With all of the index below the next rowid, a scan finds every row, and *)
(* under each rowid one.                                                   *)
LEMMA ScanAll ==
  ASSUME NEW m, \A p \in Page : ContentOK(p, m[p]), m[root_page_id] # Zero,
         NEW n \in 0 .. MaxRowid + 1, \A e \in m[root_page_id].dict : e[1] < n
  PROVE  /\ scan(m, n) \subseteq Rowid \X Row /\ Functional(scan(m, n))
         /\ \A rid, r : <<rid, r>> \in scan(m, n) <=> Holds(m, rid, r)
<1>1. /\ scan(m, n) \subseteq Rowid \X Row
      /\ \A rid, r : <<rid, r>> \in scan(m, n) <=>
           /\ rid \in 1 .. n - 1 /\ m[root_page_id] # Zero
           /\ \E x \in Ptr : /\ <<rid, x>> \in m[root_page_id].dict /\ LiveAt(m, x)
                             /\ r = get(m[ptr_page(x)], ptr_slot(x))
  BY ScanRows
<1>2. RootOK(m[root_page_id])
  BY Layout DEF ContentOK
<1>3. \A e \in m[root_page_id].dict : e[1] \in 1 .. n - 1
  BY <1>2 DEF RootOK, Rowid
<1>4. \A rid, x : <<rid, x>> \in m[root_page_id].dict => rid \in 1 .. n - 1
  BY <1>3
<1>5. \A rid, r : <<rid, r>> \in scan(m, n) <=> Holds(m, rid, r)
  BY <1>1, <1>4 DEF Holds
<1>6. ASSUME NEW e \in scan(m, n), NEW f \in scan(m, n), e[1] = f[1] PROVE e = f
  <2>1. e = <<e[1], e[2]>> /\ f = <<f[1], f[2]>>
    BY <1>1
  <2>2. Holds(m, e[1], e[2]) /\ Holds(m, f[1], f[2])
    BY <1>5, <2>1
  <2>3. \A x, y : <<e[1], x>> \in m[root_page_id].dict /\ <<e[1], y>> \in m[root_page_id].dict
                  => x = y
    BY <1>2 DEF RootOK
  <2>4. e[2] = f[2]
    BY <1>6, <2>2, <2>3 DEF Holds
  <2> QED BY <1>6, <2>1, <2>4
<1> QED BY <1>1, <1>5, <1>6 DEF Functional

(* A scan before a step of the table,                                      *)
LEMMA ScanBefore ==
  ASSUME IInv, crashes = 0, mem[root_page_id] # Zero
  PROVE  /\ scan(mem, Coming) \subseteq Rowid \X Row /\ Functional(scan(mem, Coming))
         /\ \A rid, r : <<rid, r>> \in scan(mem, Coming) <=> Holds(mem, rid, r)
<1>1. \A p \in Page : ContentOK(p, mem[p])
  BY DEF IInv, TypeInv, PagesOK
<1>2. \A e \in mem[root_page_id].dict : e[1] < Coming
  BY DEF IInv, NumbersOK
<1>3. Coming \in 0 .. MaxRowid + 1
  <2>1. mem[SCHEMA_PAGE_ID] = Zero \/ MetaOK(mem[SCHEMA_PAGE_ID])
    BY PageKinds DEF IInv, TypeInv
  <2> QED BY <2>1, BoundsAssumption DEF Coming, read_meta, Meta, MetaOK, IInv, TypeInv, MembersOK
<1> QED BY <1>1, <1>2, <1>3, ScanAll

(* and after it.                                                           *)
LEMMA ScanAfter ==
  ASSUME IInv', crashes' = 0, mem'[root_page_id] # Zero
  PROVE  /\ scan(mem', Coming') \subseteq Rowid \X Row /\ Functional(scan(mem', Coming'))
         /\ \A rid, r : <<rid, r>> \in scan(mem', Coming') <=> Holds(mem', rid, r)
<1>1. \A p \in Page : ContentOK(p, mem'[p])
  <2>1. \A p \in Page : mem'[p] \in versions'[p] /\ \A v \in versions'[p] : ContentOK(p, v)
    BY DEF IInv, TypeInv, PagesOK, ContentOK, RootOK, MetaOK, HeapOK
  <2> QED BY <2>1
<1>2. \A e \in mem'[root_page_id].dict : e[1] < Coming'
  BY DEF IInv, NumbersOK
<1>3. Coming' \in 0 .. MaxRowid + 1
  <2>1. SCHEMA_PAGE_ID \in Page /\ SCHEMA_PAGE_ID # root_page_id /\ SCHEMA_PAGE_ID \notin HeapPage
    BY Layout
  <2>2. mem'[SCHEMA_PAGE_ID] = Zero \/ MetaOK(mem'[SCHEMA_PAGE_ID])
    BY <1>1, <2>1 DEF ContentOK
  <2>3. next_rowid' \in 0 .. MaxRowid + 1
    BY DEF IInv, TypeInv, MembersOK
  <2> QED BY <2>2, <2>3, BoundsAssumption DEF Coming, read_meta, Meta, MetaOK
<1> QED BY <1>1, <1>2, <1>3, ScanAll

(* A step that changes what the index and the heap say of no row.          *)
LEMMA SameScan ==
  ASSUME IInv, IInv', crashes = 0, crashes' = 0,
         mem[root_page_id] # Zero, mem'[root_page_id] # Zero,
         \A rid, r : Holds(mem', rid, r) <=> Holds(mem, rid, r)
  PROVE  scan(mem', Coming') = scan(mem, Coming)
<1> DEFINE S == scan(mem', Coming')
           T == scan(mem, Coming)
<1>1. S \subseteq Rowid \X Row /\ \A rid, r : <<rid, r>> \in S <=> Holds(mem', rid, r)
  BY ScanAfter
<1>2. T \subseteq Rowid \X Row /\ \A rid, r : <<rid, r>> \in T <=> Holds(mem, rid, r)
  BY ScanBefore
<1> HIDE DEF S, T
<1>3. S = T
  BY <1>1, <1>2, SamePairs
<1> QED BY <1>3 DEF S, T

(* Steps that write neither the index nor the heap.                        *)
LEMMA SameHolds ==
  ASSUME mem'[root_page_id] = mem[root_page_id], \A p \in HeapPage : mem'[p] = mem[p]
  PROVE  \A rid, r : Holds(mem', rid, r) <=> Holds(mem, rid, r)
BY PtrParts DEF Holds, LiveAt

-----------------------------------------------------------------------------
(* Each action is a step of RowStore, or leaves its rows alone.            *)

Hidden == Now' = Now /\ issued' = issued /\ ret' = ret

(* A new table has no rows.                                                *)
LEMMA CreateRows ==
  ASSUME RInv, IInv', crashes' = 0, Create
  PROVE  RowsOK' /\ Hidden
<1>1. /\ pc = "closed" /\ pc' = "flush" /\ next_rowid' = 1 /\ crashes = 0
      /\ before' = before /\ issued' = issued /\ ret' = ret /\ count' = count
      /\ mem[SCHEMA_PAGE_ID] = Zero
  BY Layout DEF Create, Quiet, locals, RInv
<1>2. Coming = 0 /\ Coming' = 1
  BY <1>1 DEF Coming, read_meta, Meta
<1>3. before = {}
  <2>1. scan(mem, 0) = {}
    BY DEF scan
  <2> QED BY <1>1, <1>2, <2>1 DEF RInv, RowsOK
<1>4. scan(mem', 1) = {}
  BY DEF scan
<1>5. Hidden
  BY <1>1 DEF Hidden, Now, AtRest
<1>6. RowsOK'
  BY <1>1, <1>2, <1>3, <1>4 DEF RowsOK, RInv, Functional
<1> QED BY <1>5, <1>6

(* An opened table has the rows that it had when it was closed.            *)
LEMMA OpenRows ==
  ASSUME RInv, IInv', crashes' = 0, OpenTable
  PROVE  RowsOK' /\ Hidden
<1>1. /\ pc = "closed" /\ pc' = "rest" /\ mem' = mem /\ next_rowid' = read_meta(mem).next_rowid
      /\ before' = before /\ issued' = issued /\ ret' = ret /\ count' = count
  BY DEF OpenTable, Quiet, locals
<1>2. Coming = next_rowid'
  BY <1>1 DEF Coming
<1>3. before = scan(mem, next_rowid')
  BY <1>1, <1>2 DEF RInv, RowsOK
<1>4. Hidden
  BY <1>1, <1>3 DEF Hidden, Now, AtRest
<1>5. RowsOK'
  BY <1>1 DEF RowsOK, RInv
<1> QED BY <1>4, <1>5

(* A flush changes no row.                                                 *)
LEMMA FlushRows ==
  ASSUME RInv, IInv', crashes' = 0, FlushDone
  PROVE  RowsOK' /\ Hidden
<1>1. /\ pc \in {"flush", "closing"} /\ mem' = mem
      /\ before' = before /\ issued' = issued /\ ret' = ret /\ count' = count
      /\ \/ pc = "flush" /\ pc' = "rest" /\ next_rowid' = next_rowid
         \/ pc = "closing" /\ pc' = "closed"
  BY DEF FlushDone, Flushed, locals, members
<1>2. Coming = next_rowid
  BY <1>1 DEF Coming
<1>3. before = scan(mem, next_rowid)
  BY <1>1, <1>2 DEF RInv, RowsOK
<1>4. pc' = "closed" => Coming' = next_rowid
  <2>1. mem[SCHEMA_PAGE_ID] = Meta(next_rowid, cur_heap_page)
    BY <1>1 DEF RInv, IInv, TypeInv, LocalsOK
  <2>2. MetaOK(Meta(next_rowid, cur_heap_page))
    BY DEF RInv, IInv, TypeInv, MembersOK, MetaOK, Meta
  <2> QED BY <1>1, <2>1, <2>2, ZeroIsBlank DEF Coming, read_meta, Meta
<1>5. Hidden
  BY <1>1, <1>3 DEF Hidden, Now, AtRest
<1>6. RowsOK'
  BY <1>1, <1>3, <1>4 DEF RowsOK, RInv
<1> QED BY <1>5, <1>6

(* The meta page has no part in the rows.                                  *)
LEMMA CloseRows ==
  ASSUME RInv, IInv', crashes' = 0, Close
  PROVE  RowsOK' /\ Hidden
<1>1. /\ pc = "rest" /\ pc' = "closing" /\ next_rowid' = next_rowid
      /\ mem' = [mem EXCEPT ![SCHEMA_PAGE_ID] = Meta(next_rowid, cur_heap_page)]
      /\ before' = scan(mem, next_rowid) /\ issued' = issued /\ ret' = ret /\ count' = count
  BY DEF Close, Write, members, locals, Quiet
<1>2. mem'[root_page_id] = mem[root_page_id] /\ \A p \in HeapPage : mem'[p] = mem[p]
  <2>1. mem = [p \in Page |-> mem[p]]
    BY DEF RInv, IInv, TypeInv, PagesOK
  <2> QED BY <1>1, <2>1, Layout
<1>3. mem[root_page_id] # Zero /\ Coming = next_rowid /\ Coming' = next_rowid'
  BY <1>1 DEF RInv, IInv, MatchOK, Coming
<1>4. scan(mem', Coming') = scan(mem, Coming)
  BY <1>2, <1>3, SameHolds, SameScan DEF RInv
<1>5. Hidden
  BY <1>1 DEF Hidden, Now, AtRest
<1>6. scan(mem, Coming) \subseteq Rowid \X Row /\ Functional(scan(mem, Coming))
  BY <1>3, ScanBefore DEF RInv
<1>7. RowsOK'
  BY <1>1, <1>3, <1>4, <1>6 DEF RowsOK, RInv, Functional
<1> QED BY <1>5, <1>7

(* Until the index names the new row it is not one of the table, and an    *)
(* insert that fails leaves the table as it was.                           *)
LEMMA InsertRows ==
  ASSUME RInv, IInv', crashes' = 0, ~Exhaustion, NEW r \in Row, InsertRow(r)
  PROVE  RowsOK' /\ (Hidden \/ (Now' = Now /\ issued' = issued /\ ret' = None))
<1>1. /\ pc = "rest" /\ next_rowid' = next_rowid /\ issued' = issued
      /\ mem[root_page_id] # Zero /\ Coming = next_rowid
  BY DEF InsertRow, Quiet, RInv, IInv, MatchOK, Coming
<1>2. /\ \/ ret' = None /\ pc' = pc /\ before' = before /\ count' = count
         \/ /\ pc' = "index" /\ before' = scan(mem, next_rowid)
            /\ count' = count /\ ret' = ret
  BY InsertRowEffect DEF RInv, IInv, TypeInv, locals
<1>3. /\ \A x \in Ptr : LiveAt(mem, x) =>
           /\ LiveAt(mem', x)
           /\ get(mem'[ptr_page(x)], ptr_slot(x)) = get(mem[ptr_page(x)], ptr_slot(x))
      /\ mem'[root_page_id] = mem[root_page_id]
  BY InsertLive DEF RInv, IInv
<1>4. ASSUME NEW rid, NEW x \in Ptr, <<rid, x>> \in mem[root_page_id].dict
      PROVE  LiveAt(mem, x)
  <2>1. <<rid, x>>[2] = x
    OBVIOUS
  <2>2. x \in Named
    BY <1>4, <2>1 DEF Named
  <2>3. Named = LivePtrs
    BY <1>1 DEF RInv, IInv, MatchOK
  <2> QED BY <2>2, <2>3 DEF LivePtrs
<1>5. \A rid, s : Holds(mem', rid, s) <=> Holds(mem, rid, s)
  BY <1>3, <1>4 DEF Holds
<1>6. Coming' = next_rowid
  BY <1>1, <1>2 DEF Coming
<1>7. scan(mem', next_rowid) = scan(mem, next_rowid)
  BY <1>1, <1>3, <1>5, <1>6, SameScan DEF RInv
<1>8. Hidden \/ (Now' = Now /\ issued' = issued /\ ret' = None)
  BY <1>1, <1>2, <1>7 DEF Hidden, Now, AtRest
<1>9. scan(mem, Coming) \subseteq Rowid \X Row /\ Functional(scan(mem, Coming))
  BY <1>1, ScanBefore DEF RInv
<1>10. RowsOK'
  BY <1>1, <1>2, <1>6, <1>7, <1>9 DEF RowsOK, RInv, Functional
<1> QED BY <1>8, <1>10

(* The index entry makes it one.                                           *)
LEMMA IndexRows ==
  ASSUME RInv, IInv', crashes' = 0, IndexRow
  PROVE  RowsOK' /\ Hidden
<1> DEFINE root == mem[root_page_id]
           c == index_insert(root, next_rowid, HerePtr)
<1>1. /\ pc = "index" /\ next_rowid' = next_rowid + 1 /\ next_rowid \in Nat
      /\ cur_heap_page' = cur_heap_page
      /\ before' = before /\ issued' = issued /\ ret' = ret /\ count' = count
      /\ root # Zero /\ Coming = next_rowid
  BY DEF IndexRow, Quiet, RInv, IInv, TypeInv, MembersOK, MatchOK, Coming
<1>2. pc' = "meta" /\ Write([mem EXCEPT ![root_page_id] = c])
  BY <1>1 DEF IndexRow, Endless, HerePtr
<1>3. /\ next_rowid \in Rowid /\ HerePtr \in Ptr /\ LiveAt(mem, HerePtr)
      /\ row \in Row /\ row = get(mem[ptr_page(HerePtr)], ptr_slot(HerePtr))
  <2>1. /\ next_rowid \in 1 .. MaxRowid /\ cur_heap_page \in HeapPage /\ slot \in 0 .. SLOTS - 1
        /\ LiveAt(mem, HerePtr) /\ row \in Row /\ get(mem[cur_heap_page], slot) = row
    BY <1>1, BoundsAssumption DEF RInv, IInv, TypeInv, LocalsOK, MembersOK
  <2> QED BY <2>1, PackInverse DEF Rowid, HerePtr
<1>4. RootOK(root)
  BY <1>1, PageKinds DEF RInv, IInv, TypeInv
<1>5. RootOK(c) /\ c.dict = {f \in root.dict : f[1] # next_rowid} \cup {<<next_rowid, HerePtr>>}
  <2> HIDE DEF root
  <2> QED BY <1>3, <1>4, IndexInserted
<1>6. c # Zero /\ ContentOK(root_page_id, c)
  BY <1>5, ZeroIsBlank DEF ContentOK
<1>7. \A f \in root.dict : f[1] # next_rowid
  <2>1. \A f \in root.dict : f[1] < next_rowid
    BY <1>1 DEF RInv, IInv, NumbersOK
  <2> QED BY <1>1, <1>4, <2>1 DEF RootOK, Rowid
<1>8. c.dict = root.dict \cup {<<next_rowid, HerePtr>>}
  BY <1>5, <1>7
<1> HIDE DEF c
<1>9. mem'[root_page_id] = c /\ \A p \in HeapPage : mem'[p] = mem[p]
  <2>1. mem'[root_page_id] = c /\ \A p \in Page : p # root_page_id => mem'[p] = mem[p]
    BY <1>2, <1>6, Layout, WrittenOne DEF RInv, IInv, TypeInv
  <2> QED BY <2>1, Layout
<1>10. ASSUME NEW x \in Ptr
       PROVE  /\ LiveAt(mem', x) <=> LiveAt(mem, x)
              /\ get(mem'[ptr_page(x)], ptr_slot(x)) = get(mem[ptr_page(x)], ptr_slot(x))
  BY <1>9, PtrParts DEF LiveAt
<1>11. \A rid, s : Holds(mem', rid, s) <=>
         (Holds(mem, rid, s) \/ (rid = next_rowid /\ s = row))
  <2>1. ASSUME NEW rid, NEW s
        PROVE  Holds(mem', rid, s) <=>
                 \E x \in Ptr : /\ <<rid, x>> \in c.dict /\ LiveAt(mem, x)
                                /\ s = get(mem[ptr_page(x)], ptr_slot(x))
    BY <1>9, <1>10 DEF Holds
  <2>2. ASSUME NEW rid, NEW x
        PROVE  <<rid, x>> \in c.dict <=>
                 (<<rid, x>> \in root.dict \/ (rid = next_rowid /\ x = HerePtr))
    BY <1>8
  <2>3. ASSUME NEW rid, NEW s, Holds(mem', rid, s)
        PROVE  Holds(mem, rid, s) \/ (rid = next_rowid /\ s = row)
    <3>1. PICK x \in Ptr : /\ <<rid, x>> \in c.dict /\ LiveAt(mem, x)
                           /\ s = get(mem[ptr_page(x)], ptr_slot(x))
      BY <2>1, <2>3
    <3> QED BY <1>3, <2>2, <3>1 DEF Holds
  <2>4. ASSUME NEW rid, NEW s, Holds(mem, rid, s) PROVE Holds(mem', rid, s)
    <3>1. PICK x \in Ptr : /\ <<rid, x>> \in root.dict /\ LiveAt(mem, x)
                           /\ s = get(mem[ptr_page(x)], ptr_slot(x))
      BY <2>4 DEF Holds
    <3> QED BY <2>1, <2>2, <3>1
  <2>5. Holds(mem', next_rowid, row)
    BY <1>3, <2>1, <2>2
  <2> QED BY <2>3, <2>4, <2>5
<1>12. Coming' = next_rowid'
  BY <1>2 DEF Coming
<1>13. scan(mem', next_rowid') = before \cup {<<next_rowid, row>>}
  <2> DEFINE S == scan(mem', next_rowid')
             T == before \cup {<<next_rowid, row>>}
  <2>1. /\ S \subseteq Rowid \X Row /\ \A rid, s : <<rid, s>> \in S <=> Holds(mem', rid, s)
    BY <1>6, <1>9, <1>12, ScanAfter
  <2>2. /\ before \subseteq Rowid \X Row
        /\ \A rid, s : <<rid, s>> \in before <=> Holds(mem, rid, s)
    BY <1>1, ScanBefore DEF RInv, RowsOK
  <2>3. T \subseteq Rowid \X Row
    BY <1>3, <2>2
  <2>4. \A rid, s : <<rid, s>> \in T <=> (Holds(mem, rid, s) \/ (rid = next_rowid /\ s = row))
    BY <2>2
  <2> HIDE DEF S, T
  <2>5. S = T
    BY <1>11, <2>1, <2>3, <2>4, SamePairs
  <2> QED BY <2>5 DEF S, T
<1>14. Hidden
  BY <1>1, <1>2 DEF Hidden, Now, AtRest
<1>15. next_rowid' - 1 = next_rowid
  BY <1>1
<1>16. RowsOK'
  BY <1>1, <1>2, <1>3, <1>13, <1>15 DEF RowsOK, RInv, Functional
<1> QED BY <1>14, <1>16

(* The insert returns the row's number.                                    *)
LEMMA MetaRows ==
  ASSUME RInv, IInv', crashes' = 0, WriteMeta
  PROVE  /\ RowsOK'
         /\ \E r \in Row : \E rowid \in Rowid :
              /\ \A i \in issued : i < rowid
              /\ Now' = Now \cup {<<rowid, r>>}
              /\ issued' = issued \cup {rowid} /\ ret' = [rowid |-> rowid]
<1>1. /\ pc = "meta" /\ pc' = "rest" /\ next_rowid' = next_rowid
      /\ mem' = [mem EXCEPT ![SCHEMA_PAGE_ID] = Meta(next_rowid, cur_heap_page)]
      /\ ret' = [rowid |-> next_rowid - 1] /\ issued' = issued \cup {next_rowid - 1}
      /\ before' = {} /\ count' = count
  BY DEF WriteMeta, Write, members, locals
<1>2. mem'[root_page_id] = mem[root_page_id] /\ \A p \in HeapPage : mem'[p] = mem[p]
  <2>1. mem = [p \in Page |-> mem[p]]
    BY DEF RInv, IInv, TypeInv, PagesOK
  <2> QED BY <1>1, <2>1, Layout
<1>3. mem[root_page_id] # Zero /\ Coming = next_rowid /\ Coming' = next_rowid'
  BY <1>1 DEF RInv, IInv, MatchOK, Coming
<1>4. scan(mem', next_rowid') = scan(mem, next_rowid)
  BY <1>2, <1>3, SameHolds, SameScan DEF RInv
<1>5. PICK r \in Row : scan(mem, next_rowid) = before \cup {<<next_rowid - 1, r>>}
  BY <1>1 DEF RInv, RowsOK
<1>6. next_rowid - 1 \in Rowid
  <2>1. next_rowid \in 0 .. MaxRowid + 1 /\ next_rowid > 1
    BY <1>1 DEF RInv, IInv, TypeInv, MembersOK, LocalsOK
  <2> QED BY <2>1, BoundsAssumption DEF Rowid
<1>7. \A i \in issued : i < next_rowid - 1
  BY <1>1, <1>3 DEF RInv, IInv, NumbersOK
<1>8. Now' = Now \cup {<<next_rowid - 1, r>>}
  BY <1>1, <1>4, <1>5 DEF Now, AtRest
<1>9. RowsOK'
  BY <1>1 DEF RowsOK, RInv, Functional
<1> QED BY <1>1, <1>6, <1>7, <1>8, <1>9

(* Sets of rows under different rowids are finite.                         *)
LEMMA FiniteRows ==
  ASSUME NEW S, S \subseteq Rowid \X Row, Functional(S)
  PROVE  IsFiniteSet(S)
<1> DEFINE g == [e \in S |-> e[1]]
<1>1. IsFiniteSet(Rowid)
  BY FS_Interval, BoundsAssumption DEF Rowid
<1>2. g \in [S -> Rowid] /\ \A e, f \in S : g[e] = g[f] => e = f
  BY DEF Functional
<1> HIDE DEF g
<1>3. g \in Injection(S, Rowid)
  BY <1>2, Fun_IsInj
<1> QED BY <1>1, <1>3, FS_Injection

(* A deletion starts with all of the selected rows left.                   *)
LEMMA CollectRows ==
  ASSUME RInv, IInv', crashes' = 0, NEW P \in Predicate, DeleteWhere(P)
  PROVE  RowsOK' /\ Hidden
<1> DEFINE S == scan(mem, next_rowid)
<1>1. /\ pc = "rest" /\ pc' = "delete" /\ mem' = mem /\ next_rowid' = next_rowid
      /\ before' = S /\ to_delete' = {e[1] : e \in {r \in S : r[2] \in P}}
      /\ issued' = issued /\ ret' = ret /\ count' = count
  <2>1. mem[root_page_id] # Zero
    <3>1. pc = "rest" /\ crashes = 0
      BY DEF DeleteWhere, Quiet
    <3> QED BY <3>1 DEF RInv, IInv, MatchOK
  <2> QED BY <2>1 DEF DeleteWhere, Endless, members, Quiet
<1>2. count = 0 /\ mem[root_page_id] # Zero /\ Coming = next_rowid
  BY <1>1 DEF RInv, IInv, RowsOK, MatchOK, Coming
<1>3. S \subseteq Rowid \X Row /\ Functional(S)
  BY <1>2, ScanBefore DEF RInv
<1>4. Hidden
  BY <1>1 DEF Hidden, Now, AtRest
<1>5. S = {e \in S : e[2] \notin P \/ e[1] \in to_delete'}
  <2> HIDE DEF S
  <2> QED BY <1>1
<1>6. \A rid \in to_delete' : \E e \in S : e[1] = rid /\ e[2] \in P
  <2> HIDE DEF S
  <2> QED BY <1>1
<1>7. count' = Cardinality({e \in S : e[2] \in P /\ e[1] \notin to_delete'})
  <2>1. {e \in S : e[2] \in P /\ e[1] \notin to_delete'} = {}
    <3> HIDE DEF S
    <3> QED BY <1>1
  <2> QED BY <1>1, <1>2, <2>1, FS_EmptySet
<1>8. Deleting(P, to_delete)'
  BY <1>1, <1>5, <1>6, <1>7 DEF Deleting
<1>9. RowsOK'
  BY <1>1, <1>3, <1>8 DEF RowsOK, RInv, Functional
<1> QED BY <1>4, <1>9

(* Freeing its slot takes the victim's row from the table,                 *)
LEMMA FreeRows ==
  ASSUME RInv, IInv', crashes' = 0, FreeSlot
  PROVE  RowsOK' /\ Hidden
<1> DEFINE S == scan(mem, next_rowid)
           T == scan(mem', next_rowid')
<1>1. PICK x0 \in Ptr :
        /\ <<victim, x0>> \in mem[root_page_id].dict /\ victim' = victim
        /\ mem[root_page_id] # Zero
        /\ LivePtrs' = LivePtrs \ {x0}
        /\ \A y \in Ptr \ {x0} : LiveAt(mem, y) =>
             /\ LiveAt(mem', y)
             /\ get(mem'[ptr_page(y)], ptr_slot(y)) = get(mem[ptr_page(y)], ptr_slot(y))
        /\ mem'[root_page_id] = mem[root_page_id]
        /\ pc = "delete" /\ pc' = "unindex" /\ next_rowid' = next_rowid
  BY FreeLive DEF RInv, IInv
<1>2. /\ before' = before /\ to_delete' = to_delete /\ count' = count
      /\ issued' = issued /\ ret' = ret /\ to_delete # {}
  BY DEF FreeSlot, locals
<1>3. RootOK(mem[root_page_id])
  BY <1>1, PageKinds DEF RInv, IInv, TypeInv
<1>4. \A rid, x : <<rid, x>> \in mem[root_page_id].dict => (rid = victim <=> x = x0)
  <2>1. \A e, f \in mem[root_page_id].dict : e[2] = f[2] => e = f
    BY <1>1 DEF RInv, IInv, MatchOK
  <2>2. ASSUME NEW rid, NEW x, <<rid, x>> \in mem[root_page_id].dict
        PROVE  rid = victim <=> x = x0
    <3>1. rid = victim => <<rid, x>> = <<victim, x0>>
      BY <1>1, <1>3, <2>2 DEF RootOK
    <3>2. x = x0 => <<rid, x>> = <<victim, x0>>
      BY <1>1, <2>1, <2>2
    <3> QED BY <3>1, <3>2
  <2> QED BY <2>2
<1>5. \A x \in Ptr : LiveAt(mem', x) <=> (LiveAt(mem, x) /\ x # x0)
  BY <1>1 DEF LivePtrs
<1>6. ASSUME NEW rid, NEW r
      PROVE  Holds(mem', rid, r) <=> (Holds(mem, rid, r) /\ rid # victim)
  <2>1. ASSUME Holds(mem', rid, r) PROVE Holds(mem, rid, r) /\ rid # victim
    <3>1. PICK x \in Ptr : /\ <<rid, x>> \in mem[root_page_id].dict /\ LiveAt(mem', x)
                           /\ r = get(mem'[ptr_page(x)], ptr_slot(x))
      BY <1>1, <2>1 DEF Holds
    <3>2. LiveAt(mem, x) /\ x # x0
      BY <1>5, <3>1
    <3>3. r = get(mem[ptr_page(x)], ptr_slot(x))
      BY <1>1, <3>1, <3>2
    <3> QED BY <1>4, <3>1, <3>2, <3>3 DEF Holds
  <2>2. ASSUME Holds(mem, rid, r), rid # victim PROVE Holds(mem', rid, r)
    <3>1. PICK x \in Ptr : /\ <<rid, x>> \in mem[root_page_id].dict /\ LiveAt(mem, x)
                           /\ r = get(mem[ptr_page(x)], ptr_slot(x))
      BY <2>2 DEF Holds
    <3>2. x # x0
      BY <1>4, <2>2, <3>1
    <3> QED BY <1>1, <3>1, <3>2 DEF Holds
  <2> QED BY <2>1, <2>2
<1>7. Coming = next_rowid /\ Coming' = next_rowid'
  BY <1>1 DEF Coming
<1>8. S \subseteq Rowid \X Row /\ \A rid, r : <<rid, r>> \in S <=> Holds(mem, rid, r)
  BY <1>1, <1>7, ScanBefore DEF RInv
<1>9. T \subseteq Rowid \X Row /\ \A rid, r : <<rid, r>> \in T <=> Holds(mem', rid, r)
  BY <1>1, <1>7, ScanAfter
<1>10. PICK P \in Predicate : Deleting(P, to_delete)
  BY <1>1 DEF RInv, RowsOK
<1>11. before \subseteq Rowid \X Row /\ Functional(before)
  BY DEF RInv, RowsOK
<1>12. victim \in to_delete
  BY <1>2, Victim DEF RInv, IInv, TypeInv, LocalsOK
<1>13. T = {e \in before : e[2] \notin P \/ e[1] \in to_delete \ {victim}}
  <2> DEFINE W == {e \in before : e[2] \notin P \/ e[1] \in to_delete \ {victim}}
  <2>1. S = {e \in before : e[2] \notin P \/ e[1] \in to_delete}
    BY <1>10 DEF Deleting
  <2>2. \A e \in before : e[1] = victim => e[2] \in P
    BY <1>10, <1>11, <1>12 DEF Deleting, Functional
  <2> HIDE DEF S, T
  <2>3. \A rid, r : <<rid, r>> \in T <=> (<<rid, r>> \in S /\ rid # victim)
    BY <1>6, <1>8, <1>9
  <2>4. ASSUME NEW rid, NEW r
        PROVE  <<rid, r>> \in W <=> (<<rid, r>> \in S /\ rid # victim)
    <3>1. <<rid, r>>[1] = rid /\ <<rid, r>>[2] = r
      OBVIOUS
    <3> QED BY <2>1, <2>2, <3>1
  <2>5. W \subseteq Rowid \X Row
    BY <1>11
  <2> HIDE DEF W
  <2>6. T = W
    BY <1>9, <2>3, <2>4, <2>5, SamePairs
  <2> QED BY <2>6 DEF W
<1>14. Deleting(P, to_delete \ {victim})'
  BY <1>1, <1>2, <1>10, <1>13 DEF Deleting
<1>15. Hidden
  BY <1>1, <1>2 DEF Hidden, Now, AtRest
<1>16. RowsOK'
  BY <1>1, <1>2, <1>11, <1>14 DEF RowsOK, RInv, Functional
<1> QED BY <1>15, <1>16

(* removing its entry does not, and one more row counts as deleted.        *)
LEMMA UnindexRows ==
  ASSUME RInv, IInv', crashes' = 0, Unindex
  PROVE  RowsOK' /\ Hidden
<1> DEFINE root == mem[root_page_id]
           c == index_remove(root, victim)
<1>1. /\ pc = "unindex" /\ pc' = "delete" /\ next_rowid' = next_rowid
      /\ to_delete' = to_delete \ {victim} /\ count' = count + 1
      /\ Write([mem EXCEPT ![root_page_id] = c])
      /\ before' = before /\ issued' = issued /\ ret' = ret
  BY DEF Unindex, members, Quiet
<1>2. root # Zero
  BY <1>1 DEF RInv, IInv, MatchOK
<1>3. PICK x0 \in Ptr : <<victim, x0>> \in root.dict /\ x0 \notin LivePtrs
  BY <1>1, <1>2 DEF RInv, IInv, MatchOK
<1>4. RootOK(root)
  BY <1>2, PageKinds DEF RInv, IInv, TypeInv
<1>5. RootOK(c) /\ c.dict = {e \in root.dict : e[1] # victim}
  <2> HIDE DEF root
  <2> QED BY <1>4, IndexRemoved
<1>6. c # Zero /\ ContentOK(root_page_id, c)
  BY <1>5, ZeroIsBlank DEF ContentOK
<1> HIDE DEF c
<1>7. mem'[root_page_id] = c /\ \A p \in HeapPage : mem'[p] = mem[p]
  <2>1. mem'[root_page_id] = c /\ \A p \in Page : p # root_page_id => mem'[p] = mem[p]
    BY <1>1, <1>6, Layout, WrittenOne DEF RInv, IInv, TypeInv
  <2> QED BY <2>1, Layout
<1>8. ASSUME NEW rid, NEW x, <<rid, x>> \in root.dict, x \in Ptr, LiveAt(mem, x)
      PROVE  rid # victim
  <2>1. x # x0
    BY <1>3, <1>8 DEF LivePtrs
  <2>2. rid = victim => <<rid, x>> = <<victim, x0>>
    BY <1>3, <1>4, <1>8 DEF RootOK
  <2> QED BY <2>1, <2>2
<1>9. \A rid, r : Holds(mem', rid, r) <=> Holds(mem, rid, r)
  <2>1. ASSUME NEW rid, NEW r
        PROVE  Holds(mem', rid, r) <=>
                 \E x \in Ptr : /\ <<rid, x>> \in c.dict /\ LiveAt(mem, x)
                                /\ r = get(mem[ptr_page(x)], ptr_slot(x))
    BY <1>7, PtrParts DEF Holds, LiveAt
  <2>2. ASSUME NEW rid, NEW x \in Ptr, LiveAt(mem, x)
        PROVE  <<rid, x>> \in c.dict <=> <<rid, x>> \in root.dict
    BY <1>5, <1>8, <2>2
  <2>3. ASSUME NEW rid, NEW r, Holds(mem', rid, r) PROVE Holds(mem, rid, r)
    <3>1. PICK x \in Ptr : /\ <<rid, x>> \in c.dict /\ LiveAt(mem, x)
                           /\ r = get(mem[ptr_page(x)], ptr_slot(x))
      BY <2>1, <2>3
    <3> QED BY <2>2, <3>1 DEF Holds
  <2>4. ASSUME NEW rid, NEW r, Holds(mem, rid, r) PROVE Holds(mem', rid, r)
    <3>1. PICK x \in Ptr : /\ <<rid, x>> \in root.dict /\ LiveAt(mem, x)
                           /\ r = get(mem[ptr_page(x)], ptr_slot(x))
      BY <2>4 DEF Holds
    <3> QED BY <2>1, <2>2, <3>1
  <2> QED BY <2>3, <2>4
<1>10. Coming = next_rowid /\ Coming' = next_rowid'
  BY <1>1 DEF Coming
<1>11. scan(mem', next_rowid') = scan(mem, next_rowid)
  BY <1>2, <1>6, <1>7, <1>9, <1>10, SameScan DEF RInv
<1>12. PICK P \in Predicate : Deleting(P, to_delete \ {victim})
  BY <1>1 DEF RInv, RowsOK
<1>13. before \subseteq Rowid \X Row /\ Functional(before)
  BY DEF RInv, RowsOK
<1>14. victim \in to_delete
  BY <1>1, Victim DEF RInv, IInv, TypeInv, LocalsOK
<1>15. count' = Cardinality({e \in before : e[2] \in P /\ e[1] \notin to_delete'})
  <2> DEFINE D == {e \in before : e[2] \in P /\ e[1] \notin to_delete}
             E == {e \in before : e[2] \in P /\ e[1] \notin to_delete'}
  <2>1. PICK f \in before : f[1] = victim /\ f[2] \in P
    BY <1>12, <1>14 DEF Deleting
  <2>2. E = D \cup {f} /\ f \notin D
    BY <1>1, <1>13, <1>14, <2>1 DEF Functional
  <2>3. IsFiniteSet(D)
    <3>1. D \subseteq Rowid \X Row /\ Functional(D)
      BY <1>13 DEF Functional
    <3> HIDE DEF D
    <3> QED BY <3>1, FiniteRows
  <2>4. count = Cardinality(D)
    BY <1>12 DEF Deleting
  <2> HIDE DEF D, E
  <2>5. Cardinality(E) = Cardinality(D) + 1
    BY <2>2, <2>3, FS_AddElement
  <2> QED BY <1>1, <2>4, <2>5 DEF E
<1>16. Deleting(P, to_delete)'
  <2>1. /\ scan(mem', next_rowid') = {e \in before : e[2] \notin P \/ e[1] \in to_delete'}
        /\ \A rid \in to_delete' : \E e \in before : e[1] = rid /\ e[2] \in P
    BY <1>1, <1>11, <1>12 DEF Deleting
  <2> QED BY <1>1, <1>15, <2>1 DEF Deleting
<1>17. Hidden
  BY <1>1 DEF Hidden, Now, AtRest
<1>18. RowsOK'
  BY <1>1, <1>13, <1>16 DEF RowsOK, RInv, Functional
<1> QED BY <1>17, <1>18

(* A deletion that is done has deleted the selected rows, and says how     *)
(* many.                                                                   *)
LEMMA DoneRows ==
  ASSUME RInv, IInv', crashes' = 0, DeleteDone
  PROVE  /\ RowsOK'
         /\ \E P \in Predicate :
              /\ Now' = {e \in Now : e[2] \notin P}
              /\ ret' = [count |-> Cardinality(Now \ Now')] /\ issued' = issued
<1>1. /\ pc = "delete" /\ pc' = "rest" /\ to_delete = {} /\ mem' = mem
      /\ next_rowid' = next_rowid /\ before' = {} /\ count' = 0
      /\ ret' = [count |-> count] /\ issued' = issued
  BY DEF DeleteDone, members, Quiet
<1>2. PICK P \in Predicate : Deleting(P, to_delete)
  BY <1>1 DEF RInv, RowsOK
<1>3. Now = before /\ Now' = scan(mem, next_rowid)
  BY <1>1 DEF Now, AtRest
<1>4. Now' = {e \in Now : e[2] \notin P}
  BY <1>1, <1>2, <1>3 DEF Deleting
<1>5. {e \in before : e[2] \in P /\ e[1] \notin to_delete} = Now \ Now'
  BY <1>1, <1>3, <1>4
<1>6. count = Cardinality(Now \ Now')
  BY <1>2, <1>5 DEF Deleting
<1>7. RowsOK'
  BY <1>1 DEF RowsOK, Functional
<1> QED BY <1>1, <1>4, <1>6, <1>7

(* A find reports the row under the rowid, if there is one.                *)
LEMMA FindRows ==
  ASSUME RInv, IInv', crashes' = 0, NEW rid \in Rowid, Find(rid)
  PROVE  /\ RowsOK' /\ Now' = Now /\ issued' = issued
         /\ ret' \in IF \E r \in Row : <<rid, r>> \in Now
                     THEN {[row |-> r] : r \in {s \in Row : <<rid, s>> \in Now}}
                     ELSE {None}
<1> DEFINE root == mem[root_page_id]
           x == index_find(root, rid)
<1>1. pc = "rest" /\ root # Zero /\ Coming = next_rowid
  BY DEF Find, RInv, IInv, MatchOK, Coming
<1>2. /\ pc' = "rest" /\ mem' = mem /\ next_rowid' = next_rowid
      /\ before' = before /\ issued' = issued /\ count' = count
      /\ ret' = IF find_by_rowid(mem, rid) = NoRecord THEN None
                ELSE [row |-> find_by_rowid(mem, rid)]
  BY <1>1 DEF Find, Endless, members, locals, Quiet
<1>3. RootOK(root)
  BY <1>1, PageKinds DEF RInv, IInv, TypeInv
<1>4. /\ Indexed(root, rid) => <<rid, x>> \in root.dict /\ x \in Ptr
      /\ \A y : <<rid, y>> \in root.dict => Indexed(root, rid) /\ x = y
  <2> HIDE DEF root
  <2> QED BY <1>3, IndexFound
<1>5. ASSUME Indexed(root, rid) PROVE LiveAt(mem, x)
  <2>1. <<rid, x>> \in root.dict /\ x \in Ptr /\ <<rid, x>>[2] = x
    BY <1>4, <1>5
  <2>2. x \in Named
    BY <2>1 DEF Named
  <2>3. Named = LivePtrs
    BY <1>1 DEF RInv, IInv, MatchOK
  <2> QED BY <2>2, <2>3 DEF LivePtrs
<1>6. Now = scan(mem, next_rowid) /\ Now' = Now
  BY <1>1, <1>2 DEF Now, AtRest
<1>7. /\ Now \subseteq Rowid \X Row /\ \A r : <<rid, r>> \in Now <=> Holds(mem, rid, r)
  BY <1>1, <1>6, ScanBefore DEF RInv
<1>8. RowsOK'
  BY <1>1, <1>2 DEF RowsOK, RInv
<1>9. CASE Indexed(root, rid)
  <2> DEFINE s == get(mem[ptr_page(x)], ptr_slot(x))
  <2>1. <<rid, x>> \in root.dict /\ x \in Ptr /\ LiveAt(mem, x)
    BY <1>4, <1>5, <1>9
  <2>2. Holds(mem, rid, s)
    BY <2>1 DEF Holds
  <2>3. <<rid, s>> \in Now /\ s \in Row
    BY <1>7, <2>2
  <2>4. find_by_rowid(mem, rid) = s
    BY <1>9, <2>1 DEF find_by_rowid, Fetch, LiveAt
  <2>5. s # NoRecord
    BY <2>3, AnswersAssumption, RowAssumption
  <2> HIDE DEF s
  <2> QED BY <1>2, <1>6, <1>8, <2>3, <2>4, <2>5
<1>10. CASE ~Indexed(root, rid)
  <2>1. ret' = None
    BY <1>2, <1>10 DEF find_by_rowid
  <2>2. \A r : <<rid, r>> \notin Now
    BY <1>4, <1>7, <1>10 DEF Holds
  <2> QED BY <1>2, <1>6, <1>8, <2>1, <2>2
<1> QED BY <1>9, <1>10

-----------------------------------------------------------------------------
(* The theorem.                                                            *)

(* The mapped variables of RowStore.                                       *)
LEMMA RowsVars == Rows!vars = <<Now, issued, ret>>
BY DEF Rows!vars, Now

(* RowStore counts rows as the table does.                                 *)
LEMMA RowsCardinality == \A S : Rows!Cardinality(S) = Cardinality(S)
BY DEF Rows!Cardinality, Cardinality

(* An empty file is a set of no rows.                                      *)
LEMMA InitRows ==
  ASSUME Init
  PROVE  RInv /\ Rows!Init
<1>1. IInv
  BY InitInvariant
<1>2. Coming = 0 /\ pc = "closed" /\ before = {} /\ issued = {} /\ ret = None
  BY Layout DEF Init, Coming, read_meta, Meta
<1>3. scan(mem, 0) = {}
  BY DEF scan
<1>4. RowsOK
  BY <1>2, <1>3 DEF Init, RowsOK, Functional
<1>5. Rows!Init
  BY <1>2 DEF Rows!Init, AtRest
<1> QED BY <1>1, <1>4, <1>5 DEF RInv, Init

(* Each step maps to a step of RowStore or to none.                        *)
LEMMA StepRows ==
  ASSUME ~Exhaustion, MaxCrashes = 0, RInv, [Next]_vars
  PROVE  RInv' /\ [Rows!Next]_(Rows!vars)
<1>1. IInv'
  BY StepInvariant DEF RInv
<1>2. ~Crash
  BY DEF Crash, RInv
<1>3. crashes' = 0
  BY <1>2 DEF RInv, Next, Create, OpenTable, FlushDone, Flushed, Close, InsertRow, IndexRow,
              WriteMeta, Spin, DeleteWhere, FreeSlot, Unindex, DeleteDone, Find, Quiet, vars
<1>4. ASSUME RowsOK', Hidden PROVE RInv' /\ [Rows!Next]_(Rows!vars)
  BY <1>1, <1>3, <1>4, RowsVars DEF RInv, Hidden, Rows!vars, Now
<1>5. CASE UNCHANGED vars
  <2>1. UNCHANGED <<mem, next_rowid, pc, to_delete, count, before, issued, ret>>
    BY <1>5 DEF vars, members, locals
  <2>2. Hidden /\ Coming' = Coming /\ victim' = victim
    BY <2>1 DEF Hidden, Now, AtRest, Coming, victim
  <2>3. RowsOK'
    <3>1. \A P, S : Deleting(P, S) => Deleting(P, S)'
      BY <2>1 DEF Deleting
    <3> QED BY <2>1, <2>2, <3>1 DEF RInv, RowsOK
  <2> QED BY <1>4, <2>2, <2>3
<1>6. CASE \E r \in Row : InsertRow(r)
  <2>1. PICK r \in Row : InsertRow(r)
    BY <1>6
  <2>2. RowsOK' /\ (Hidden \/ (Now' = Now /\ issued' = issued /\ ret' = None))
    BY <1>1, <1>3, <2>1, InsertRows
  <2>3. ASSUME Now' = Now, issued' = issued, ret' = None PROVE Rows!Next
    <3>1. Rows!Insert(r)
      BY <2>3 DEF Rows!Insert, Now
    <3> QED BY <3>1 DEF Rows!Next
  <2> QED BY <1>1, <1>3, <1>4, <2>2, <2>3 DEF RInv
<1>7. CASE WriteMeta
  <2>1. /\ RowsOK'
        /\ \E r \in Row : \E rowid \in Rowid :
             /\ \A i \in issued : i < rowid
             /\ Now' = Now \cup {<<rowid, r>>}
             /\ issued' = issued \cup {rowid} /\ ret' = [rowid |-> rowid]
    BY <1>1, <1>3, <1>7, MetaRows
  <2>2. PICK r \in Row : Rows!Insert(r)
    BY <2>1 DEF Rows!Insert, Now
  <2>3. Rows!Next
    BY <2>2 DEF Rows!Next
  <2> QED BY <1>1, <1>3, <2>1, <2>3 DEF RInv
<1>8. CASE DeleteDone
  <2>1. /\ RowsOK'
        /\ \E P \in Predicate :
             /\ Now' = {e \in Now : e[2] \notin P}
             /\ ret' = [count |-> Cardinality(Now \ Now')] /\ issued' = issued
    BY <1>1, <1>3, <1>8, DoneRows
  <2>2. PICK P \in Predicate :
          /\ Now' = {e \in Now : e[2] \notin P}
          /\ ret' = [count |-> Cardinality(Now \ Now')] /\ issued' = issued
    BY <2>1
  <2>3. Rows!DeleteWhere(P)
    BY <2>2, RowsCardinality DEF Rows!DeleteWhere, Now
  <2>4. Rows!Next
    BY <2>3 DEF Rows!Next
  <2> QED BY <1>1, <1>3, <2>1, <2>4 DEF RInv
<1>9. CASE \E rid \in Rowid : Find(rid)
  <2>1. PICK rid \in Rowid : Find(rid)
    BY <1>9
  <2>2. /\ RowsOK' /\ Now' = Now /\ issued' = issued
        /\ ret' \in IF \E r \in Row : <<rid, r>> \in Now
                    THEN {[row |-> r] : r \in {s \in Row : <<rid, s>> \in Now}}
                    ELSE {None}
    BY <1>1, <1>3, <2>1, FindRows
  <2>3. Rows!Find(rid)
    BY <2>2 DEF Rows!Find, Now
  <2>4. Rows!Next
    BY <2>3 DEF Rows!Next
  <2> QED BY <1>1, <1>3, <2>2, <2>4 DEF RInv
<1>10. CASE \/ Create \/ OpenTable \/ FlushDone \/ Close \/ IndexRow
            \/ FreeSlot \/ Unindex \/ \E P \in Predicate : DeleteWhere(P)
  BY <1>1, <1>3, <1>4, <1>10, CreateRows, OpenRows, FlushRows, CloseRows, IndexRows, FreeRows,
     UnindexRows, CollectRows
<1> QED BY <1>2, <1>5, <1>6, <1>7, <1>8, <1>9, <1>10 DEF Next, Spin

(* As long as heap pages do not run out and without crashes, the table     *)
(* implements the set of rows (ImplementsRowStore).                        *)
THEOREM TableImplementsRows ==
  ASSUME ~Exhaustion, MaxCrashes = 0
  PROVE  Spec => ImplementsRowStore
<1>1. Init => RInv /\ Rows!Init
  BY InitRows
<1>2. RInv /\ [Next]_vars => RInv' /\ [Rows!Next]_(Rows!vars)
  BY StepRows
<1> QED BY <1>1, <1>2, PTL DEF Spec, ImplementsRowStore, Rows!Spec
=============================================================================
