---------------------------- MODULE BufferPool ----------------------------
(***************************************************************************)
(* The Pager and the BufferPool: one .db file seen as an array of pages,   *)
(* and an LRU cache of at most MaxPages of them.  The module holds no      *)
(* state: a pool is a record, and each method of the two classes is an     *)
(* operator from pool to pool.  PoolClient drives it with any disciplined  *)
(* caller, BTreeOnPool with the B-tree.                                    *)
(*                                                                         *)
(* The C++ list of PageEntry plus the map into it are kept as lru, the     *)
(* page numbers in list order (most recent first), and entry, the buffer   *)
(* and dirty flag of each cached page.                                     *)
(*                                                                         *)
(* disk and num_pages are the file as the pager reads it, that is, with    *)
(* the bytes that are still in the buffer of its std::fstream.  The pager  *)
(* flushes the stream in its destructor only; otherwise the buffer is      *)
(* emptied by the seek that begins each read and each write.  kept is the  *)
(* file without that buffer: the last page written may not be in it yet.   *)
(***************************************************************************)
EXTENDS Naturals, Sequences

CONSTANTS LastPage,   \* bound: the largest page number a run may touch
          MaxPages,   \* BufferPool::max_pages, the capacity of the cache
          Content,    \* what a page can hold
          Zero        \* a page past the end of the file reads as zeroes

ASSUME LastPageAssumption == LastPage \in Nat
ASSUME MaxPagesAssumption == MaxPages \in Nat \ {0}
ASSUME ZeroAssumption == Zero \in Content

Page == 0 .. LastPage

PageEntry == [buffer : Content, dirty : BOOLEAN]

(* The pages in the cache: the domain of the C++ member cache.             *)
Cached(b) == {b.lru[i] : i \in 1 .. Len(b.lru)}

(* The C++ map: a buffer and a dirty flag for each page of some set.       *)
EntryMap == UNION {[S -> PageEntry] : S \in SUBSET Page}

(* A file, and the members of a pool and its pager.                        *)
FileRecord == [disk : [Page -> Content], num_pages : Nat]

PoolRecord ==
  [disk : [Page -> Content], num_pages : Nat, kept : FileRecord,
   lru : Seq(Page), entry : EntryMap, next_page_id : Nat]

(* The C++ members of a pool agree: the list has no duplicates and is no   *)
(* longer than the capacity, and the map covers the pages in the list.     *)
PoolOK(b) ==
  /\ b \in PoolRecord
  /\ b.entry \in [Cached(b) -> PageEntry]
  /\ Len(b.lru) <= MaxPages
  /\ \A i, j \in 1 .. Len(b.lru) : b.lru[i] = b.lru[j] => i = j

(* What a reader of page p sees: the cached buffer, else the file.         *)
View(b) ==
  [p \in Page |-> IF p \in Cached(b) THEN b.entry[p].buffer ELSE b.disk[p]]

-----------------------------------------------------------------------------
(* Pager::Pager over an existing file, then BufferPool's constructor:      *)
(* nothing cached, and fresh pages are numbered from the end of the file.  *)
Open(disk, num_pages) ==
  [disk |-> disk, num_pages |-> num_pages,
   kept |-> [disk |-> disk, num_pages |-> num_pages], lru |-> <<>>,
   entry |-> [p \in {} |-> Zero], next_page_id |-> num_pages]

(* The file once the stream's buffer is in it: what ~Pager leaves behind.  *)
File(b) == [disk |-> b.disk, num_pages |-> b.num_pages]

(* seekg and seekp write the stream's buffer to the file.                  *)
seek(b) == [b EXCEPT !.kept = File(b)]

(* Whether file.write passes 4096 bytes on to the system or keeps them in  *)
(* the stream's buffer is the library's choice (GCC's has done both), so   *)
(* that kept is what a crash may leave, and File the other possibility.    *)
write_page(b, p, c) ==
  [seek(b) EXCEPT !.disk[p] = c,
                  !.num_pages = IF p >= @ THEN p + 1 ELSE @]

(* The test-and-write that eviction and flush_all share.                   *)
write_back(b, p) ==
  IF b.entry[p].dirty THEN write_page(b, p, b.entry[p].buffer) ELSE b

(* Mutant: a hit leaves the page where it is (first in, first out).        *)
Promote_none(lru, i) == lru

(* lru with its i-th element moved to the front (std::list::splice).       *)
Promote(lru, i) ==
  [j \in 1 .. Len(lru) |->
     IF j = 1 THEN lru[i] ELSE IF j <= i THEN lru[j - 1] ELSE lru[j]]

PushFront(lru, p) ==
  [j \in 1 .. Len(lru) + 1 |-> IF j = 1 THEN p ELSE lru[j - 1]]

(* Mutant: eviction drops a dirty page without writing it.                 *)
evict_unwritten(b) ==
  LET oldest == b.lru[Len(b.lru)]
  IN  [b EXCEPT !.lru = [j \in 1 .. Len(b.lru) - 1 |-> b.lru[j]],
                !.entry = [q \in Cached(b) \ {oldest} |-> b.entry[q]]]

(* The element in lru.back() leaves, written first if it is dirty.         *)
evict(b) ==
  LET oldest == b.lru[Len(b.lru)]
      kept   == [j \in 1 .. Len(b.lru) - 1 |-> b.lru[j]]
  IN  [write_back(b, oldest) EXCEPT
         !.lru = kept,
         !.entry = [q \in Cached(b) \ {oldest} |-> b.entry[q]]]

(* Mutant: the counter is not kept beyond the pages that were fetched.     *)
bump_missing(b, p) == b

bump(b, p) == [b EXCEPT !.next_page_id = IF p >= @ THEN p + 1 ELSE @]

(* A page that is not cached goes to the front of the list, read in clean. *)
read_in(b, p) ==
  [seek(b) EXCEPT !.lru = PushFront(@, p),
                  !.entry = [q \in Cached(b) \cup {p} |->
                               IF q = p
                               THEN [buffer |-> b.disk[p], dirty |-> FALSE]
                               ELSE b.entry[q]]]

(* Mutant: the cache outgrows its capacity.                                *)
load_unbounded(b, p) == read_in(b, p)

(* A miss: make room if the cache is full, then read the page in.          *)
load(b, p) == read_in(IF Len(b.lru) >= MaxPages THEN evict(b) ELSE b, p)

(* Mutant: a hit clears the page's dirty flag.                             *)
get_page_cleans(b, p) ==
  IF p \in Cached(b)
  THEN LET i == CHOOSE i \in 1 .. Len(b.lru) : b.lru[i] = p
       IN  [bump(b, p) EXCEPT !.lru = Promote(b.lru, i),
                              !.entry[p].dirty = FALSE]
  ELSE load(bump(b, p), p)

(* BufferPool::get_page.  The caller gets a pointer into entry[p].buffer.  *)
get_page(b, p) ==
  IF p \in Cached(b)
  THEN LET i == CHOOSE i \in 1 .. Len(b.lru) : b.lru[i] = p
       IN  [bump(b, p) EXCEPT !.lru = Promote(b.lru, i)]
  ELSE load(bump(b, p), p)

(* The caller writes through the pointer; only defined while p is cached.  *)
store(b, p, c) == [b EXCEPT !.entry[p].buffer = c]

(* Only defined while p is cached: cache[p] is otherwise a null iterator.  *)
mark_dirty(b, p) == [b EXCEPT !.entry[p].dirty = TRUE]

(* ~BufferPool flushes (each iteration of flush_all is a step in           *)
(* PoolClient), ~Pager flushes the stream, and a new Pager and BufferPool  *)
(* open the file.                                                          *)
flush_all(b) ==
  LET flushed[i \in 0 .. Len(b.lru)] ==
        IF i = 0 THEN b ELSE write_back(flushed[i - 1], b.lru[i])
  IN  flushed[Len(b.lru)]
Restarted(b) == LET f == flush_all(b) IN Open(f.disk, f.num_pages)

(* get_unused_page_num returns b.next_page_id and steps the counter.       *)
get_unused_page_num(b) == [b EXCEPT !.next_page_id = @ + 1]
=============================================================================
