---------------------------- MODULE PoolClient ----------------------------
(***************************************************************************)
(* A buffer pool driven by any caller that keeps to the discipline the     *)
(* B-tree and the table keep to:                                           *)
(*   - a pointer returned by get_page is used only while fewer than Window *)
(*     distinct pages, the page itself included, have been fetched since;  *)
(*   - a page that was written through its pointer is marked dirty before  *)
(*     the pointer is dropped and before a flush.                          *)
(* The file may be closed and reopened, and the process may crash at any   *)
(* step, the middle of a flush included.  A page write is atomic, but may  *)
(* still be in the buffer of the pager's stream, which dies with the       *)
(* process.                                                                *)
(***************************************************************************)
EXTENDS BufferPool, FiniteSets

CONSTANTS Window,  \* pages a caller works with at once (3 in btree.cpp)
          None     \* no page was handed out

ASSUME WindowAssumption == Window \in Nat \ {0} /\ Window <= MaxPages
ASSUME NoneAssumption == None \notin Content

VARIABLES
  pool,       \* the pager and the buffer pool
  recent,     \* recent[p], for a page p whose pointer is in use: the other
              \* pages fetched since p was
  unmarked,   \* pages written through their pointer and not yet marked dirty
  phase,      \* "open", or where flush_all was called from
  pos,        \* flush_all's place in the list
  ret,        \* the content that get_page handed out, if the caller has
              \* neither written nor finished a flush since
  versions,   \* history: what each page has held since the last flush, and
              \* what the file held then without the stream's buffer
  taken       \* history: pages accessed, handed out or found on disk

vars == <<pool, recent, unmarked, phase, pos, ret, versions, taken>>

held == DOMAIN recent
NoPointers == [p \in {} |-> {}]

Init ==
  /\ pool = Open([p \in Page |-> Zero], 0)
  /\ recent = NoPointers /\ unmarked = {}
  /\ phase = "open" /\ pos = 0 /\ ret = None
  /\ versions = [p \in Page |-> {Zero}]
  /\ taken = {}

(* The discipline: no pointer in use falls out of the window.              *)
WithinWindow(p) ==
  \A q \in held \ {p} : Cardinality(recent[q] \cup {p}) < Window

GetPage(p) ==
  /\ phase = "open"
  /\ WithinWindow(p)
  /\ pool' = get_page(pool, p)
  /\ recent' = [q \in held \cup {p} |->
                  IF q = p THEN {} ELSE recent[q] \cup {p}]
  /\ ret' = get_page(pool, p).entry[p].buffer
  /\ taken' = taken \cup {p}
  /\ UNCHANGED <<unmarked, phase, pos, versions>>

Modify(p, c) ==
  /\ phase = "open" /\ p \in held
  /\ pool' = store(pool, p, c)
  /\ unmarked' = unmarked \cup {p}
  /\ versions' = [versions EXCEPT ![p] = @ \cup {c}] /\ ret' = None
  /\ UNCHANGED <<recent, phase, pos, taken>>

MarkDirty(p) ==
  /\ phase = "open" /\ p \in held
  /\ pool' = mark_dirty(pool, p)
  /\ unmarked' = unmarked \ {p}
  /\ UNCHANGED <<recent, phase, pos, ret, versions, taken>>

(* The pointer goes out of scope.                                          *)
Release(p) ==
  /\ phase = "open" /\ p \in held \ unmarked
  /\ recent' = [q \in held \ {p} |-> recent[q]]
  /\ UNCHANGED <<pool, unmarked, phase, pos, ret, versions, taken>>

NewPage ==
  /\ phase = "open"
  /\ pool.next_page_id <= LastPage
  /\ pool' = get_unused_page_num(pool)
  /\ taken' = taken \cup {pool.next_page_id}
  /\ UNCHANGED <<recent, unmarked, phase, pos, ret, versions>>

(* flush_all called by Table, and by ~BufferPool with no pointer left.     *)
FlushAll(from) ==
  /\ phase = "open" /\ unmarked = {}
  /\ from = "close" => held = {}
  /\ phase' = from /\ pos' = 1
  /\ UNCHANGED <<pool, recent, unmarked, ret, versions, taken>>

(* One iteration of the loop of flush_all, which leaves dirty flags set.   *)
FlushStep ==
  /\ phase # "open" /\ pos <= Len(pool.lru)
  /\ pool' = write_back(pool, pool.lru[pos])
  /\ pos' = pos + 1
  /\ UNCHANGED <<recent, unmarked, phase, ret, versions, taken>>

(* flush_all returns; the last page it wrote may be in the stream's buffer.*)
FlushDone ==
  /\ phase = "flush" /\ pos > Len(pool.lru)
  /\ phase' = "open" /\ pos' = 0
  /\ versions' = [p \in Page |-> {View(pool)[p], pool.kept.disk[p]}]
  /\ ret' = None
  /\ UNCHANGED <<pool, recent, unmarked, taken>>

(* A new Pager and BufferPool over the file f that the last ones left.     *)
OpenAgain(f) ==
  /\ pool' = Open(f.disk, f.num_pages)
  /\ recent' = NoPointers /\ unmarked' = {}
  /\ phase' = "open" /\ pos' = 0 /\ ret' = None
  /\ versions' = [p \in Page |-> {f.disk[p]}]
  /\ taken' = {p \in Page : f.disk[p] # Zero}

(* After ~BufferPool's flush_all, ~Pager flushes and closes the stream.    *)
Reopen == phase = "close" /\ pos > Len(pool.lru) /\ OpenAgain(File(pool))

(* The process dies, with or without a page in the stream's buffer.        *)
Crash == \E f \in {pool.kept, File(pool)} : OpenAgain(f)

Next ==
  \/ \E p \in Page : GetPage(p) \/ MarkDirty(p) \/ Release(p)
  \/ \E p \in Page, c \in Content : Modify(p, c)
  \/ NewPage
  \/ \E from \in {"flush", "close"} : FlushAll(from)
  \/ FlushStep \/ FlushDone \/ Reopen \/ Crash

Spec == Init /\ [][Next]_vars

-----------------------------------------------------------------------------
(* The pool is consistent, and the caller's bookkeeping has its types.     *)
TypeOK ==
  /\ PoolOK(pool)
  /\ recent \in UNION {[S -> SUBSET Page] : S \in SUBSET Page}
  /\ unmarked \subseteq held
  /\ phase \in {"open", "flush", "close"} /\ pos \in Nat
  /\ ret \in Content \cup {None}
  /\ versions \in [Page -> SUBSET Content]
  /\ taken \subseteq Page

(* A pointer obtained from get_page and still in use points into the       *)
(* cache, not into a list node that eviction has freed (buffer_pool.cpp    *)
(* 14-19), for a caller that works with no more pages than the cache has.  *)
NoDanglingPointer == held \subseteq Cached(pool)

(* When flush_all has come to the end of the list, and before the caller   *)
(* goes on or the file is closed, the file as the pager reads it holds     *)
(* what every reader sees: no write was left unmarked, no dirty flag was   *)
(* lost through eviction and reloading, and none was skipped by the walk.  *)
FlushSavesAll ==
  phase # "open" /\ pos > Len(pool.lru) => pool.disk = View(pool)

(* get_unused_page_num never hands out a page that is already in use, as   *)
(* the comment of get_page says (buffer_pool.cpp 4-5), also after the file *)
(* has been reopened or recovered from a crash.                            *)
NeverHandsOutUsedPage == [][NewPage => pool.next_page_id \notin taken]_vars

(* The pool implements the flat array of pages: get_page hands out what    *)
(* was written last; caching, eviction, flush and reopening are invisible; *)
(* only a write changes a page; and a crash takes each page back no        *)
(* further than the last completed flush, save one, the last page that the *)
(* flush wrote, which may come back as it was before the flush.            *)
Store == INSTANCE PageStore WITH mem <- View(pool)
ImplementsPageStore == Store!Spec

=============================================================================
