# SQL-Mini: a TLA+ model of the engine

SQL-Mini (`src/`) is a single-threaded relational engine in C++. Each table is
one `.db` file of 4096-byte pages; the prompt reaches it through seven layers.
This project models all of them, checks them on small instances with TLC, and
proves with TLAPS, for every size, that the page cache, the B-tree (over the page
cache), the slotted page, the table (over what the layers below it promise) and
the session at the prompt (over the executors) implement their abstract
specifications.

```
  prompt         main.cpp              lines -> statements                      Session       => SQLEngine
  tokenizer,     sql_engine.cpp        text -> parsed statements                (Statements)
   parsers
  executors      sql_engine.cpp        parsed statements -> calls on tables     SQLEngine
   |  row format  schema.cpp           schemas and rows as bytes                (RowFormat)
  Table          table.cpp             rows in heap pages, index, meta page     Table         => RowStore
   |  SlottedPage  slotted_page.cpp    records in one heap page                 SlottedPageClient => SlotArray
  BTree          btree.cpp, node.cpp   rowid -> packed heap pointer             BTree         => OrderedIndex
  BufferPool     buffer_pool.cpp       LRU cache of pages                       PoolClient    => PageStore
  Pager          pager.cpp             the file as an array of pages
```

`X => Y`: module X is shown to implement the abstract specification Y.

## 1. Inventory

**Pager** (`pager.cpp`). State: the file, the buffer of its `std::fstream`,
`num_pages`. Operations: open (length of the file / 4096), `read_page` (a page
past the end reads as zeroes), `write_page` (extends `num_pages`), the
destructor (flushes the stream). Hard: it never looks at the stream's error
state; what `write_page` wrote may stay in the stream's buffer until the seek
that begins the next read or write, or the destructor, so that a process that
dies may take the last page it wrote with it. Correct when: what was written is
what is read.

**BufferPool** (`buffer_pool.cpp`). State: a list of `PageEntry` in order of
use, a map into it, `max_pages`, `next_page_id`. Operations: `get_page`
(hit: move to the front; miss: evict the last entry of a full list, writing it
if dirty, then read), `mark_dirty`, `get_unused_page_num`, `flush_all`, the
destructor. It hands out raw pointers into list nodes, which the next eviction
frees. Hard: pointers held across fetches, dirty flags, fresh page numbers
after a restart, crashes between the writes of `flush_all`. Correct when:
nobody can tell that there is a cache.

**Node / BTree** (`node.cpp`, `btree.cpp`). State: nodes in pages, page 0 the
root, a leaf first; keys are rowids, values packed heap pointers, -1 a
tombstone. Operations: `insert` (descent with a stack of ancestors, leaf split,
new root, insertion in the parent, internal split, root split), `remove` (writes
a tombstone), `find`. Every one calls `get_page` several times and keeps earlier
pointers. Hard: two- and three-page splits, the separator placed by slot in one
branch and by comparison in another, the root's special cases, the link field
shared by the rightmost child and the next leaf. Correct when: it is a
dictionary.

**SlottedPage** (`slotted_page.cpp`). State: one page: header, slot directory
growing up, records growing down. Operations: `init`, `insert` (first deleted
slot, else a new one), `get`, `delete_slot`, `update`, `free_space`. Hard:
off-by-ones where the two areas meet, reuse of slots. Correct when: it is an array of records.

**Table** (`table.cpp`). State: `next_rowid_`, `cur_heap_page_`, heap pages
512..1022, meta page 1023, the index. Operations: construction (new or
existing file), `insert_row`, `delete_where`/`delete_row`, `scan`,
`find_by_rowid`, destruction. Hard: each call changes two or three pages that
must agree, failures in the middle of `insert_row`, crashes with any mixture of
old and new pages. Correct when: it is a set of rows that survives reopening.

**Schema and row format** (`schema.cpp`). Pure encoding of columns and values.
Hard: casts to 8 and 16 bits; a table is used with the schema in memory until
its engine ends and with the one read back from the file ever after. Correct
when: what is read is what was written.

**SQLEngine, executors** (`sql_engine.cpp`). State: the map of open tables.
Operations: CREATE, INSERT, SELECT (scan, or the point lookup of `WHERE col0 =
n`), DELETE, nested-loop join. Hard: the point lookup takes a column value for a
rowid; `open_table` on files that exist, do not, or are half made; columns named
in any order, in one table or two. Correct when: the answers are what the
clauses say.

**SQLEngine, tokenizer and parsers** (`sql_engine.cpp`). No state. Hard: quoted
texts with separators in them, words and operators without blanks between them,
optional clauses and lists found by looking at the next token only. Correct
when: a statement of the grammar in `sql_engine.h` 16-29 is read as what it says.

**REPL** (`main.cpp`). State: the buffer of the statement typed so far. Hard: it
runs the buffer when it sees a semicolon anywhere or an empty line. Correct
when: each statement is run once, when it is complete.

**Demo, benchmark, build files**: a fixed script, measurements, no logic of
their own; not modelled.

How they interact: calls only, downwards, on one thread. There is no lock, no
callback except `scan`'s, no message. What makes the engine hard is therefore
not interleaving but (a) pointers and copies of pages that go stale while a call
fetches other pages, (b) long histories of legal calls, (c) failures half way,
and (d) the order in which a cache happens to write pages before a crash. The
hazards with their lines and the properties aimed at them are in
`PROJECT.json`.

## 2. Modules

| module | models | implements |
|---|---|---|
| `PageStore` | what pool and pager promise: a flat array of pages; a crash takes each page back no further than the last completed flush, except the one page that the flush wrote last | |
| `BufferPool` | `Pager` and `BufferPool` as operators from pool to pool | |
| `PoolClient` | any disciplined caller of a pool; flush in steps, reopening, crashes at any step | `PageStore` |
| `PoolClientProofs` | the proofs: the operations of the pool, then its caller | |
| `OrderedIndex` | what the B-tree promises: a dictionary, each call acting on the key and value it was asked for | |
| `BTreeNode` | a node, and each rewriting of a node | |
| `BTree` | `insert`, `remove`, `find`, reopening; one step per fetch; over any memory of pages | `OrderedIndex` |
| `BTreeOnArray`, `BTreeOnPool` | its memory: a flat array; `BufferPool` | |
| `BTreeProofs` | the proofs: nodes and trees as data, and the steps, over any memory; the two memories | |
| `SlotArray` | what a slotted page promises: an array of records | |
| `SlottedPage` | `SlottedPage`, byte by byte, as operators | |
| `SlottedPageClient` | any sequence of its calls | `SlotArray` |
| `SlottedPageProofs`, `SlottedPageClientProofs` | the proofs | |
| `RowStore` | what a table promises: a set of rows under rowids | |
| `Table` | `Table`, over the abstract page array and the abstract dictionary, with `SlottedPage` for heap pages; crashes | `RowStore` |
| `TableProofs` | the proofs: what every page holds; index and heap, crashes; the refinement | |
| `SQLEngine` | the executors of CREATE, INSERT, DELETE, SELECT and JOIN over tables as `RowStore` describes them; the map of open tables | |
| `SQLEngineProofs` | the proofs: types, what scans and nested loops collect, what SELECT, JOIN and DELETE mean | |
| `RowFormat` | schemas and rows as bytes, with the width of every field | |
| `Statements` | `trim`, `tokenize`, the parsing half of each executor and the choice in `exec` | |
| `Typing` | the environment: the ways in which a user may write a statement | |
| `Session` | the prompt's loop over lines; parsed statements on tables of bytes; leaving and starting again | `SQLEngine` |
| `StatementProofs` | the proofs: texts and tokens, the parsers, statements in lines | |
| `SessionProofs` | the proofs: rows and schemas as bytes, the files of tables, the session | |

`MCPoolClient`, `MCBTree`, `MCBTreeOnPool`, `MCSlottedPage`, `MCTable`,
`MCSQLEngine` and `MCSession` only give constants their values.

**State and code.** In `BufferPool` a pool is a record: `disk` and `num_pages`
are the file as the pager reads it, `kept` is the file without what may still be
in the stream's buffer, `lru` is the C++ list (front first), `entry` the buffers
and dirty flags, `next_page_id` the counter. `seek` empties the stream's buffer,
`write_page` seeks and then writes; a crash leaves either file. `get_page` is `bump`, then `Promote`
or `load` (`evict` if full, `read_in`). Writing through the returned pointer is
`store`, defined only while the page is cached.

In `BTree` a call is cut where it fetches a page, because there the pool may
free another page's buffer; `pc` says which fetch is next, `cur`, `ancestors`,
`sep_key`, `right_id`, `left_id` and `over` are the locals that live across it.
`mem` is whatever the constants `Fetch`, `Put`, `Mark`, `Pages` and `Restart`
make of it, so that the same tree runs over a flat array and over the pool.
`call` is the call in progress with its key and value; the refinement maps it to
`asked` of `OrderedIndex`, whose answers are those of the call asked.

In `SlottedPage` a page keeps its directory as a sequence and its bytes as a
function; writes of directory entries are also written to the bytes, so that an
overlap of the two areas destroys data in the model as it does in the code.

`Table` does not repeat the layers below it but uses what they promise:
pages are read and changed as in `PageStore` (`mem`, `versions`), and the tree
is the dictionary of `OrderedIndex`, kept as the content of page 0. `pc` stands
between the steps of `insert_row` (heap, index, meta), of `delete_row` (heap,
index) and of a flush (`"flush"` after a CREATE, `"closing"` in the destructor).
When `flush_all` of a CREATE returns, page 0, which it writes last, may be in the
stream's buffer (`Buffered`); after the one in the destructor `~Pager` flushes
the stream.
`to_delete` is the vector of the same name in `delete_where`, as a set: `scan`
collects rowids upwards, so that the next one (`victim`) is the least. A file that a crash has left without its meta page or
without page 0 is opened like any other; where the B-tree would go round page 0
forever, `pc` is `"hang"`.

In `SQLEngine` a statement is already parsed: a record with its table, columns,
WHERE and LIMIT. `table` is what the files hold, rows in a sequence whose
indices are their rowids; `tables_` is the map of open tables; `res` keeps the
last statement and its answer, which the properties compare with what the
statement means. What executors see of texts and numbers (order, digits,
`stoi`) is given by constants.

In `Session` the same statements are texts that the user types: sequences of
characters, where a keyword, a name or a number is one character, because no
code looks inside it. `Lines` writes a statement in one of several looks (case,
quotes, blanks, line breaks, end), `Enter` is one round of the loop in `main`,
`exec` reads the buffer back, and the executors, those of `SQLEngine`, run on
`tables`: what the bytes in `files` say under the schema in memory or, for a
table not open, under the schema in the file. `asked` and `ran` remember what
the user meant and what was executed.

The loops of the tokenizer, the parsers and the row format are recursive
functions: of the position in the text or among the tokens (`turn` is one round
of `tokenize`'s loop, `column_at` one of `exec_create`'s), or of the number of
columns that a loop has done.

## 3. What the runs check

**pool_client** - 3 pages, a cache of 2, window 2, two contents: 330 thousand
states. Enough for hits on either place in the list, misses with and without
eviction of clean and dirty pages, a page loaded again, all orders of fetch,
write, mark, release, flush, close and crash, with or without what is in the
stream's buffer. `NoDanglingPointer`: a pointer in
use is never into a freed page. `FlushSavesAll`: at the end of `flush_all` the
file is what readers see. `NeverHandsOutUsedPage`: fresh numbers are fresh, also
after restarts. `ImplementsPageStore`: `get_page` hands out what was written last, and a crash
takes no page back further than the last completed flush, except the one that
the flush wrote last, which comes back as the file had it before.

The caller keeps to a discipline that the code's callers keep to: it uses a
pointer only while fewer than `Window` distinct pages, that page included, were
fetched since (3 in `btree.cpp`), and marks what it wrote before it drops the
pointer. `btree_on_pool` checks that the B-tree does.

**btree** - nodes of 2 cells, 7 keys, insertion in every order, one key with
two values that may also be removed and found at any time: 96 thousand states,
12 pages. That is enough for trees of three levels: leaf splits at both ends
and in the middle, splits of the root leaf, of internal nodes and of the
internal root. `SearchTree`, `OneParent`, `LeafChain` and `HalfFull` say between
calls that the pages form a balanced search tree that owns each page once, that
the leaf links are in key order, and that no node is too empty;
`ImplementsIndex` that each call of `insert`, `remove` and `find` does to the
dictionary, and answers, what that call should on the key and value it was given;
`EveryCallReturns` that no call loops.

*Fairness.* `WF_vars(Step)`: the engine has one thread, and a call that was
begun is run on. Beginning a call is not fair: a user may stop.

*Bounds.* `LastPage` bounds the pages (`Room`: a step that needs a new page is
taken only if there is one) and `KeyLimit` the keys, both beyond what the
inserted keys can reach: that every call returns shows that no call of the runs
was stopped for want of a page.

*Restriction.* A run does not insert a key that a full leaf already holds (in a
leaf with room it may). `BTree::insert` tests for a full leaf (btree.cpp 102)
before it looks for the key, and would make a second cell. The table inserts
each rowid once, tombstones included, so it never does that before a crash.

**btree_on_pool** - the same tree on the pool, with a cache of exactly 3 pages,
the most a split works with: 632 thousand states. Keys 1 to 6 are inserted in
any order, key 2 with another value than the rest; it may be removed, and it and
key 3 looked up. `NoDanglingPointer`: every
page a step reads or writes through an old pointer is still cached.
`EveryWriteMarked`: between calls a cached page that differs from the file is
marked. `ImplementsIndex` again, now across evictions and reopening.

**slotted_page** - a page of 24 bytes, records of different lengths: 97 thousand states. Room
for up to four records; every sequence of inserts, deletes, updates and reads. `NoOverlap`,
`RoomMeansSuccess` (the table's test before the insert suffices), and
`ImplementsSlotArray`, byte for byte. `update` has no caller in the engine.

**table** - two heap pages that take rows and a third to fall into, rows of
three lengths, one of which fits on no page, four rowids: 114 thousand states. `SlotsMatchIndex`:
index entries and live slots correspond one to one between calls.
`ImplementsRowStore`: inserts, failed inserts, deletes, finds, closing and
opening do what they do to a set of rows. `RowidsAreFresh`: no rowid is returned
twice, also after reopening (with crashes it is, section 5). `Exhaustion = FALSE` stops inserts
when the last heap page is reached; **table_exhausted** lifts that (section 5).

**table_crash** - the same with two crashes, at any step, each page coming back
at any version since the last completed flush, and page 0 also as it was before
the flush of the creation: 483 thousand states.
`CreatedTablesWork`: a crash in the flush that ends CREATE TABLE may leave a file
on which every insert hangs (page 0 missing) or which opens with rowid 0 and heap
page 0 (meta page missing), and on both a second CREATE TABLE reports success.
Once CREATE TABLE has returned, the meta page, which its flush writes first, is
there after any crash. Page 0, which the flush writes last, may still be lost
(section 5); but once the table was opened with it, no crash takes it away and
no call hangs.
`CommittedRowsSurvive`: rows of the flushes before the first crash are neither
lost by it nor destroyed by what is done after it. This is more than the
repository promises (`src/README.md` 107-109 disclaims ACID), and it holds.
What does not hold, and is promised nowhere: rows flushed *after* a crash may
share a slot. An index page that survives the crash without the heap page of
its newest row keeps an entry for an empty slot; the next insert fills the slot,
and the row is there under two rowids; deleting one and crashing before the
other is deleted loses both.

**engine** - two tables with the same two columns in opposite orders (one of
them created with either order), two rowids each, nine INSERTs (positional, by
name, with too few or too many values, failing), seven DELETEs, fourteen
SELECTs, fifteen JOINs, closing the engine at any time: 49 thousand states.
Two rows are enough for a match, a mismatch, a gap left by a deletion and a
limit that stops early (in the inner loop of a join with pairs left in both
loops). `SelectAnswers` and `JoinAnswers` say what a statement means without
scans, loops and early stops; `DeleteLeavesTheRest` relates a DELETE to two
SELECTs around it; `TypeOK` says that rows fit their table's schema, whichever
columns their INSERT named and whatever a later CREATE asked for.
`PointLookups = FALSE` keeps SELECT from the shortcut of `WHERE col0 = n`;
**engine_point_lookup** lifts it (section 5). There is no LIMIT 0, which shows
every row (sql_engine.cpp 330 tests the limit only if it is positive). The
WHERE and the columns of a join may be bare, those of its ON are not (section
6). A join's WHERE compares integers with numbers and texts with non-numbers
(`ComparedAlike`), where `match_where_combined` and `match_where` agree.

**session** - two tables, one with its TEXT column last and one with it first;
INSERTs by name in reverse order, with too few values, and positional; DELETEs,
SELECTs and a JOIN with every clause; a text made of separators, operators,
blanks and a semicolon, one of 17 characters, so that its length takes two bytes
of 16 values each, numbers of either sign; two rows per table; text that is no
statement; three looks, which between them have both cases and quotes, `<>` and
`!=`, JOIN and INNER JOIN, hardly a blank and blanks everywhere, one or two
lines before the end, and all three ends (a semicolon, one on its own line, an
empty line); the program left after any line: 46 thousand states.
`StatementsReadBack`: each statement is executed when its last line is typed, as
it was meant. `ImplementsEngine`: every line is a step of `SQLEngine` or none,
with the tables read from their bytes; leaving the program is its `Exit`, so
that a schema read back from a file must be the one that was created.
`TypeOK`: what is in the files is bytes. Operators have blanks before them, as
the grammar writes them; **session_glued** takes those away (section 5).

What is typed is assumed to be of the grammar (`TablesAssumption` and those after
it, `CharactersAssumption`): names of tables and columns are words without signs,
no SELECT names a table or column, or compares with a value, that is just a word
some parser looks for there, no INSERT has the value `')'`, and what is no
statement is something `exec` refuses. A look is *legible* (`Legible`) if it
omits blanks only where the tokenizer ends a word or a sign anyway, puts no value
in a quote it contains, and breaks a statement in two only before its first
semicolon. TLC evaluates the assumptions in both runs, and that the looks of
`session` are legible (`MCLooksAssumption`); the look of `session_glued` is not,
for it puts an operator right behind a word.

## 4. What is proved

Every theorem holds for all values of the constants that satisfy the named
assumptions of the modules; TLC evaluates these on every run. No property below
is inductive as it stands; the invariants that make it so were checked on the
instances of the runs before they were proved, and no run lists them: they state
nothing about the code that the properties they support do not.

### The page cache

For every capacity, window, file size and set of page contents
(`PoolClientProofs`; the assumptions are `MaxPages >= 1`, `1 <= Window <=
MaxPages`, and that a page of zeroes is a content):

- `TypeCorrect`, `PointersAreSafe`, `FlushIsComplete`, `FreshPagesAreUnused`:
  the three invariants and the action property that `pool_client` checks;
- `PoolImplementsPageStore`: the refinement, initial states and each step.

`GetPageContract` in `PoolClientProofs` is the heart: what `get_page` does to
any consistent pool, whether hit, miss or miss with eviction. The invariant
`IInv` adds to the properties:

- `Recency`: the pages ahead of a held page in the list are among those fetched
  since it was. A page is evicted only from the last place of a full list, with
  `MaxPages - 1` distinct pages ahead of it; a held page has fewer than
  `Window - 1` before the fetch; so it is not the one evicted. The counting step
  is `LastIsBehindAll` with the library's theorems on cardinalities.
- `CleanIsOnDisk`: a clean page that is not being written is the same in the
  file, so eviction may drop it.
- `VersionsOK`: the copies of a page in the cache and in the file as the pager
  reads it are ones that a crash may bring back.
- `KeptOK`: so is its copy in the file without the stream's buffer, and that
  file differs from the other in one page at most, the last written, for every
  write seeks first (`KeptKept`). Without it a flush that has just ended could
  lose two pages.
- `CounterOK`: `next_page_id` is beyond the file, the cache and all pages in
  use; what is beyond `num_pages` on disk is zero. Without the last part a page
  that a restart finds in the file could be handed out.
- `FlushOK`: the walk of `flush_all` has saved the pages before its position.

### The slotted page

For every page size, every set of byte values and every set of records
(`SlottedPageProofs`, `SlottedPageClientProofs`; a page has room for its header,
and the bytes of directory entries and of fresh pages, like the answer
"no record", are told apart from those of records):

- `PageStaysGood`: the invariant. Each entry of the directory lies between
  `free_offset` and the end of the page, `free_offset` is above the directory,
  live records are disjoint, and each holds the bytes that were stored.
- `TypeCorrect`, `RecordsStayApart`, `RoomIsEnough`: the invariants of the run.
- `PageImplementsArray`: the refinement of `SlotArray`.

`InsertStores` says what `insert` does to any page: if it fits, it returns a
slot that was not live, the record is in it, and every other slot reads as
before. A record goes below `free_offset`, which is below all live ones, whether
its slot is new or reused; a new entry fits between the old directory and the
record, which is what `fits` tests. The table's proofs use the same lemmas for
their heap pages.

### The table

For every number of heap pages, page size, set of rows, bound on rowids and set
of predicates (`TableProofs`). The assumptions: heap pages lie between page 0 and the meta page; a page has no more
slots than a packed pointer tells apart (4096 against at most 1023 of 4 bytes in
a page of 4096); rows are strings of bytes; a page of zeroes is none that a
table writes. One hypothesis stands in each theorem: `~Exhaustion`, rows are not
inserted after the last heap page is reached. Without it the statements are
false, as `table_exhausted` shows.

- `TypesKept` (`TypeInv`) and from it `TypeCorrect`, `MetaPageKept`. Every page
  is of the kind its number says, in memory *and in every version that a crash
  may bring back*, heap pages are good slotted pages, the locals say what the
  call in progress has done, and rowids to delete are in the index.
- `CreationLasts`: `CreatedTablesWork`, through any number of crashes. The
  invariant (`CreatedOK`) says of *every version* of the meta page that it is not a page of
  zeroes once the creation was flushed, and of every version of page 0 likewise
  once the table was opened with one; it needs that a closed file has a single
  version of each page (`ClosedOK`), since that is when page 0 is looked at.
- `IndexMatchesHeap`: `SlotsMatchIndex`. The inductive form, `MatchOK`, is that
  pointers of live entries and live slots correspond one to one except for the
  slot in hand (filled and not yet indexed, or freed and not yet taken out), and
  it needs `NumbersOK`: every key of the index is below `next_rowid`, for
  inserting a key that is there would drop an entry and leak its slot.
- `CommittedRowsKept`: `CommittedRowsSurvive`, through any number of crashes.
  `Safe`: in *every* mixture of page versions a committed row is in the index
  under its rowid, its slot holds it, and no other entry or rowid to delete
  names that slot. The invariant of one memory is not enough, since a crash
  may combine any version of page 0 with any of each heap page; and until the
  first crash `MatchOK` is what makes the mixtures safe.
- `RowidsNotReused`: `RowidsAreFresh`, under `MaxCrashes = 0`. With crashes it
  is false (`table_rowid_reuse`).
- `TableImplementsRows`: the refinement of `RowStore`, under `MaxCrashes = 0`
  since `RowStore` has no crashes. `RowsOK` relates the rows at the beginning of
  a call to those on the pages after each of its steps: as many as before, with
  the new row, or less those deleted so far; the answer of `delete_where` counts
  them, by the library's theorems on cardinalities.

### The B-tree

For every capacity of a node from two cells up, number of pages, set of calls
and values. The assumptions: keys are numbers below `KeyLimit` (2^32 in the
code), the tombstone is no value that is inserted, and the link of the last leaf
is no page. Three parts:

- Nodes and trees as data. `LeafNodeFind` says where the
  binary search stops; it is a recursive function over the windows `min, max`,
  and its value is got at by well-founded induction on them. Other lemmas say
  what each rewriting of a node makes of its keys and children. `Shape` gives
  every page of a tree a span `lo .. hi` of keys and a height; leaves have keys
  within their span and link to the leaf where the next begins, children have
  the spans between the separators, and each page has one parent. `LevelAdded`
  and `NodeDivided` keep it: a root put on top, a node divided and its new half
  given to the parent. Spans make all of this local; the levels, leaves and
  keys below a page that the properties speak of are related to spans and
  heights once (`LevelIs`, `BelowIs`), whatever the depth.
- The steps. `Invariance` proves `IInv`, and from it follow
  `TypesCorrect`, `SearchTreeKept`, `OneParentKept`, `LeafChainKept`,
  `HalfFullKept` and the refinement `Implements`, which binds the key and value of
  each call: from its first step to its return it is the call that was asked
  (`Asked`, `AskedKept`).
- The memories, and what follows over them. `CapacityAssumption`, of the pool
  only, is not used before this part.

*The invariant.* Between calls the pages are a tree, but while an insert hands a
split up they are not: a page has been cut and its parent does not know, and the
left half of an internal node is in place while the rest is in `new_keys` and
`new_ch`. `IInv` says in these states that there is a well-formed tree `V` with
one node one cell too full, whose entries are those of the dictionary after the
insert, and that the pages are `V` except that this node is cut in two
(`Splitting`), has moved off the root (`Linking`), or is in `over` beyond its
left half (`Overfull`). Each step moves the fault one level up or mends it. `Path`
says that the stack of ancestors leads there. What the code does twice in two
ways - the separator placed by slot where the parent has room, by comparison
where it has not - comes to the same place because the child's span is the one
the separator falls in (`ChildOfKey`).

*The memory.* The steps are proved over any memory that keeps the laws
`PageMemory(M, U, H)`: `U[m]` are the pages that may be lost from memory m, being
written or new and not yet marked, and `H` the pages to which the caller still
has a pointer, with what was fetched since. `Fetch` may be called only if every
page in `U` is the one fetched or held with at most one page fetched since; a pointer may be
written through only while it is held; `Restart` may be called only if nothing
is in `U`. That every step of the tree respects this is part of the proof
(`MemoryInv`), and is what the code relies on without saying so: the root is
written before `create_new_root` fetches the right child and marked only after,
as is the left half of an internal root. The laws are not assumed of the code:
`PoolIsMemory` derives them for the pool from `GetPageContract`,
`RestartContract` and `MaxPages >= 3`, and `ArrayIsMemory` for the flat array.
So over the real pool: `NoneDangling`, `WritesMarked`, `TreeOverPool` (the five
invariants) and `ImplementsOverPool`. The hypothesis `OverPool` of these is just
what MCBTreeOnPool.cfg substitutes.

`FlushContract` in `PoolClientProofs` describes the whole loop of `flush_all`, where
`FlushOK` above is about one step of it.

### The executors

For every set of table names, schemas, texts and statements, and tables of every
length. The assumptions: a schema's columns are INT or TEXT; the lists, clauses
and limits of a statement are of the grammar's form, a join is of two tables and
its ON names a column of each; a number read from a text is an integer, 0 among
them; texts are ordered by something that is true or false; and the markers for
no row, no table and no answer are none.

- `TypeCorrect`. The invariant `Types` says more than `TypeOK`: integers in rows
  are numbers that some text reads as (or 0), which is why `to_string` of a row
  is defined.
- `SelectsAnswer`, for SELECTs that scan (`~PointLookups`: the other kind
  violates the property, section 5). `selected` folds the callback over the
  rowids; `SelectedIs` shows by induction on them that after each the callback
  has collected the first of the matching rows, as many as there are or the limit
  allows, and has stopped just when it is full (`OneMore`). `NthAdded` says that
  the order of a set does not change when a greater rowid joins it.
- `JoinsAnswer`. The same for two loops: `joined` folds over pairs of rowids in
  the order in which the loops meet them; `JoinedIs` shows, by induction on
  pairs in that order, that at each the answer is the first of the pairs that
  match so far. `JoinMeans` turns what the loops test into
  what the statement says: ON in either order (`OnColumnsAre`), a name found
  among the combined columns if it is known and not ambiguous (`Resolved`), the
  WHERE on the combined row as on the row that has the column (`CombinedMeets`).
  The last needs `ComparedAlike`, a hypothesis of the theorem: elsewhere the
  two comparisons differ (a hazard; TLC evaluates the hypothesis for the
  engine run).
- `DeletesLeaveTheRest`. A row that can be compared satisfies a condition or its
  negation (`MatchNegated`, which needs the types); the rows left keep their
  order because their rowids are the same set (`RestIs`, `DeleteLeaves`).

A recursive function needs a proof that it is defined before anything can be
said of its values (`SelectedDefined`): the library's induction theorems take an
operator, so this and the inductions above go by the least counterexample
(`LeastNumber`).

### The session

For every alphabet, set of tables, schemas, statements and texts, bound on rowids,
width of a byte and set of looks (`StatementProofs` for what is typed;
`SessionProofs`, which extends it, for the rows, the files and the session). The
assumptions are those of section 3 and that schemas and rows fit their fields
(`LimitsAssumption`).
The theorems on whole sessions have one hypothesis, that every look in
`Looks` is legible. It is no assumption of the module because
`session_glued` is about a look that is not.

- `TypeCorrect`, `ReadsBack`, `Implements`: the three properties of the run, from
  `Invariant`.
- `EveryStatementReadsBack`: every statement in every legible look, from its
  lines to what `exec` makes of them.
- `RowReadsBack`, `SchemaReadsBack`: rows and schemas of any size.

*The invariant* has two parts. `Files`: each file is one that some schema of its
table and rows of that schema make, and an open table has that schema in memory.
`Pending`: either nothing is in the buffer, what was asked has been run, and
the lines left are empty or a semicolon; or the lines left, added to the buffer,
make `main` run what was asked with one of them and nothing with the others
(`Typed`). The second part is why the history variables are related at all while
a statement is half typed: a line break, `;` on a line of its own and an empty
line after a complete statement are all cases of it.

*Bytes.* An encoded row is a concatenation of parts; `Prefixes` says where each
begins, and the decoder, after c rounds, has read c values and stands at the
beginning of part c + 1. Lengths below 2^16 and the two's complement of 32 bits
come back from their bytes (`div` and `mod` by `BYTE`, which is any number above
1).

*Tokens.* `TokensAre`: a text in which pieces stand one after the other
(`LaidOut`), with a blank between two of them unless they may touch, is
tokenized as just these pieces. It needs what each round of the loop does at a
word, a quoted text, a sign and a pair of signs (`TurnIs`), and the sharp part is
which pieces may touch (`Touch`): a word must be followed by what ends a word, and a
`<` or `>` not by a `=` or `>`. That the looks keep to this, in one line and
broken into two, is `JoinedIs`.

*Parsers.* A list of any length is read back up to its closing token, which no
element may be read as (`ListRead`), columns with and without a length are
(`ColumnsRead`), references with and without their table (`ReferenceIs`), and
WHERE and LIMIT at the end of a statement (`ClausesRead`). `CreateWritten`,
`InsertWritten`, `DeleteWritten`, `SelectWritten` and `JoinWritten` put these
together, and `Dispatch` that `exec` chooses the right parser; that SELECT goes
to `exec_join` if the word JOIN is anywhere in it is why the assumption on SELECTs
keeps that word out of names and values.

*Induction.* The library's induction theorems cannot be used (they take an
operator), so each loop is followed by a least counterexample (`LeastNumber`),
once in general: `Chain` shows that a loop which only moves forward and stops
past the end defines a function, `Runs` that it visits the positions it is said
to visit.

### What is only model-checked

- `EveryCallReturns` of the B-tree: liveness is beyond this prover.
- That the looks of a session are legible, the hypothesis of its theorems: TLC
  evaluates it for the looks of the run.
- The violations of section 5.

## 5. What the runs found

- **table_rowid_reuse**: the comment at table.cpp 96 says `next_rowid_` is
  always current on disk; `write_meta` writes it to the cache. After a crash
  rowids are handed out again.
- **table_exhausted**: `insert_row` advances `cur_heap_page_` before it tests
  for the last heap page (table.cpp 81-82); the insert after the one that failed
  turns the meta page into a heap page. The model follows the table no further.
- **engine_point_lookup**: `SELECT ... WHERE col0 = n` (sql_engine.cpp 307) shows
  the row whose rowid is n, whatever its first column holds.
- **session_glued**: a word ends at a blank, a comma, a parenthesis, a semicolon
  or a quote only (sql_engine.cpp 53-55), although the comment above `tokenize`
  lists `= < > !` among the characters it splits on. `WHERE id=1 LIMIT 1` reads
  as the column `id=1`, the operator `LIMIT` and the value 1, and shows no row.

Three remarks without a run. After CREATE TABLE has returned, page 0 may be in
the stream's buffer only (pager.cpp 35); a process that dies before the file is
accessed again leaves a table on which every insert and lookup hangs. The comment
at table.cpp 49, "ensure schema page hits disk immediately", is true all the
same, since the walk of `flush_all` writes the schema page first and page 0 last,
so that the seeks in between empty the buffer (`CreatedTablesWork` says both). `src/README.md` 76 says `.exit` quits; main.cpp 55
knows `exit` and `quit`, and `.exit` stays in the buffer until the next empty
line or semicolon (`session` types it). The comment at main.cpp 40 says the demo
runs in a throw-away file; it removes `users.db`, which may be a user's table.

## 6. Limits

- A page write succeeds and is atomic, and what has left the stream's buffer is
  in the file: a crash is that of the process, not of the operating system.
  `Pager` checks no errors; a failing file system is outside the model.
- The stream's buffer holds at most one page, and a crash may keep or lose it.
  `BufferPool` and `PoolClient` follow when a seek empties it. `Table` does not:
  there page 0 may come back as before its creation until the table is closed,
  which allows more than the code does.
- `heap_page` takes a page for fresh when bytes 2-3 are zero. For the meta page
  those are the upper half of `next_rowid`; the model takes them to be zero,
  as they are below 65536 rowids. Space in a heap page is never reclaimed, so a
  table has run out of heap pages by then if its rows take 32 bytes or more;
  with smaller rows `insert_row` goes on past the meta page into pages of the
  index, which is not modelled.
- Page 0 as one unit of a crash holds for an index of one leaf, up to 510 rows.
  A crash inside a split of a larger tree can leave a child pointer to a page
  that was never written: the subtree is lost, or a descent never ends.
- Inserts into a table that was opened without its meta page are not followed:
  they make a heap page of page 0.
- In `Table` rows are opaque byte strings, and in `Session` tables are rows of
  bytes in a sequence: that a row fits on a page is the business of the former,
  that its bytes say what they should of the latter. A file of zero pages only
  (possible after a crash in CREATE TABLE) is taken for an empty one, on which
  the code would run as on a half-made one.
- `RowFormat` cuts lengths as the code does, but the runs keep to schemas and
  rows that fit their fields (`LimitsAssumption`): up to 255 columns, names of
  255 bytes, rows of less than 64 KiB. Nothing in the code tests this, nor that
  the schema fits in the meta page, nor `TEXT(n)`'s n, which limits nothing.
- `Session` types statements of the grammar to their end. Not typed: a statement
  that breaks off in a clause (the parsers read past the last token), a text
  that is just a token some parser looks for (`')'` ends the values of an
  INSERT, `'join'` sends a SELECT to the join), a number too large for `stoi`, a
  second statement on the line of the first (taken for the rest of it, and
  ignored), a syntax error that comes after the table has been opened, and a
  SELECT with an empty list (which the parsed statement writes like `*`).
- `SQLEngine` and `Session` have no crashes and no join of a table with itself
  (which has no aliases, so that ON cannot tell the sides apart). ON names its
  columns with their tables: sql_engine.h 29 allows bare names, but the code
  takes a first bare name for a column of the left table and a second for one of
  the right (sql_engine.cpp 526), and fails on the other order. The
  benchmark's own join is not modelled.
- The B-tree's binary search is run as the code runs it; byte offsets within a
  node are not modelled.

## 7. Plan

In this order.

1. *Done.* `PageStore`, `BufferPool`, `PoolClient` and their proofs; `BTreeNode`,
   `BTree`, `OrderedIndex`, flat and on the pool; `SlottedPage`, `SlotArray`;
   `Table`, `RowStore`, with crashes.
2. *Done.* `SQLEngine`: CREATE, INSERT, SELECT, DELETE, JOIN and the map of open
   tables.
3. *Done.* Files whose creation was cut short, in `Table`.
4. *Done.* `RowFormat`, `Statements` and `Session`: from the lines at the prompt
   to bytes, and back.
5. Proofs. *Done:* the pool, the slotted page, the table, the B-tree, and that its
   steps stay within a window of three pages, which joins it to the pool; types,
   SELECT, JOIN and DELETE of `SQLEngine`; rows, schemas and statements that read
   back, and with them the session.

Not planned: `BTree` over a crashing `PageStore`. A crash in a split loses
subtrees and leaves pointers to pages of zeroes; the repository promises nothing
of such files, so there is no property of the code to check.
