# DBEngine525: specifications and proofs

DBEngine525 is a small single-process SQL engine: it parses statements from
standard input, keeps tables in files of 48-byte blocks behind a list of
buffered blocks, keeps indexes in B+ tree files, and keeps a catalog that it
loads at the start and saves at `EXIT`. Every value is an int. The program has
one thread; what makes it hard is not interleaving but *sequence*: the order of
evictions, the order of file writes, what is buffered and what is written
through, what survives a session, and a tree that only grows by splitting.

The modules below describe that program as the code in `src/` has it. TLC
checks them on small instances. TLAPS proves, for all values of the constants,
every safety property the passing runs check: of the buffer manager, the catalog,
the tables over the pool, the engine, the B+ tree, `SELECT` over it, and crashes
in the middle of an insertion; and that the pool and the tree implement what they
promise. Liveness, and what the tree does with keys equal to `INT_MAX`, are
model-checked only.

## 1. The system

| Component | State | Operations | Used by |
|---|---|---|---|
| Buffer manager (`buffer_mng.cpp`, `buffer.cpp`) | `buf_pool`, a list of frames (table name, block number, 48 bytes); `buff_in_use`; `buff_limits` | `get_buf_block`, `write2buf`, `commit` | query engine |
| Files (`file.cpp`) | the bytes of `data/<table>`, `data/<table>_<column>.index` | `disk2buff_`, `buff2disk_`, `dele_file` | buffer manager, tree |
| Catalog (`catalog.cpp`, `table.cpp`) | map of tables; per table `numOfAttrs`, `insertPos`, `numOfRec`, `numOfIndex`, `index_name`, `index_pos` | `add_rec`, `del_rec`, `add_rec_count`, `cat_create_index`, `cat_drop_index`, `cat_check_index`, `get_index_attr` | query engine, `commit` |
| B+ tree (`bplustree.cpp`) | global `header`; block 0 and the node and bucket blocks of an index file | constructor and destructor, `find_it`, `insert`, `insert_in_parent`, `ptr_bucket::insert` | query engine |
| Query engine (`query.c`) | none of its own | one function per statement | main |
| Main (`main.c`) | the process, `data/CATALOG` | start, statement loop, exit | |
| Parser (`sql.lex`, `sql.y`, `parser.c`), printing (`print.c`, `debug.h`) | lists freed after each statement | | main |
| `size_test/`, `research/` | structure sizes, benchmark data and scripts | | nobody |
| `include/boost` | third-party headers; the catalog is written with their archive | | `catalog.h`, main |

How they interact: a statement first consults the catalog (`check_*`), then
reaches table blocks through the buffer manager only, and index blocks through
a `bplus_tree` object that lives for that statement and reads and writes its
file directly. `commit` walks the pool and asks the catalog which tables exist.
`EXIT` commits and writes the catalog. There are no callbacks, no messages and
no shared memory between processes.

What makes each component correct:

* **Buffer manager**: no block is in two frames; the counter is the length of
  the list; a read gives the latest write whatever was evicted in between, with
  victim and request in one file too; `commit` leaves nothing behind.
* **Files**: reading past the end leaves the filling `0xC3` of a new frame,
  which has to mean "no rows"; writing past the end leaves zeros.
* **Catalog**: records never straddle a block nor leave a gap a scan would
  miss; counters agree with the maps they count; no two indexes share a file.
* **B+ tree**: an index is a map from keys to sets of blocks; links, parents
  and leaf chain stay right through every order of splits; calls return.
* **Query engine**: indexes know exactly the rows of the table; a refused
  insert and a failed `CREATE INDEX` leave no trace; a `SELECT` prints the rows
  its `WHERE` clause describes, whichever way it finds them.
* **Main**: a session finds what the previous one left, and after a crash what
  the latest `EXIT` saved.

The behaviours a test would hardly reach are listed in `PROJECT.json` under
`hazards`, each at its line with the properties that cover it.

## 2. Modules and how they correspond to the code

### `BlockStore` — what the buffer manager promises

Two maps from table, block and record position to a record: `store`, what a
read returns, and `durable`, what the next process finds. Every step that uses
the pool may copy any blocks to disk (`WriteBack`); `Commit` copies all blocks
of the catalog's tables; `DeleteFile` empties `durable` and may leave blocks
readable, because `drop_table` does not touch the pool (`query.c:782`).

### `BufferPool` — `buffer_mng.cpp` over `file.cpp`

| Model | Code |
|---|---|
| `pool`, head first | `buf_pool`, whose `begin()` is evicted and whose end is the place of the latest load or read |
| `inUse`, `Limit` | `buff_in_use`, `buff_limits` |
| `disk[t][b]`, `size[t]` | what reading block b of `data/t` gives; the file's length in blocks |
| `GetHit`, `GetRoom`, `GetEvict` | the three paths of `get_buf_block` |
| `WriteFirst`, `WriteHit`, `WriteRoom`, `WriteEvict` | the four paths of `write2buf` |
| `Commit(live)`, `CommitFiles` | `commit`, `live` the tables of the catalog |
| `DeleteFile`, `Restart` | `dele_file` as `drop_table` uses it; a new process |

A block's bytes are a function from record positions to a record, `Fill` (the
bytes of `Buffer::fill`, which a failed read leaves) or `Zero` (a hole).
`write2buf` starts a fresh frame, without reading the block, when the record
goes to byte 0 of its block (slot 0); in an empty pool only for block 0 of the
table, because that path tests `insertPos` itself.

`Refinement` instantiates `BlockStore` with `store` the buffered block or else
the file's (holes read as unwritten, which is what the store can promise) and
`durable` the file's.

### `LruAudit` — the list against the word LRU

`BufferPool` with `recent`, a history of the order in which blocks were used.
Deleting and committing are left out of its next-state relation: they do not
use blocks.

### `TableRows` — tables over the pool

The positions `query.c` and the catalog give the pool: row n goes to block
`n \div PerBlock`, slot `n % PerBlock`; scans read the blocks that have rows;
`EXIT` commits and the next session starts with an empty pool. Here the raw
bytes matter: `BlocksAreRows` is about `Fill` and `Zero` themselves.

### `TableCrash` — the same under crashes

`TableRows` with the catalog file (`saved`, the counts at the latest `EXIT`). A
crash loses the pool and goes back to those counts, over table files that have
whatever was evicted or committed since. Finding 3 comes from it. `DROP` is left
out; what it does to the pool is finding 2.

### `Catalog` — `catalog.cpp`, `table.cpp`

One action per operation. A table's index map stands for `index_name` and
`index_pos`, which the code updates together; columns are positions.
`NameFree` and `ColFree` keep the early answer of `cat_check_index` for
`numOfIndex == 0`, so a wrong counter changes what is accepted. When the table
has an index and neither name nor column is in use, that function ends without
a return value; the Makefile builds without optimization, where the caller finds
what the loop's last comparison left, a value whose last byte is 0 and which is
therefore none of the -1 and -2 that `create_index` tests for.
`NextPos` is the placement rule of `add_rec_count`.

### `IndexSpec` and `BPlusTree` — `bplustree.cpp`

`IndexSpec` is a map from keys to sets of block numbers with a mode, `"N"` to
refuse a second row with a key. `BPlusTree` is the file: the header in memory
and on disk, nodes with arrays of `Cap` keys (unused ones `NilKey` = `INT_MAX`),
chains of buckets with `BucketCap` pointers. A call is a sequence of steps:
`BeginFind`/`BeginInsert`, one `Descend` per level, one step at the leaf, and
one step per level of `insert_in_parent` (`InsertInParent`, `SplitInternal`,
`NewRoot`). The header is written back by `Close` only, as the destructor does.
`SplitInternal` keeps what the code does with the new node: its first pointer is
null. `answer` is what the latest call returned; `IndexSpec` has it too, so that
the refinement is about what callers see and not only about the file.

Two ends of the model are the code's undefined behaviour: `"panic"`, a search
that follows a null pointer and returns 0, and `"outside"`, a write to
`keys[-1]`, after which the model says nothing.

### `TreeCrash` — a crash between two writes of a call

A statement opens the index, inserts a key and closes it. Each step of
`BPlusTree` gets the order in which the code writes the blocks it changes:
a new bucket before its leaf, the new leaf before the one that was split
(`bplustree.cpp:260`), the children that move and the old node before the new
internal node (`update_parent`, 388-405), the header at the end of the statement
only. `Crash(n)` keeps the first n writes of the latest step. The header of the
file then stands for the one in memory, so the blocks it has not counted (those
outside `Given`) will be given out and written again, and the model leaves them
out. If a counted block refers to such a block (`Links`: the next leaf or bucket, the
parent, the pointers in use), what follows depends on what is written there; the
model ends (`"harmed"`). `opened` and `inserting` are history, for the property.

A write that the C library still buffers is the latest one: every later access
seeks first, which flushes it. So a crash loses a last part of the writes, and
never one from the middle.

`CREATE INDEX` inserts many keys in one statement. A crash inside it leaves a
file that the catalog on disk does not list, as `Engine`'s `CrashInCreateIndex`
has it.

### `Query` — `SELECT` in `query.c`

One table whose rows are `rows`, `PerBlock` a block, with an index on one column,
which is `BPlusTree` itself: a `SELECT` starts with the steps of `find` and goes
on with a cursor over its leaves and buckets.

| Model | Code |
|---|---|
| `InsertRow`, `StoreRow` | `insert`: the index first, the row if the index took it |
| `CheckCondition`, `RefuseSelect` | `check_condition`, which keeps the answer for the right column only |
| `Chosen`, `ByIndex` | the first condition on the indexed column, or else the last; by index only against a number and not for `!=` |
| `ScanSelect` | the linear scan |
| `IndexSelect`, `SelectEqual`, `WalkUp`, `WalkFromFirst` | the start of `=`, of `>` and `>=`, of `<` and `<=` |
| `VisitEntry`, `VisitPointer`, `NextBucket`, `NextLeaf`, `EndWalk` | one pointer of a leaf, one of a bucket, one link between buckets, one between leaves, the first key out of the range |
| `Repeats` | a range query skips the block it has just printed |
| `LostSelect` | `find` met a null pointer and its 0 is taken for a block |
| `Passes`, `Printed` | `filter`, `self_print` |

A block that is visited is filtered and printed as a whole, so what a query prints
follows from the blocks it visits. The pool is not in this module: a read shows the latest write
(`ReadsLatest`), and `ScanIsRows` says that blocks hold the rows. Where the code reads memory that is no
row (an unknown left column, the header taken for a leaf), the answer is
`"anything"` and the properties are silent.

### `Engine` — `query.c` and `main.c`

Statements over `Catalog` (instantiated with one width), `BlockStore` (by
the refinement, what the pool may be taken for) and one record per index file: its
mode, the blocks a lookup of each key finds, and `keeps`, below. A statement is
one step, as the program runs one at a time. `Insert` keeps the order of the code:
with two indexes the no-duplicate ones are asked first (`Duplicate`), then the
indexes are updated in the order of their names up to one that refuses
(`Updated`, `RejectInsert`), then the row is written. A session ends with `Exit` or
with one of `Crashes`, which lose the pool and the catalog in memory.

An index refuses a row (`Refuses`) for a key it has, in mode `"N"`; and in either
mode where `find` gives 0, which depends on the shape of the tree and happens for
`INT_MAX` only (`NilKey`; `bplustree.cpp:190`, finding 4). What a tree does with
`INT_MAX` is left open (`Unsure`): every step takes some of the indexes in that
position to refuse (`Answers`), and one that did not refuse is `Unknown`
afterwards, for the key may have been written outside a node. If one of two
indexes refuses in this way, the other may already have its entry (`Ahead`).

Where a crash may fall:

| Action | Where | What it leaves |
|---|---|---|
| `Crash` | between two statements, or inside one before its first write | what evictions and commits wrote |
| `CrashInInsert` | between the writes of two index files, or of one, or before `write2buf` | entries in the first indexes, the last of them `Unknown` if it was cut; the row nowhere |
| `CrashInCreateIndex` | after the file is begun | a file the catalog on disk does not list, `Unknown` |
| `CrashInExit` | after the commit, when opening `data/CATALOG` has emptied it (`main.c:99`) | a catalog that no process can load |

An index file that is cut between two of its writes (a leaf split, say, and the
header, which the destructor writes) is `Unknown` because the next process looks
keys up from the root of the old header: `TreeCrash` shows that the chain of leaves
has them all, and that a lookup may miss those that moved. A crash inside `COMMIT`
is a `Crash` after evictions; one inside an eviction of `write2buf` is
`CrashInInsert` after it.

History variables, for the properties: `rows` and `savedRows`, the rows accepted,
now and at the latest `EXIT`; `dropped` and `crashed`, since the frames a drop
leaves (finding 2) and the blocks and entries a crash leaves are why some properties
are about tables whose name was never dropped, or until the first crash; and of each
index file `keeps`, what can be relied on. It is `"all"` from the start; `"rows"` if
entries for no row may be there (another index refused `INT_MAX` behind it) or if it
was built after a crash, when the blocks hold records behind the table that a scan
meets only later; and `"none"` once it is `Unknown`. No step looks at `keeps`
except that an `Unknown` file may answer anything.

`SavedIsThere` bounds the crashes: none after a drop of something that the
catalog file lists. The next process would find the file missing, create it
empty, fail to read a header and go on with the global `header` as it was.

### MC modules and mutants

`MCBufferPool`, `MCBPlusTree`, `MCEngine`, `MCQuery` hold the symmetry sets, the
constraint and the restricted choices of keys, rows and clauses named below. An operator called
`X_Variant` and marked *mutant* is a plausible bug in `X`; no specification uses
it. `PROJECT.json` pairs each property of each passing run with one that breaks
it, which is how we know that the property can fail.

## 3. Runs

| Run | Instance | Question | States |
|---|---|---|---|
| `pool_tables` | 2 tables, 2 blocks, 2 slots, 1 record, 2 frames | frames unique, counter right, reads latest, commits complete; `BufferPool` implements `BlockStore` | 90,350 |
| `lru_order` (violation) | 1 table, 3 blocks, 2 frames | is the head the least recently used block? |  |
| `table_rows` | 2 tables, 2 rows a block, up to 5 rows, 2 frames | blocks hold rows and then filling | 2,145 |
| `table_drop` (violation) | 1 table, with `DROP` | is a row at byte 0 alone in its block? |  |
| `table_crash` (violation) | 1 table, with crashes | the same question after a crash |  |
| `catalog` | 2 names, 3 index names, 3 columns, widths 3, 5, 8, 9, 5 records | placement and bookkeeping | 255,025 |
| `tree_splits` | nodes of 2; 7 keys, 4 with duplicates | refinement, structure, allocation, termination | 56,917 |
| `tree_code_size` | 13 keys and `INT_MAX`, nodes of 4 | order and search at the code's sizes; `INT_MAX` harmless to others | 40,070 |
| `tree_nil_key` (violation) | nodes of 4, `INT_MAX` searched | does `find` meet a null pointer? |  |
| `tree_queries` | 4 keys, 4 rows, 2 a block, nodes of 2, buckets of 1, 22 clauses, with and without duplicates | does a `SELECT` print its rows, once, and end; bucket chains; refinement | 206,433 |
| `tree_crash` | 5 keys, one of them in two blocks, nodes of 2, buckets of 1 | which writes of an insertion may a crash lose? | 49,100 |
| `engine` | 1 table of 5 columns (2 rows a block), 2 of them indexed, 3 rows, 2 keys and `INT_MAX`; 1 index after a crash | scans, indexes, files over clean sessions; what a refused insert changes; what survives a crash between statements or inside one | 85,298 |

Why the bounds are enough:

* Two frames are the least number for which a pool can be full and a hit can
  reorder it, and with three blocks or two tables of two every eviction, hole
  and victim/request pair of one or two files happens. Two slots distinguish
  byte 0 from the rest. The proofs remove these bounds for every property of
  the pool run.
* `catalog`: 3, 5 and 8 columns give 4, 2 and 1 records a block, so that
  exactly full blocks, gaps and one-record blocks occur, 9 is refused; 5 records
  pass a block boundary for each; three index names exceed `IndexLimit`.
* `tree_splits`: nodes of 2 keys split the root leaf, internal nodes and an
  internal root with 7 keys in *every* order, with close and open between calls
  (`Few` keeps the keys to 4 where buckets take blocks as well).
  Nodes of 2 differ from nodes of 4 only in `Cap`, a constant of the code
  (`NODE_SIZE`); `tree_code_size` checks the constant itself, with keys coming
  from the two ends (`FromTheEnds`), because all orders of 13 keys are out of
  reach.
* `tree_queries`: four rows in two blocks, in every order of their keys, some of
  them equal, give up to three leaves, chains of two buckets, a block that a
  range meets twice, and bounds below, at, between and above the keys. The
  clauses (`Clauses`) take every operator on the indexed column, a condition on the other column
  before it, two bounds, column against column, and unknown columns.
* `tree_crash`: five keys are the least that split an internal node, with
  children that move; one key in two blocks (`Shared`) makes a bucket grow while
  others are written. Any number of crashes may happen.
* `engine`: two rows in the first block and one in the second; two
  rows with one key and two without; both orders of two index names.
  `FreshNames` ends a behaviour where a dropped name is created again, which is
  finding 2 and makes row properties void. After a crash `OneColumn` keeps to
  one index and rows of one value: the two indexes of a table do not meet in
  what a crash loses. `FewNil` lets `INT_MAX` come in the second column only, behind
  an index that has been updated, which is the order that matters, and keeps tables
  to two rows and one session once it has. The keys below `INT_MAX` are
  interchangeable, so the symmetry over them is sound; no liveness is checked with a
  symmetry. The proofs are without these restrictions.

`CHECK_DEADLOCK FALSE` stands in these configurations: in those of
`tree_code_size` and `tree_nil_key` the model stops at `"outside"`; in that of
`tree_crash` at `"harmed"`; in that of
`engine` a first session that crashes, or an `EXIT` that does, leaves an empty
`data/CATALOG`, and no later process can load it (`main.c:56`, `99`), so the system
stops.

### Fairness

Two properties are about liveness. For `CallsReturn`, `BPlusTree!Spec` (and
`SplitsSpec`, which it is checked under) has weak fairness of `Step`, the steps of
a call that has begun; for `SelectReturns`, `QuerySpec` has weak fairness of
`Running`, the steps of a call and of the cursor of a `SELECT`. The program has
one thread, a statement makes no blocking call other than file reads and writes, and nothing can
disable its next step from outside. No fairness is assumed of the
user: nobody need insert, search or close. A wrong parent, child or neighbour
link would make a cycle and break one of them. The other specifications state no
fairness; with crashes a call need not return.

### Findings

1. **Not LRU** (`lru_order`). `write2buf` on a buffered block leaves the frame
   where it is (`buffer_mng.cpp:103`), so the block written last can be the next
   victim. README and `print_buffer` speak of LRU.
2. **Rows of a dropped table** (`table_drop`). `drop_table` leaves the frames;
   a table created again under the name writes its first row into such a frame,
   behind which the old rows are still found by a scan, although the comment at
   `buffer_mng.cpp:118` says a write at byte 0 "means needs a new block".
3. **Rows of a lost session** (`table_crash`). In an empty pool `write2buf`
   starts a fresh block only for `insertPos` 0 (`buffer_mng.cpp:84`), not for
   byte 0 of every block, which is what it does in a pool with frames
   (`buffer_mng.cpp:118`). Create a table, fill its block, `EXIT`; insert two more rows,
   `COMMIT`, and let the process die; the first insert of the next session reads
   the block of the lost session, and its second row is back behind the new one.
4. **`INT_MAX` as a key** (`tree_nil_key`). Unused keys are `INT_MAX` and the
   comparison is `>`, so a search for `INT_MAX` follows a null pointer, the case
   the code says "should not happen" (`bplustree.cpp:191`, `514`).

What the models show besides, about which the repository says nothing:

* A range query prints a block again when it meets it again later, so rows that
  were not inserted in ascending order are printed more than once
  (`query.c:481`). `RowsOnce` has the condition under which this does not happen.
* `check_condition` accepts an unknown left column if the right one is known;
  the filter then reads in front of the row (`query.c:349`, `728`).
* A crash after a leaf split and before the header is written leaves a leaf that
  refers to a block which will be given out again (`"harmed"` in `TreeCrash`). The
  chain of leaves, which range queries follow, still has every entry at that moment
  (`CrashTearsNothing`). A lookup does not: the next process starts at the root of
  the old header, and where the root was the leaf that was split it misses the keys
  that moved, so that a no-duplicate index accepts one of them again. Later
  insertions may overwrite the block.
* With two indexes that allow duplicates nothing is asked before the first update
  (`query.c:90`). If the second then refuses `INT_MAX` (finding 4), the row is not
  stored and the first index keeps an entry for it (`query.c:110`). `RejectsCleanly`
  and `IndexExact` exempt this and nothing else.
* `EXIT` empties `data/CATALOG` before it writes the new one (`main.c:99`): a crash
  between the two loses the catalog of the previous `EXIT` as well, and with it every
  table.

## 4. Proofs

Each module of proofs rests on the assumptions on the constants of the module it
is about, which TLC evaluates on every run of it:

* `PoolAssumption` (pool, rows over the pool): block and slot bounds are
  naturals, `Limit` is positive, `Fill` and `Zero` are no records and differ.
* `CatalogAssumption`: widths and columns are positive, `MaxTables` and `MaxRec`
  are naturals.
* `EngineAssumption`: the width is one of the eight the catalog accepts, columns
  are within it, `MaxTables` is a natural and `MaxRec` positive, and `Blank` (what
  a read finds where nothing was written) is no row.
* `TreeAssumption`: nodes have room for two keys at least and buckets for one,
  keys are numbers up to `NilKey`, blocks are numbers.

The theorems about the tree have a hypothesis besides, `NoNil`: `INT_MAX` is not
among the keys. It is not a convenience. With that key a search does meet a null
pointer (`tree_nil_key`, finding 4), and a new `INT_MAX` can be written to
`keys[-1]`; below it, every int from 0 is allowed. That trees with the key are
harmless to the other keys is model-checked (`tree_code_size`) and not proved.

| Module | Theorem | Statement |
|---|---|---|
| `BufferPoolProofs` | `PoolTyped` | `Spec => []TypeOK` |
| | `FramesAreUnique` | `Spec => []UniqueFrames` |
| | `PoolIsBounded` | `Spec => []PoolBound` |
| | `FilesEndRight` | `Spec => []FilesEnd` |
| | `ReadsAreLatest` | `Spec => ReadsLatest` |
| | `CommitsSave` | `Spec => CommitSaves` |
| | `PoolIsBlockStore` | `Spec => Refinement` |
| `TableRowsProofs` | `ScansMeetRows` | `TableSpec => []BlocksAreRows` |
| | `NewBlocksAreNew` | `TableSpec => FirstByteIsNewBlock` |
| `CatalogProofs` | `CatalogTyped` | `Spec => []TypeOK` |
| | `RecordsAreFilledInOrder` | `Spec => []Placement` |
| | `CountersRight` | `Spec => []CountersAgree` |
| | `IndexFilesDiffer` | `Spec => []OneIndexPerColumn` |
| `EngineProofs` | `SavedRowsSurviveCrashes` | `Spec => []CrashKeepsSaved` |
| | `ScansShowTheRows` | `Spec => []ScanIsRows` |
| | `EngineTyped` | `Spec => []TypeOK` |
| | `IndexFilesMatch` | `Spec => []FilesMatch` |
| | `CrashesKeepIndexes` | `Spec => []CrashKeepsIndexed` |
| | `NoDuplicates` | `Spec => []UniqueKeys` |
| | `IndexesAreExact` | `Spec => []IndexExact` |
| | `RejectsAreClean` | `Spec => RejectsCleanly` |
| `BPlusTreeProofs` | `TreeInvariant` | `NoNil => (Spec => []TreeInv)` |
| | `TreeTyped` | `NoNil => (Spec => []TypeOK)` |
| | `BlocksAreCounted` | `NoNil => (Spec => []Allocation)` |
| | `FindMeetsNoNull` | `NoNil => (Spec => []NeverPanics)` |
| | `InsertStaysInside` | `NoNil => (Spec => []WritesInside)` |
| | `ParentsAreRight` | `NoNil => (Spec => []ParentsRight)` |
| | `LeavesInOrder` | `NoNil => (Spec => []ChainSorted)` |
| | `SearchesArrive` | `NoNil => (Spec => []SearchReaches)` |
| | `TreeBalanced` | `NoNil => (Spec => []Balanced)` |
| `TreeMapProofs` | `MapInvariant` | `NoNil => (Spec => []MapInv)` |
| | `TreeIsMap` | `NoNil => (Spec => Refinement)` |
| | `ChainsAreRight` | `NoNil => (Spec => []BucketsRight)` |
| `QueryProofs` | `QueryInvariant` | `NoNil => (SelectSpec => []QueryInv)` |
| | `SelectsAreComplete` | `NoNil => (SelectSpec => []SelectComplete)` |
| | `RowsPrintedOnce` | `NoNil => (SelectSpec => []RowsOnce)` |
| `TreeCrashProofs` | `CrashInvariant` | `NoNil => (CrashSpec => []CrashInv)` |
| | `CrashesDoNoHarm` | `NoNil => (CrashSpec => []OtherwiseHarmless)` |
| | `CrashesTearNothing` | `NoNil => (CrashSpec => CrashTearsNothing)` |

**The pool.** `PoolInv` is the conjunction of `TypeOK`, `UniqueFrames` and
`PoolBound`. None of them is inductive alone: an eviction takes the head of the
list, which exists only because the counter is the length and the limit is
positive; the frame that replaces it is typed only if the victim is; uniqueness
is kept because a miss means that no frame holds the block. `MoveToBack` says
what the hit path does to the list (the same frames, each once, the hit last)
and rests on `RemoveAtFacts`; `EnterKeeps`, `ReplaceKeeps`, `WriteHitKeeps` and
`CommitKeeps` are the lemmas of the other paths, and `NextKeeps` has one step
per action. `FullInv` adds `FilesEnd`: a load past the end must give the
filling, which `WriteDiskEnds` and `CommitEnds` maintain.

**Reads and commits.** From `FullInv`: the frame a hit moves is *the* frame of
the block (`TheFrame`), and a miss after an eviction reads a file in which only
the victim's block and holes changed (`WriteDiskShows`), neither of which a
reader can tell from before. `CommitsSave` rests on the same for all frames at
once (`CommittedShows`).

**The refinement of the block store.** Each way of changing the pool has a lemma
on what a reader finds in *every* block afterwards, in the pool (`Content`) and
in the file alone (`Saved`): `HitShows`, `EnterShows`, `ReplaceShows`,
`WriteHitShows`. They need the search of the list before and after the step, so
`FrameOf` is stated for any list with one frame per block. `SomeSaved` turns
"every block is as saved before or as the reader found it" into `BlockStore`'s
`WriteBack`, with the set of blocks that now agree as its witness, and
`OneWritten` turns a change of one block by one record into its `Write`;
`PutShows` is where `Zero` not being a record is needed. `NextRefines` has one
step per action.

**Rows over the pool.** `BlocksAreRows` speaks of what a scan meets; what keeps it
true is where each block is. `TableInv` adds to `PoolInv` that a block with rows
is in a frame or inside its file (`FramesRight`, `FilesRight`), that either of
them has its rows and then filling, and that a block without rows is in
neither. The subtle step is an eviction past the end of a file: the blocks it skips become
zeros, and the proof (`EvictNext`) has to show that each of them is in a frame,
so that nobody reads the hole, and that a commit or a later eviction fills it
(`CommitNext`). `NewBlocksAreNew`, the sentence in the comment of `write2buf`,
follows from the same invariant; findings 2 and 3 are what happens to it with drops
and crashes.

**The catalog.** The invariant `CatInv` says that the tables are counted and
that each of them is `Good`: typed, its indexes counted, its indexed columns
distinct, its records placed in order. Distinctness is not inductive alone,
since `cat_check_index` answers "free" whenever the counter is 0: `FreeMeansAbsent`
needs the counter to be the size of the map. Placement needs arithmetic with a
divisor, `NextPosIsOffset`, which is proved width by width (1 to 8).

**The engine.** Its theorems have no hypothesis: `INT_MAX` may be among the keys, and
crashes may cut statements; the properties name what these cost. Crashes make "a scan
shows the rows" no invariant by itself: it must say what the *next* process will
find, at every moment of this one.
`RowsInv` relates four things: the rows accepted and the store, the rows of the latest
`EXIT` and the disk; and the second rows are a beginning of the first (`Begins`),
because a row never moves. `OnlyInv` says that nothing else is in the blocks a
scan reads as long as no process crashed. The two are inductive together
(`NextRows`, one lemma per statement; `AppendHolds` is the one about a new row,
which must find either its place blank or its block new). `IndexInv` has the
same form for the index files: what the catalog in memory lists has a file that serves
its rows (`Right`, `Serves`), and a file that the catalog on disk lists and that is
still there is listed in memory too, unless its table was dropped (`Kept`). `Serves`
says by `keeps` what is left of a file: an `Unknown` one owes nothing. A crash
inside a statement changes files, and all that the proofs need of it is `Grown`: a
file only ever gets entries, or is no longer relied on, so that it still serves the
rows of the latest `EXIT`, which are the first ones (`ServesBeginning`,
`GrownServes`, `CutGrows`). This is where the order of writes enters: an index
entry in front of its row is one too many, which `Grown` allows.
`RejectsAreClean` rests on `RefusedAtOnce`: when every index answers as its entries
say, an index that refuses is a no-duplicate one, and either it is the only one or
the check in front of the updates has asked it.
The third invariant, `RecInv`, is about records that no catalog counts: an index that
keeps all leads to every record in the blocks of its table, in the store and on disk
(`Reached`). Until the first crash there are none but the rows
(`UncrashedRecords`); after it no new index keeps all (`Built`), and the old ones
grow with the table (`NextRecords`).

**The B+ tree.** `TreeInv` is `FileInv`, what can be said of single blocks and of
the header's counters, and `RangeInv` of four ghosts: every node has a range of
keys from `lo` to before `hi` and a height `ht`, every leaf a place `pos` in the
chain. `Bounded` says that a node's keys are in its range and that the keys of a
node divide its range among its children; `Linked` that parents and children
agree and are one level apart; `Chained` that the leaves' links go up by one
place and join their ranges. The ghosts are not variables: a state has the
invariant if some four functions fit, and each step says how to change them.

* In the middle of a split (`pc = "parent"`) the tree is *not* a tree: the right
  part has no pointer to it. `Sib` states what is true then, that the pointer to
  the left part still leads to the ranges of both, and `Unlinked` exempts
  the right part from having a parent that points at it.
* `split` of an internal node gives its right part a null first pointer, where a
  B+ tree would have the child to the left of its first key. `Bounded` allows a
  null pointer only there, and only if the first key is the least of the range:
  no key can lie in front of it. This is why a search never meets it
  (`ChildFor`, `FindMeetsNoNull`).
* A split moves children, which makes three kinds of children before and after
  it; `SplitParts` collects which key and pointer goes where, and `SplitChildren`
  and `WideChildren` (where the node has room) say what each child's range and
  parent become.
* `HalfFull` exempts the root and, during a split, its left part, which is no
  longer exempt when a new root stands above it.

`KeysOK` and `Chained` give `LeavesInOrder`. For `SearchesArrive` and `TreeBalanced`
the function `Descent`, whose steps are those of `find`, has to be followed for
any number of levels: `DescentGoesDown` shows that its i-th block has the key in its range
and that it is a leaf from the height of the root on. That needs induction, and the
library's induction theorems are out of reach, so it is done with a least
counterexample (`LeastNat`, from the well-founded order on numbers): the least
level with a wrong block is not the first, and the one above it is right.
`OneLeaf` and `RangesInOrder` then say that leaves with a key in common are one leaf.

**The tree as a map.** `IndexSpec` knows only entries, so the last part of
`BPlusTreeProofs` says what each step does to them and forgets where they are:
`Filed(k, p)` is "some leaf has key k with pointer p", and a step leaves the entries
alone (`SameEntries`: searches, splits of internal nodes, new roots), adds one
key (`KeyEntered`: an insertion into a leaf, split or not) or adds a block to a key's
chain (`BlockEntered`: `ptr_bucket::insert`). The subtle one is the split of a leaf,
where the entries of one leaf become those of two: `LeafHalves` says which cell
of which half has which of the old and new keys.

A bucket does not say whose it is, and what a chain holds is a union over a
recursively defined walk. `MapInv` therefore has a ghost, `own`, which gives every
bucket the head of its chain; `ChainInv` says that a head is the pointer of one
key, that links stay within a chain and go up in block numbers, that no two
buckets have the same next one, and that no number is in a chain twice.
With it "the chain of k holds v" is a statement about single buckets (`Has`), the
walk is only needed once (`ChainMembers`: the walk from a head meets exactly the
buckets it owns, again with a least counterexample), and each step changes `Has`
by at most one entry (`SameMap`, `EnterMap`, `BlockMap`). `KeysIn` and `CallInv` keep
keys and blocks within the constants. `NextMaps` has one step per
action, and `FoundMaps` is the one about answers: a search is at the only
leaf that can have its key, so what it does not find there is nowhere.

**SELECT.** `SelectSpec` is `Query` with every row whose key the model has and every
WHERE clause, where the run has a few of each; a clause may compare with any
number, so `INT_MAX` and the null pointer it leads to (`LostSelect`) are in the
theorems. `QueryInv` has two halves. While no SELECT runs, `Resting`: `TreeInv`
and `MapInv`, the contents of the index are the blocks of the rows of each key
(`Listing`; with the key of `pending` while an insertion is on its way,
`Insertion`), and the numbers in a chain of buckets go up (`Ascends`). The last is
not for the map but for the cursor: rows are appended, so a key is only ever given
a block as high as its last one, and a chain visits no block twice. While one
runs, `Selecting`: nothing is written (`Frozen`), and the cursor has a bound.
`FindInv` is the search, `WalkInv` the walk over the leaves, `BucketInv` the walk over a chain;
they share `Upto`, that the blocks visited are those of the keys below the bound
that compare, and no others. The bound is the key the cursor is at, or the end of
the leaf's range (`Bound`), so that the step to the next leaf needs `Chained`:
the ranges join, and no key lies between them (`LeafFollows`, `KeyGap`). The steps have
one lemma each; the ends of a range are `PastDone` and `LeavesDone`.
`RowsOnce` needs the order of the blocks on top: in a table filled in the order of its
keys a smaller key has earlier blocks (`Clustered`), so the visited ones are `InOrder`
and a block can only repeat next to itself, where `Repeats` skips it.

**Crashes of the tree.** A crash does not lead to a state that `TreeInv` knows: the
file has the first writes of a step, and the header is the one of an earlier file. So
the invariant, `CrashInv`, says two things at once. The running call is as before, in
`TreeInv` and `MapInv`; and of the file a crash would leave, one of three is true.

* `Rootless`: the tree had no root when the statement opened it, and the header in
  block 0 still says so. Nothing is counted; whatever was written is left out.
* `Clean`: no block was allocated, so the header in memory is the one in the file.
  `before`, the file in front of the latest step, is then a tree with one of the
  contents the statement may leave (`Whole`), and each first part of the writes reads
  like `before` or like the file now: such a step changes one block.
* `Grown`: something was allocated. Each first part of the writes leaves `before` as
  far as the old header counts it, or it is `Harmed`, and then its leaves and buckets
  read as those of the file now (`SameLeaves`).

`Whole` is `TreeInv` and the map's invariant of *another* file under another header,
which is an `INSTANCE` of the whole tree development, `F`, `WITH disk <- before,
hdr <- dhdr`; `Snapshot` makes it of the running tree, `Restored` and `RestoredMap`
bring it back after a crash. The order of the writes enters in one place,
`LastTells`: if all blocks written but the last are new and the last one refers to a
new one, then any first part is invisible and the whole is harmed. `LeafStep`,
`BlockStep` and `SplitStep` show that the three orders of the code are of this form: a
bucket before its leaf, a new bucket before the one in front of it, a new
leaf before the one that was split. From then on a counted leaf has a link to one that
is not, and `ParentStep` shows that the steps above it keep that link
(`LeavesKept`: they change the parents of leaves only), so that no order of *their* writes
matters. When the file is harmed, the contents are still those of the leaves and
buckets: `HarmedContent` follows both chains through the file (`LeavesWalked`,
`BucketsWalked`, each with a least counterexample). `CrashesTearNothing` is that
lemma and `Restored`; `CrashesDoNoHarm` holds as the invariant says `TreeInv` of every state
that is not harmed. `Shared`, the bound on keys with several blocks, is free in the
theorems: with `Shared = Keys` it restricts nothing.

**Only model-checked**, and why:

* `CallsReturn` and `SelectReturns`: liveness under fairness, which needs
  `ENABLED`. Out of the prover's reach for good.
* `SearchReaches` and `ChainSorted` with `INT_MAX` among the keys
  (`tree_code_size`): `NoNil` excludes them from the theorems.

No module declares a `RECURSIVE` operator.

## 5. What is not modelled, and why

* Third-party code: `include/boost` is 1.3 million of the 1.77 million lines of
  the repository, and the rest is mostly data. The engine's own code is about
  3,400 lines, the parser's included; of the library only the archive that
  stores the catalog is used, and it is modelled as a copy.
* Parser, statement printing, `size_test/`, `research/`: no state outlives a
  statement, or not part of the engine.
* Formatting of what is printed. `PRINT TABLE` and `PRINT INDEX` only show files.
* Memory layout: nodes of 44 bytes and the 24-byte header are read as 48 bytes;
  `Buffer::table_name` has three bytes. The model takes the data the code means.
* The narrowing of the buffer size to `short` (`main.c:45`): `Limit` is any
  positive number. Out-of-range numbers in `atoi`.
* A process that starts over a catalog whose files are gone (a `DROP` of
  something saved, and then a crash); an insertion into a tree after `"harmed"`;
  failures of the file system other than reading past the end.
* A crash inside `DROP TABLE` or `DROP INDEX`. Of what the catalog on disk lists it
  is the previous case; of anything else it leaves files that nothing lists, which
  `CREATE TABLE` and `CREATE INDEX` find as they find those of any lost session.
* What a tree does with `INT_MAX` over several statements, in `Engine`: the index is
  `Unknown` from then on. `BPlusTree` has it up to the write outside a node.
* The end of the input: `getline` leaves a buffer, `myreadline` never returns 0
  (`main.c:112`), so `EXIT` and a crash are the only ends of a session.
* Hit and miss counters; functions without a caller (`flush_table`,
  `flush_buffer`, `get_block` of `File`, `disk2buff`, `buff2disk`, ...).

## 6. Plan

Done, in this order: the block store and the pool (the core every table passes
through); rows over the pool; the catalog; the index specification and the tree;
the engine that composes them; the proofs of the pool, of its refinement and
of the catalog; `SELECT` over the tree; crashes of the tree, of the tables and
of the engine with drops.

Then the proofs of the rows over the pool, of the engine with its indexes, of
the structure of the tree, of the tree as a map with its bucket chains, of `SELECT`
over it, and of crashes between the writes of an insertion.

Open, for whoever changes this code:

1. Proofs with `INT_MAX` among the keys: the ranges of `TreeInv` would have to end
   behind `NilKey`, and `"panic"` and `"outside"` become states of the invariant.
2. `Engine` with two tables; two index files behind the one global `header`,
   with a file that is missing.
3. A crash inside `CREATE INDEX` in `TreeCrash`, as a sequence of insertions in one
   statement; a lookup after `"harmed"`.
