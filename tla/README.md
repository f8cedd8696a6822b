# A TLA+ model of bustubx

bustubx is a small relational database in Rust: SQL is parsed, planned, optimised
and executed over a buffer pool, slotted table pages and B+ tree indexes in one
page file. A transaction layer puts strict two-phase locking and snapshot
isolation on top of whole-database copies and makes commits durable in a journal.

This directory holds TLA+ modules for the engine from a query's syntax tree to the
page file, TLC configurations that check them on small instances, and TLAPS proofs
about the transaction layer, the journal, the buffer pool and its replacer, the disk
manager, the table heap, the catalog and the parallel filter.
`PROJECT.json` lists components, runs, the map from definitions to source lines,
hazards, findings and theorems.

## 1. The system

| Component | State | Operations | Talks to |
|---|---|---|---|
| Transactions (`transaction/`) | committed `Database`, version, next id, S/X lock table, journal; per transaction a private `Database`, `dirty`, base version | begin, run, commit, abort, drop, `new_on_disk` | many threads through one mutex; the journal |
| Journal (`transaction/recovery.rs`) | a file of records, an advisory file lock, `failed` | open (lock, scan, cut), append, ensure_usable | the file system; other processes |
| Buffer pool (`buffer/`) | frames, page table, free list, pins, dirty flags | new, fetch, flush, delete, drop of a handle | replacer, disk manager |
| LRU-K replacer | access histories, evictable flags, size | record_access, set_evictable, remove, evict | buffer pool |
| Disk manager | page file, next page id, chain of freelist pages | read, write, allocate, deallocate | the file system |
| B+ tree (`storage/index.rs`) | pages, root, leaf chain | insert, delete, get, iterate | buffer pool |
| Table heap (`storage/table_heap.rs`) | chain of slotted pages, last page id | insert, update, update meta, iterate | buffer pool, catalog |
| Executors (`execution/`) | per operator: cursors, pending rows, groups, flags of the end | init, next | heap, index, worker threads |
| Catalog (`catalog/`) | schemas, tables, indexes; the same as rows of the information schema | create, load, sync_index_roots | heap, index |
| Planners, optimizer (`planner/`, `optimizer/`) | none: trees to trees | plan, optimize, create_physical_plan | catalog |
| Expressions, scalars (`expression/`, `common/scalar.rs`) | none | evaluate, cast_to, compare | |
| Parser, codecs | none | pure functions | |

Where it is hard: transactions of several threads and isolation levels interleave
around one lock table; the process or a write can stop at any byte of the journal
and between any two page writes; a statement can fail between the heap, an index and
the system tables; a worker thread can panic or not start; executors read ahead in
batches and must still give rows, errors and the end in the serial order; a long
sequence of legal calls fills a page, a freelist page or the pool. A `Database`
itself is used by one thread (`run` takes `&mut self`; a transaction has a private
one), so everything below the transaction layer is sequential, except for the
worker threads of one executor call.

## 2. The modules

| Module | Models | A step is |
|---|---|---|
| `TransactionManager` | manager, lock manager, transactions, commit, recovery | a critical section of the manager mutex, or a private step of a transaction |
| `AtomicStore` | the promise to clients (abstract) | begin, write, atomic commit, abort, crash |
| `Journal` | the journal file, cell by cell, and the processes that open it | a system call, or the write of one cell |
| `RecordLog` | the promise of the journal file (abstract) | a record is completed, torn, or a tail is cut |
| `BufferPool` | pool, page table, pins, eviction, handles | a call |
| `PageStore` | the promise of the pool (abstract): one current content per page | read, write |
| `LRUKReplacer` | the replacer with full histories | a call |
| `DiskManager` | allocation and the freelist in the file | the write of one page |
| `BPlusTree` | the index: split, borrow, merge, iterators | a call |
| `TableHeap` | slotted pages byte by byte, roll-over, iterator | a call |
| `Catalog` | the catalog in memory and in the information schema, snapshots, loading, statements that write | a statement, begin, commit, abort, reopen |
| `RelationStore` | the promise to users (abstract): tables that change by whole statements and whole transactions | a statement, begin, commit, abort |
| `Scalars`, `Expressions` | values, casts, comparisons; schemas and bound expressions | (operators) |
| `LogicalPlan`, `LogicalPlanner` | plans, and queries from their syntax trees | (operators) |
| `LogicalOptimizer` | the three limit rules, both orders of recursion | (operators) |
| `Executors` | init and next of all executors that read; the physical planner | (operators) |
| `Query` | `Database::run` of a query; the meaning of a plan as a stream of rows | planning, one rule, one `next`, a further run |
| `ParallelFilter` | execution engine, `PhysicalFilter`, `ordered_map` threads | a row of a worker, a spawn, a join, a return of `next` |
| `TransactionManagerProofs`, `JournalProofs`, `BufferPoolProofs`, `LRUKReplacerProofs`, `DiskManagerProofs`, `TableHeapProofs`, `CatalogProofs`, `ParallelFilterProofs` | theorems about the module of that name | |
| `MC*` | model values and bounds for TLC | |

`RecordLog` is where two modules meet: `Journal` implements it with the cells of
the file, and `TransactionManager` uses the journal only through the steps that it
allows. So the whole-record view of the journal in `TransactionManager` is what
`Journal` shows to be true of the file. The other seams: `Catalog` takes a heap for the
sequence of its rows and an index for the sequence of row ids that a scan returns, which
is what `TableHeap` (`ScanExact`) and `BPlusTree` (`ScanComplete`) show; it takes
transactions one after another, which is what `AtomicStore` allows to be assumed;
`Executors` takes `ordered_map` for a map that keeps the order or fails as a whole, which
is what `ParallelFilter` shows of its threads.

Data is abstracted, control is not:

* A database image is a function from keys to values; a statement that writes
  changes one key or fails half way. Copying an image may fail.
* `TransactionManager` models errors of statements before and after the lock is
  taken, the gap between the error of `run_active` and `abort`, journal errors with
  an unknown outcome, crashes inside and between critical sections, and exhausted
  ids and versions (`MaxU64`).
* A journal record is a header cell, body cells and a commit cell. A header or body
  that was not written whole is detected, as the checksums do.
* In `BufferPool` the replacer is the list of frames in order of loading, because
  the pool calls `record_access` only when a page is loaded (section 5);
  `LRUKReplacer` models the general replacer. A page's content is one of two values.
* `DiskManager` models which pages are lists, zeroed or used. What clients own after
  a restart is what they owned before.
* `BPlusTree` keeps pages as records with sequences of pairs, as the page structs do,
  with a maximum of two to four entries per page in place of what fits into 4096 bytes.
* `TableHeap` keeps every byte of a page: free, header, or byte i of a tuple, so that
  a header that grows into a tuple, or a tuple that overlaps another, is visible.
* `ParallelFilter` knows a row by what the predicate makes of it: pass, drop, error,
  panic; or an error of the input.
* `Catalog` knows a row id by its position, a root page by its tree and the number of
  times it moved. A statement fails at any of its steps: after some system rows, some
  rows of the heap, some of the indexes. Casts wrap around as the code's do. A row is
  stored as INSERT makes it, whether it fits the table or not; what a table with a row
  that does not fit shows afterwards is not followed (`Sound`, `Undefined`). Names are
  opaque but for what their text does to them: `Pieces` cuts a column name at its commas
  and trims it, as writing and reading the key of an index does, and `Selected` says which
  tables a query returns columns of that has the name of a table between quotes.
  `assertions` says whether the build has debug assertions.
* `Executors` keeps the state of each executor as the code does. Pages are sequences of
  rows; a page may be unreadable, a row may not decode, a chain may have a cycle, threads
  may not start. Groups come in an arbitrary order, where the code has that of a hash map.
  A mean is the pair of its sum and count; floats are integers. A sort is an error if
  any two rows do not compare (which pairs the code's sort compares is not specified).
* The reference of `Query` is `Stream`: rows up to the first error, with each operator
  defined on whole streams, without batches, queues or calls.

The way a behaviour goes is settled in its first state where one run covers several
questions: `faulty` in `BufferPool` (may the file fail?), `work` in `BPlusTree` (which
keys, repeated or not, with deletes or not), `durable` and `assertions` in `Catalog`.

History variables (`snap`, `writes`, `acked`, `rows`, `lost`, `spawnFailed`) record
what the properties speak about; no guard reads them.

## 3. What the runs check

| Run | Question | Properties |
|---|---|---|
| `txn_durable` | two clients, two keys, both isolation levels, journal errors, crashes, reopens, with fairness | `LockTableExact`, `SerializableSeesLatest`, `NoLostUpdate`, `AckedSurvive`, `UsableJournalIsClean`, refinement of `AtomicStore` and `RecordLog`, `WriterReleases` |
| `journal` | two processes, partial writes, deaths, reopens | `NeverCorrupt`, `AckedSurvive`, `HandleIsCurrent`, refinement of `RecordLog` |
| `buffer_pool` | three pages, two frames, three handles; a file that never fails, and one whose reads, writes and deallocations may fail | `FramesAccounted`, `PinsExact` and the refinement of `PageStore` on the first file; `HandlesStable` on both |
| `lruk_replacer` | four frames, of which three may have a history, K = 2 | `SizeExact`, `EvictTotal`, `EvictsLruK` |
| `disk_manager` | freelist pages of two entries, crash or error at every write | `NoDoubleUse`, `HandedOutZeroed`, `NothingLost` |
| `btree` | three workloads: all orders of seven inserts of distinct keys, all sequences of eight inserts of three keys, deletes and an insert from a tree of eleven keys | `Balanced` and page limits on all; `GetExactOnDistinct` and `RangeExact` on the first, `ScanComplete` on the first two, `DeleteKeepsOthers` on the third |
| `table_heap` | two pages of eleven bytes, tuples of different lengths, one that never fits | `ScanExact`, `RangeExact` |
| `parallel_filter` | all inputs of up to four rows, batches of three, two and three workers | `SameAsSerial`, `NoWorkerLeft`, `Terminates` |
| `catalog` | a table name in two schemas and one with a quote, columns with a comma in the name and of type Float64, an index, inserts of up to two rows without a list of columns and with a permuted and a shorter one, updates, failures at every step, with and without a journal and debug assertions | `IndexExact`, `CopyFaithful`, refinement of `RelationStore` |
| `query` | some 200 queries and plans on 12 databases, with one, two and three workers, each plan run twice | `OptimizerSound`, `ResultExact`, `QueuesBounded` |
| `buffer_pool_read_error`, `query_join_limit` | (section 5) | `FlushWritesLatest`, `OptimizerSound` |

What these properties say of the code: `RangeExact`, which rows the table iterator returns
for every pair of bounds, those included on which it runs past its end (section 5);
`IndexExact`, that a query through an index misses no row and repeats none, whenever the
index was created and however often it was copied; `CopyFaithful`, that the copy a
transaction works on is the database it was taken from. Both speak of plain tables, whose
names and types come back from their text (`Plain`), `IndexExact` also of tables whose rows
fit them; and `CopyFaithful` says that a database with only plain tables can be loaded.
`ImplementsRelationStore` says, of the plain tables and whatever other tables are beside
them, that a statement takes effect as a whole or aborts its
transaction (`docs/08`: no partial write is published) and that rows fit their table,
except that in a build without debug assertions an INSERT may store a row that does not,
after which nothing is promised for the rows of that table; `ResultExact`, that the number of
workers, the batches, the kind of scan and a second run make no difference to rows, order
or errors, and that a LIMIT does not fail on rows it does not need; `QueuesBounded`, that
reading ahead stays within one batch; `OptimizerSound`, that each rule keeps the meaning.

Runs check `TypeOK` where it bounds something a slip can exceed (an id past its maximum,
a page with one entry too many); in the other modules it documents the state.

The bounds are chosen so that each interesting case happens:

* Two clients and two keys are the least with which a lost update can be seen (two
  disjoint writes), and one reader can refuse the upgrade of the other. Ids and versions
  up to 3 reach their exhaustion. The in-memory manager is covered by the proofs.
* Three pages over two frames force evictions; three handles pin both frames and one
  of them twice.
* Freelist pages with two entries overflow into a second freelist page, which is
  itself taken out of the first.
* Leaves of two and internal pages of three entries make seven inserts reach a tree of
  three levels. Three keys repeated up to eight times spread one key over several leaves
  and both sides of separators. Deletes use pages of four entries, as the tests do, and
  start from their tree of three levels, in which leaves borrow and merge up to a new
  root.
* Eleven bytes hold two or three short tuples with their infos, so that a page fills
  up exactly and one byte short.
* Batches of three with up to four rows give a full batch, a short one, an empty one
  and a batch of one row, which is evaluated without a thread.
* `MaxBatch` = `MaxRows` = 2: an insert fails before, between and behind its rows.
  `MaxMoves` = 1: a root moves once after its row in the system table was written. The
  same table name in two schemas lets a look-up by the name alone go wrong. Columns of two
  types and a row of two values give, with the lists `(b, a)` and `(b)`, rows with swapped
  types and rows that are too short, of which VALUES drops what is left over. The keys
  `("a, b")` and `(a, "a, b")` on tables with and without a column `b` load under another
  key, name a column that is not there, or name one twice; the query for the columns of
  `o'n` does not parse. `Explored` keeps such tables to databases with a journal, one schema
  and one row, and leaves out debug assertions without a journal: neither question needs
  the other's answer.
* `BATCH_SIZE` = `PAGE_BATCH` = 2 with tables of five rows on three pages and three rows
  on two: full, short and empty batches, of rows and of pages, at each executor. Damage
  sits on the second page, so that rows come before it. `MaxRuns` = 2 and `MaxCalls` = 1:
  one run after another, and one call behind the end. Limits on limits, which no SQL text
  produces (a projection is always between), and VALUES below a join are plans by hand.

Runs that may stop say `CHECK_DEADLOCK FALSE`: `parallel_filter` ends with the query,
and the inserts into the tree end when the rows are used up.

### Fairness

`WriterReleases` assumes that each client ends its transaction in the end, by commit,
abort or by dropping the handle: `Drop` aborts. `Terminates` assumes that the operating
system schedules the thread of the query and each worker. Nothing else is
assumed; in particular no lock request waits in the code (a conflict is an error), so
there is no fairness of locks to assume.

## 4. What is proved

Each theorem holds for every value of the constants of its module, from the module's one
named assumption about them and nothing else: any number of clients, processes, frames,
pages, handles or workers, any lengths of pages, tuples, images, freelist pages and
batches. What a run shows for its small instance, the theorem of the same property shows
for all.

| Module | Theorem | States |
|---|---|---|
| `TransactionManagerProofs` | `TypeCorrect` | `TypeOK`: ids, versions and locks stay within u64 |
| | `LocksCorrect` | `LockTableExact`: no path leaks a lock or drops one that is needed |
| | `SerializableCorrect`, `DurabilityCorrect`, `JournalCorrect`, `NoLostUpdateCorrect` | `SerializableSeesLatest`, `AckedSurvive`, `UsableJournalIsClean`, `NoLostUpdate` |
| | `Refinement`, `LogRefinement` | the manager implements `AtomicStore` and keeps to `RecordLog` |
| `JournalProofs` | `FileNeverCorrupt`, `AcknowledgedSurvives`, `HandlesAreCurrent` | `NeverCorrupt`, `AckedSurvive`, `HandleIsCurrent` |
| | `JournalImplementsRecordLog` | the cells of the file implement `RecordLog` |
| `BufferPoolProofs` | `FramesNeverLost`, `PinCountsExact` | `FramesAccounted`, `PinsExact`, on a file that does not fail |
| | `PagesOfHandlesStay` | `HandlesStable`, whatever fails |
| | `PoolImplementsPageStore` | the pool implements `PageStore` |
| `LRUKReplacerProofs` | `SizeIsExact`, `EvictIsTotal`, `EvictionIsLruK` | `SizeExact`, `EvictTotal`, `EvictsLruK` |
| `DiskManagerProofs` | `PagesUsedOnce`, `AllocatesZeros`, `NoPageLost` | `NoDoubleUse`, `HandedOutZeroed`, `NothingLost` |
| `TableHeapProofs` | `ScansAreExact`, `RangesAreExact` | `ScanExact`, `RangeExact`, for heaps of any number of pages and all pairs of bounds |
| `CatalogProofs` | `IndexesAreExact` | `IndexExact`: a scan of an index of a plain table finds every row once |
| | `CopiesAreFaithful` | `CopyFaithful`: plain tables are copied as they are, and a database of plain tables loads |
| `ParallelFilterProofs` | `ParallelIsSerial`, `ThreadsAllJoined` | `SameAsSerial`, `NoWorkerLeft` |

`JournalProofs`, `BufferPoolProofs`, `LRUKReplacerProofs` and `DiskManagerProofs` also
prove their `TypeOK` (`TypeCorrect`). Every proof goes by an inductive invariant `IInv`.

**Transactions.** `IInv` adds `VolatileState` (a manager that is down has no volatile
state, and only a durable one can be down or have a failed journal), `IdsUnique` (live
transactions have different ids below `nextId`, so a lock belongs to one transaction),
`Workspaces` (a workspace is its snapshot with the transaction's own writes, and the
snapshot is the committed database if the base version is still current) and
`JournalBounded`. `SerializableSeesLatest` needs `LockTableExact`: commit needs the X
lock, which is refused while any other reader lives. `NoLostUpdate` and the commit step of
`Refinement` need `Workspaces`. That a commit starts from the abstract store, also after
crashes, needs `UsableJournalIsClean`.

`AtomicStore` is stronger than the sum of the invariants: each transaction reads the
store of one moment and its own writes, and commits only if the store is still what
it saw. Writers are therefore serialised by their commits, readers by their
begins, at both isolation levels (snapshot isolation here detects conflicts on the
whole database, so write skew cannot happen).

**Journal.** The properties say what a scan finds; the invariant says what the file is:
there are images and offsets (`FileOf`) such that the file is their complete records one
behind the other and at most one torn record at its end, a handle that can append stands
at the end of the complete records with the last of them, and what was acknowledged is
among them. The scan of `open` is a recursive function; `ScanOf` shows that on such a file
it returns the last of these records and their end. The refinement maps the file to its complete records; a torn record
that is completed is one step, its cells before that are stuttering.

**Buffer pool.** `ListInv` (no frame is in two lists or twice in one), `NodeInv` (a frame
known to the replacer holds the page that the table has there, pinned by its handles only,
clean or dirty), `HolderInv` (other frames have no handle) and `TableInv` (the table maps
live pages to different frames, and the file has the latest content of the others). Counts
of handles are cardinalities, so each step that takes or drops one goes through the
theorems about finite sets. With `faulty` the invariant gives up only that every frame is
in a list: a failed read or write may lose one, which is why `FramesAccounted` and
`PinsExact` speak of the other files.

**Replacer.** `TimesDistinct`: the clock is ahead of all accesses and no two frames share
an access, so that the victim is unique in whatever order the nodes are visited; that a
frame with a short history beats every full one rests on the clock staying far below u64.

**Disk manager.** `IsChain` (the freelist pages from the root on visit no page twice and
end, and no other page has a link), `CallInv` (what the call under way holds is zeroed,
and how far its page is linked), `FreeInv` (entries are zeroed) and `Accounted` (without a
crash or an error every page has its use). That `Chain`, again a recursive function, is
the one chain is proved as for the journal; then every write of `allocate_page` and
`deallocate_page` either leaves the chain, extends it by its last page or changes the array
of one page.

**Table heap.** `IInv` is: there are tuples `T` per page and offsets `off` such that
`ChainOK(T)` (the pages are linked in the order of their allocation up to the last one,
which alone may be empty, and each holds its tuples whole, behind the header and in front
of one another) and `RowsOK(off, T)` (the rows are these tuples one behind the other, under
their page and slot). `Fits` is what keeps the next header off the last tuple; that an
encoded page keeps its tuples needs just that. A rebuilt page is the result of a recursive
function with a failure inside; `BuildExists` constructs it step by step. For the iterator
`FlatOK` numbers the record ids by their rows: `GetNextRid` goes from any id to that of
the next row, over the end of a page and an empty last one. Scans and ranges then are
subsequences of the rows: for a range the place of its end among the rows behind the first
one decides whether it ends there or at the end of the table. The assumption about the
constants is that a page is larger than its header and that infos and tuples have bytes.

**Catalog.** The two properties need each other: a statement finds the trees through the
catalog in memory, a transaction gets that catalog from the rows of the system tables, and
the next copy reads the rows that it writes. `IInv` is `DbOK` of the committed database
and of the copy. `TablesOK`, `ColumnsOK` and `IndexesOK` say that the system tables
describe the memory: what is there is recorded and nothing else is, no two tables share a
heap; the columns of a table are those that its rows load as, if its name stands for it
alone (`ColumnsOf`); and the names that are read from the text of a key resolve to the key,
if the names of the columns come back from it (`RowKeyOK`). For other names the invariant
keeps what every later step needs: the columns of a key are found in the table, and no two
rows of an index differ in the key (`OneKey`), so that what loads at all loads in one way.
`TreesOK` says that a root is one of the index's own tree, and that the tree has
the ids of the heap, each once. Roots in the rows may be old; with a journal the committed ones are
current (`Synced`), since a restart loads them as they are. `ChangedOK` is the common part
of INSERT, UPDATE and CREATE INDEX: other heaps and other trees stay, so their tables do.
INSERT visits the indexes in the order of a hash map, here a fold over a set: `InAnyOrder`
shows that any order gives the same database. `CatalogAssumption` says that columns have one
of the data types, that a key has a column, that the error of a query is not one of its
results and that no page has the number of the invalid one. `Pieces` and `Selected` may be
any operators.

**Parallel filter.** `BatchInv` (the batch is the last rows that were pulled),
`WorkerInv` (the first `c` chunks have a thread, the joined ones are a prefix of these,
and the output is the beginning of the batch) and `RowsInv` (the rows that the predicate
does not drop, in order, are the returned ones and then the pending ones, with an error for
each that fails). An order of joins or a merge of the chunks that differs from the
order of the input breaks `WorkerInv`.

Inductions go by the well-ordering of the natural numbers: a least counterexample is
refuted. Where a definition is a recursive function, a solution is given and shown to be
the only one.

Only model-checked: liveness (`WriterReleases`, `Terminates`), which the prover does not
handle; `BPlusTree` and the modules of plans and queries, whose recursive operators exclude
proofs; and the refinement of `RelationStore` by `Catalog`.

## 5. Where code and words disagree

Two of these have a run in which TLC finds the property violated.

* `buffer_pool_read_error`: `fetch_page` enters the page into the page table before
  reading it. If the read fails the entry stays and points to a frame with another
  page; a flush of that page then writes the other page's content.
* `query_join_limit`: `with_new_inputs` gives a join its first input twice. When a rule
  rewrites something below a join (`... JOIN (SELECT ... OFFSET 0) ON ...`), the right
  side is lost.

The others were seen with TLC or while modelling. In the storage layer:

* Hits are not reported to the replacer, so the pool evicts in the order of loading,
  whatever was used most (`replacer.rs:52` promises the largest k-distance).
* After a leaf of an index borrowed from its left sibling, `get` may not find the borrowed
  key: the separator to replace was looked up by a key that is not there (`index.rs:407`).

`delete` of an index is used by tests only, no SQL statement reaches it, and `get` and
bounded ranges neither. The properties that fail under delete hold for trees built by
inserts of distinct keys (`btree`).

Also seen, without a run: a merge in the index leaves the emptied page and the old root
allocated, since they are still pinned when `delete_page` is called; an internal page
that borrows from its left sibling puts the child behind its first one, and
further deletes in such a tree can link the leaf chain into a cycle; when one key fills
several leaves, the new half of a split goes behind the separators equal to its key
although its leaf is in front of theirs, and `get` and ranges may then miss a key (full
scans do not, which is what `ScanComplete` shows); `new_page` unwraps the result of `allocate_page`; a failed
write of a victim leaves its page without a replacer node; `delete_page` of a page that
is not in the pool reports success without freeing it; an index iterator does not
compare its first row with the end bound; neither does a table iterator, so that a range
whose end is not a row behind its first row (a single row that is included at the end, as
in `..=first` or in an excluded start followed by an included next row; an empty range; a
reversed one) runs to the end of the table, which is what `RangeExact` says of it (no
caller passes such a range); the count of deleted tuples never goes down by
`update_tuple_meta`; an insert of a tuple that is too large links an empty page before
it panics.

In queries and statements:

* A serial scan takes a row that does not decode, or a page that cannot be fetched a
  second time, for the end of the table (`.ok()` in `TableIterator`), so that COUNT
  answers with a part of the table, where the parallel scan fails and `docs/07` says that
  no partial aggregate is published. `ResultExact` leaves such tables to the parallel scan
  and to index scans. On a cyclic chain the serial scan does not end.
* Columns that are loaded have no relation (`information.rs:211`). In every transaction,
  and after reopening, `t.a` and an INSERT with a list of columns do not resolve for
  tables created before (a list of columns works only in the transaction that created the
  table); `CopyFaithful` compares up to that.
* The key of an index is written as the names of its columns with ", " in between and read
  by splitting at every comma and trimming (`information.rs:306`). After CREATE INDEX on a
  column named "a,b" (in quotes) the commit succeeds, but the database cannot be loaded
  again: every later begin fails, and so does opening the journal, although `docs/11`
  promises that a commit that returned success is durable. If the table has columns of the
  names between the commas, the index loads under another key. In the model such a commit
  is reached, and `Begin` and `Reopen` then fail for ever; `CopyFaithful` says which names
  are safe.
* INSERT with a list of columns casts the values to the types of the listed columns and
  stores them in the order of the list under the schema of the whole table
  (`plan_insert.rs:19`, `insert.rs:66`). Only the debug assertions of `Tuple::new` notice
  (`tuple.rs:19`); a release build stores a row that does not fit, which decodes as
  something else. `RelationStore` says so openly: a store that does not check rows may lose
  the rows of a table by an INSERT.
* The name of a table goes between quotes into the text of the query for its columns
  (`information.rs:193`). With a quote in the name the query does not parse and the
  database does not load; with two quotes in a row it returns the columns of another table.
* In a release build VALUES drops values that are left over, and columns (`zip` in
  `values.rs:50`); in a debug build it panics.
* NULL does not fit into a column of type VARCHAR(n): INSERT casts it twice.
* A Float64 column is recorded as DOUBLE and loads as Float32 (`data_type.rs:89,120`); SQL
  cannot create one, for the same reason. In the `catalog` run the only table with
  one is not plain by its names either, so that the change of type stays outside of
  `ImplementsRelationStore`.
* `UPDATE` leaves index keys as they were; full scans of the index, the only ones that
  queries use, still find every row (`IndexExact`).
* A plain `Database` keeps the effects of a statement that failed half way: only
  transactions give them up.
* The source of an INSERT may not read the table it fills (the scan follows the rows that
  are added) and loses its ORDER BY and LIMIT. Casts of INSERT and UPDATE wrap around.
* NULL = NULL is true; Int16 and unsigned columns do not compare with literals; no text
  fits into VARCHAR(n); AVG of Float32 is an error; two COUNTs in one SELECT panic;
  `NULLS FIRST` is ignored; the limit that the optimizer pushes into a sort is not used.

## 6. What is not modelled

* Torn writes of a single page, reordering of writes by a loss of power, damage of the
  file by others; the creation of a new page file.
* Errors of the buffer pool in the middle of a heap or index operation.
* Poisoned mutexes and panics in executors other than through `ordered_map`. In `Catalog` a
  panic is taken to unwind through the transaction and drop it; a caller that catches it
  and goes on with the same transaction is not modelled.
* The system tables as targets: the code lets INSERT, UPDATE and CREATE INDEX name
  `information_schema.tables` and the others, which changes what the next copy loads. In
  `Catalog` only tables that were created by CREATE TABLE are targets, in both schemas.
* What happens to a table after a row was stored that does not fit it, and to a table that
  was loaded with other columns than it has: such tables are in the model, but the
  properties leave them out.
* The errors of `checked_add` when COUNT or AVG have counted 2^63 or 2^64 rows: `Merge` adds
  without a bound.
* INSERT ... SELECT, statements of more than one assignment, DROP and DELETE (which the
  code does not have).
* Parser, scalar, tuple and index page codecs, formatting, command line, WASM: calls of a
  library, straight-line code without state, or input and output.

## 7. Plan

Done: the transaction layer, the journal and the storage modules down to the page file with
their proofs (but for the index), the parallel filter and the catalog with their proofs, the
statements that write, and queries from their syntax trees to their rows. What would come next:
errors of the buffer pool inside heap and index operations; borrows between internal pages of
the index.
