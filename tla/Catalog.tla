------------------------------ MODULE Catalog -------------------------------
(***************************************************************************)
(* The catalog of a Database, kept twice: in memory (catalog/catalog.rs)   *)
(* and as rows of the information_schema tables, from which a copy of the  *)
(* database rebuilds the memory (catalog/information.rs).  Statements that *)
(* write go to heaps, indexes and the catalog; a transaction runs them on  *)
(* a copy of the committed Database.  Transactions come one after another  *)
(* here: TransactionManager says how they interleave.                      *)
(*                                                                         *)
(* A heap is the sequence of its rows and a row id a position in it, which *)
(* is what TableHeap shows of its pages.  An index is the sequence of the  *)
(* row ids in it, which is what a full scan of a BPlusTree returns; its    *)
(* root page is known by its tree and by how often the root has moved.     *)
(* A statement may fail where it reads or writes a page.  Pages that       *)
(* nothing refers to are left out.                                         *)
(*                                                                         *)
(* A row is stored as it was encoded.  A row that does not fit the schema  *)
(* under which it is read decodes as something else, or not at all; what a *)
(* table with such a row then shows is not followed any further.           *)
(***************************************************************************)
EXTENDS Scalars, Sequences, SequencesExt

CONSTANTS
  TableRef,    \* the tables that statements name, as <<schema, table>>
  ColumnName, IndexName,
  ColumnDefs,  \* the lists of [name, type] that CREATE TABLE is called with
  KeyLists,    \* the lists of column names that CREATE INDEX is called with
  ColumnLists, \* the lists of column names that INSERT is called with; <<>> is no list
  Literals,    \* the rows of literals that INSERT is called with
  Values,      \* the literals that UPDATE is called with
  Selections,  \* the conditions of UPDATE: [name, value] for name = value
  MaxTables,   \* bound: tables of a database
  MaxBatch,    \* bound: rows of one INSERT
  MaxRows,     \* bound: rows of all tables
  MaxMoves     \* bound: moves of the root of one index

CONSTANTS
  Pieces(_),   \* a column name, cut at its commas and trimmed
  Selected(_)  \* the tables whose columns a query with the name of a table between quotes
               \* returns: that one, unless the name has a quote in it; Err if it does not parse

VARIABLES
  durable,     \* does the manager have a journal?
  assertions,  \* is the program built with debug assertions?
  base,        \* the committed Database of the manager
  txn,         \* the Database of the open transaction, or NoDatabase
  dirty        \* has the transaction tried to write?

build == <<durable, assertions>>
vars  == <<build, base, txn, dirty>>

CONSTANTS
  NoDatabase,
  NoRelation,  \* a column without a relation
  Undefined,   \* what a table shows that has a row of another schema
  NoRoot       \* INVALID_PAGE_ID

InformationSchema == "information_schema"
DefaultSchema     == "public"

(* Columns have a name and a data type, a key has columns, an error is not *)
(* a result of a query, and no page has the number INVALID_PAGE_ID.        *)
ASSUME CatalogAssumption ==
  /\ ColumnDefs \subseteq Seq([name : STRING, type : DataType])
  /\ KeyLists \subseteq Seq(STRING) \ {<<>>}
  /\ \A ref \in TableRef : {ref} # Err
  /\ NoRoot \notin [tree : TableRef \X IndexName, moves : Nat]

NoFunction == [x \in {} |-> x]

With(f, k, v) == [x \in DOMAIN f \cup {k} |-> IF x = k THEN v ELSE f[x]]

(***************************************************************************)
(* A Database: schemas and tables are its Catalog in memory, the rest is   *)
(* in pages.                                                               *)
(***************************************************************************)

EmptyPages ==
  [heaps |-> <<>>, trees |-> NoFunction,
   schemas |-> <<>>, tables |-> <<>>, columns |-> <<>>, indexes |-> <<>>]

Column(rel, name, type) == [rel |-> rel, name |-> name, type |-> type]

Known(d, ref) == ref[1] \in d.schemas /\ ref \in DOMAIN d.tables

TableHeap(d, ref) == d.pages.heaps[d.tables[ref].heap]

TableIndexes(d, ref) == d.tables[ref].indexes

(* Schema::index_of: the first column with the name; a column without a    *)
(* relation is not found under one.                                        *)
IndexOf(cols, rel, name) ==
  SelectInSeq(cols, LAMBDA c : c.name = name /\ (rel = NoRelation \/ c.rel = rel))

(* What Tuple::new asserts of a row. *)
Fits(row, cols) ==
  Len(row) = Len(cols) /\ \A i \in DOMAIN cols : row[i].type = TypeOf(cols[i].type)

(* Does the table show the rows that were put into it? *)
Sound(d, ref) == \A k \in DOMAIN TableHeap(d, ref) : Fits(TableHeap(d, ref)[k], d.tables[ref].cols)

(* What a full scan of an index returns. *)
TreeIds(d, root) == IF root = NoRoot THEN <<>> ELSE d.pages.trees[root.tree]

(* The plan of a SELECT takes the first index of a hash map, if there is   *)
(* one, and the heap otherwise.                                            *)
ScanRows(d, ref) ==
  LET heap == TableHeap(d, ref)
      idx  == TableIndexes(d, ref)
  IN  IF DOMAIN idx = {} THEN heap
      ELSE LET ids == TreeIds(d, idx[CHOOSE i \in DOMAIN idx : TRUE].root)
           IN  [k \in DOMAIN ids |-> heap[ids[k]]]

(***************************************************************************)
(* Loading: the Catalog in memory from the information schema.             *)
(***************************************************************************)

(* A Database whose pages have no default schema creates it. *)
LoadSchemas(pages) ==
  IF DefaultSchema \in ToSet(pages.schemas) THEN pages
  ELSE [pages EXCEPT !.schemas = Append(@, DefaultSchema)]

(* The columns of a table are selected with its name in the text of the    *)
(* query.  from[i] has those among the first i rows of the columns.        *)
LoadColumns(pages, ref) ==
  LET from[i \in 0..Len(pages.columns)] ==
        IF i = 0 THEN <<>>
        ELSE LET row == pages.columns[i] IN
             IF row.ref \in Selected(ref)
             THEN Append(from[i - 1], Column(NoRelation, row.name, FromSql(row.type)))
             ELSE from[i - 1]
  IN  from[Len(pages.columns)]

(* The key schema of an index is written as the names of its columns with  *)
(* commas in between, and read as what is between the commas.              *)
KeyVarchar(key) == FlattenSeq([i \in DOMAIN key |-> Pieces(key[i])])

(* The key schema of an index is looked up by the names that were read. *)
LoadIndex(pages, row) ==
  LET cols == LoadColumns(pages, row.ref)
  IN  [key |-> [i \in DOMAIN row.key |-> cols[IndexOf(cols, NoRelation, row.key[i])]],
       root |-> row.root]

LoadUserIndexes(pages, ref) ==
  LET rows == {r \in ToSet(pages.indexes) : r.ref = ref}
  IN  [n \in {r.index : r \in rows} |->
         LoadIndex(pages, CHOOSE r \in rows : r.index = n)]

LoadUserTables(pages) ==
  [ref \in {r.ref : r \in ToSet(pages.tables)} |->
     [cols    |-> LoadColumns(pages, ref),
      heap    |-> (CHOOSE r \in ToSet(pages.tables) : r.ref = ref).heap,
      indexes |-> LoadUserIndexes(pages, ref)]]

(* No name twice: what Schema::new asserts. *)
Distinct(names) == \A i, j \in DOMAIN names : names[i] = names[j] => i = j

Names(cols) == [i \in DOMAIN cols |-> cols[i].name]

(* A load fails on a table in an unknown schema, a query that does not     *)
(* parse, an index of an unknown table, a key column that the table does   *)
(* not have, and a schema with a column twice.                             *)
Loads(pages) ==
  /\ \A r \in ToSet(pages.tables) :
       /\ r.ref[1] \in ToSet(pages.schemas) \cup {InformationSchema}
       /\ Selected(r.ref) # Err
       /\ Distinct(Names(LoadColumns(pages, r.ref)))
  /\ \A r \in ToSet(pages.indexes) :
       /\ \E t \in ToSet(pages.tables) : t.ref = r.ref
       /\ \A i \in DOMAIN r.key : IndexOf(LoadColumns(pages, r.ref), NoRelation, r.key[i]) # 0
       /\ Distinct(r.key)

Load(pages) ==
  LET p == LoadSchemas(pages)
  IN  [schemas |-> ToSet(p.schemas) \cup {InformationSchema},
       tables |-> LoadUserTables(p), pages |-> p]

(* A mutant of SyncIndexRoots: a row that has a root is left as it is. *)
SyncNewIndexRoots(d) ==
  [d EXCEPT !.pages.indexes =
     [i \in DOMAIN @ |->
        LET row == @[i] IN
        IF row.root = NoRoot /\ row.index \in DOMAIN TableIndexes(d, row.ref)
        THEN [row EXCEPT !.root = TableIndexes(d, row.ref)[row.index].root]
        ELSE row]]

(* Database::flush writes the current root of every index into its row. *)
SyncIndexRoots(d) ==
  [d EXCEPT !.pages.indexes =
     [i \in DOMAIN @ |->
        LET row == @[i] IN
        IF row.index \in DOMAIN TableIndexes(d, row.ref)
        THEN [row EXCEPT !.root = TableIndexes(d, row.ref)[row.index].root]
        ELSE row]]

SnapshotBytes(d) == SyncIndexRoots(d).pages

(***************************************************************************)
(* What statements do to a Database.  Each may stop half way.              *)
(***************************************************************************)

(* The table is in memory first, then n of its rows are in the system      *)
(* tables: its own and one for each column.                                *)
TableCreated(d, ref, defs, n) ==
  LET heap == Len(d.pages.heaps) + 1
      rows == [i \in DOMAIN defs |->
                 [ref |-> ref, name |-> defs[i].name, type |-> ToSql(defs[i].type)]]
  IN  [d EXCEPT
        !.tables = With(@, ref,
           [cols |-> [i \in DOMAIN defs |-> Column(ref, defs[i].name, defs[i].type)],
            heap |-> heap, indexes |-> NoFunction]),
        !.pages.heaps   = Append(@, <<>>),
        !.pages.tables  = IF n = 0 THEN @ ELSE Append(@, [ref |-> ref, heap |-> heap]),
        !.pages.columns = @ \o SubSeq(rows, 1, n - 1)]

(* The root of a tree that gets ids and splits its root `moves` times. *)
RootAfter(root, tree, moves) ==
  IF root = NoRoot THEN [tree |-> tree, moves |-> moves]
  ELSE [root EXCEPT !.moves = @ + moves]

(* BPlusTreeIndex::insert of ids into an index of a table. *)
IndexInsert(d, ref, name, ids, moves) ==
  LET root == TableIndexes(d, ref)[name].root
      new  == RootAfter(root, <<ref, name>>, moves)
  IN  IF ids = <<>> THEN d
      ELSE [d EXCEPT !.tables[ref].indexes[name].root = new,
                     !.pages.trees = With(@, new.tree, TreeIds(d, root) \o ids)]

(* A mutant of IndexCreated: the rows of the table are left out. *)
IndexCreatedEmpty(d, ref, name, key, moves, recorded) ==
  LET cols  == d.tables[ref].cols
      index == [key |-> [i \in DOMAIN key |-> cols[IndexOf(cols, NoRelation, key[i])]],
                root |-> NoRoot]
  IN  [d EXCEPT !.tables[ref].indexes = With(@, name, index),
                !.pages.indexes = Append(@, [ref |-> ref, index |-> name,
                                             key |-> KeyVarchar(key), root |-> NoRoot])]

(* The rows of the table go into the index before it is registered, first  *)
(* in memory, then (if recorded) in the system table.                      *)
IndexCreated(d, ref, name, key, moves, recorded) ==
  LET cols  == d.tables[ref].cols
      index == [key |-> [i \in DOMAIN key |-> cols[IndexOf(cols, NoRelation, key[i])]],
                root |-> NoRoot]
      built == IndexInsert([d EXCEPT !.tables[ref].indexes = With(@, name, index)],
                           ref, name, [k \in DOMAIN TableHeap(d, ref) |-> k], moves)
      row   == [ref |-> ref, index |-> name, key |-> KeyVarchar(key),
                root |-> TableIndexes(built, ref)[name].root]
  IN  IF recorded THEN [built EXCEPT !.pages.indexes = Append(@, row)] ELSE built

(* VALUES casts a row to the types of the listed columns.  Without the     *)
(* assertions what is left over, on either side, is dropped.               *)
Cast(types, row) ==
  [i \in 1..(IF Len(row) < Len(types) THEN Len(row) ELSE Len(types)) |-> CastTo(row[i], types[i])]

(* INSERT casts what VALUES has cast once more (a NULL, cast to a Varchar  *)
(* with a length, then is one without, and an error).                      *)
Castable(types, row) ==
  LET cast == Cast(types, row)
  IN  /\ assertions => Len(row) = Len(types)
      /\ \A i \in DOMAIN cast : cast[i] # Err /\ CastTo(cast[i], types[i]) # Err

(* The listed columns are looked up under the name of the table, and no    *)
(* list has one twice.  They give the types that values are cast to.       *)
ListOK(cols, ref, list) ==
  (\A i \in DOMAIN list : IndexOf(cols, ref, list[i]) # 0) /\ Distinct(list)

ListedTypes(cols, ref, list) ==
  IF list = <<>> THEN [i \in DOMAIN cols |-> cols[i].type]
  ELSE [i \in DOMAIN list |-> cols[IndexOf(cols, ref, list[i])].type]

(* A row that is too short for the key of an index panics there. *)
HasKey(cols, index, row) ==
  \A k \in ToSet(index.key) : IndexOf(cols, k.rel, k.name) <= Len(row)

HeapInsert(d, ref, rows) == [d EXCEPT !.pages.heaps[d.tables[ref].heap] = @ \o rows]

(* The rows are in the heap, and all of them but for those that `missing`  *)
(* names are in the indexes.  An index whose key does not resolve in the   *)
(* table is passed over.                                                   *)
Inserted(d, ref, rows, missing, moves) ==
  LET first == Len(TableHeap(d, ref))
      idx   == TableIndexes(d, ref)
      Ids(name) == [k \in 1..(Len(rows) - (IF name \in missing THEN 1 ELSE 0)) |-> first + k]
      Resolves(name) ==
        \A k \in ToSet(idx[name].key) : IndexOf(d.tables[ref].cols, k.rel, k.name) # 0
  IN  FoldSet(LAMBDA name, e : IndexInsert(e, ref, name, Ids(name), moves[name]),
              HeapInsert(d, ref, rows), {name \in DOMAIN idx : Resolves(name)})

(* UPDATE of one row: the row as it was, as it becomes, or an error. *)
UpdatedRow(cols, row, sel, name, value) ==
  LET at   == IndexOf(cols, NoRelation, sel.name)
      hit  == IF at = 0 THEN Err ELSE Compare("Eq", row[at], sel.value)
      i    == IndexOf(cols, NoRelation, name)
      cell == IF i = 0 THEN Err ELSE CastTo(value, cols[i].type)
  IN  IF hit = Err THEN Err
      ELSE IF ~hit.v THEN row
      ELSE IF cell = Err THEN Err ELSE [row EXCEPT ![i] = cell]

(* The heap changes in place; no index is touched. *)
Updated(d, ref, results) ==
  [d EXCEPT !.pages.heaps[d.tables[ref].heap] =
     [k \in DOMAIN @ |-> IF k \in DOMAIN results THEN results[k] ELSE @[k]]]

(***************************************************************************)
(* Transactions.                                                           *)
(***************************************************************************)

Init ==
  /\ durable \in BOOLEAN /\ assertions \in BOOLEAN
  /\ base = Load(EmptyPages)
  /\ txn = NoDatabase /\ dirty = FALSE

(* begin: a copy of the flushed pages of the committed database, if they   *)
(* can be loaded.                                                          *)
Begin ==
  LET pages == SnapshotBytes(base)
  IN  /\ txn = NoDatabase
      /\ base' = SyncIndexRoots(base)
      /\ txn' = IF Loads(LoadSchemas(pages)) THEN Load(pages) ELSE NoDatabase
      /\ dirty' = FALSE
      /\ UNCHANGED build

(* A mutant of Finish: a statement that failed half way ends nothing. *)
FinishKeeping(d, ok) ==
  /\ txn' = d
  /\ dirty' = TRUE
  /\ UNCHANGED <<build, base>>

(* Transaction::run drops the copy when the statement fails, and so does a *)
(* panic that unwinds through the transaction.                             *)
Finish(d, ok) ==
  /\ txn' = IF ok THEN d ELSE NoDatabase
  /\ dirty' = ok
  /\ UNCHANGED <<build, base>>

CreateTable ==
  /\ txn # NoDatabase /\ Len(txn.pages.heaps) < MaxTables
  /\ \E ref \in TableRef, defs \in ColumnDefs :
       LET valid == /\ Distinct(Names(defs))
                    /\ ref[1] \in txn.schemas /\ ref \notin DOMAIN txn.tables
       IN  IF ~valid THEN Finish(txn, FALSE)
           ELSE \E n \in 0..(Len(defs) + 1) :
                  Finish(TableCreated(txn, ref, defs, n), n = Len(defs) + 1)

CreateIndex ==
  /\ txn # NoDatabase
  /\ \E ref \in TableRef, name \in IndexName, key \in KeyLists :
       LET valid == /\ Known(txn, ref) /\ name \notin DOMAIN TableIndexes(txn, ref)
                    /\ \A i \in DOMAIN key : IndexOf(txn.tables[ref].cols, NoRelation, key[i]) # 0
                    /\ Distinct(key)
       IN  IF ~valid THEN Finish(txn, FALSE)
           ELSE \E moves \in 0..MaxMoves, recorded \in BOOLEAN :
                  Finish(IndexCreated(txn, ref, name, key, moves, recorded), recorded)

(* INSERT INTO ref [list] VALUES rows.  The list gives the types that the  *)
(* values are cast to, and nothing else: the values are stored in the      *)
(* order in which they are written.  Debug assertions stop at a row that   *)
(* does not fit the table.                                                 *)
Insert ==
  /\ txn # NoDatabase
  /\ \E ref \in TableRef, list \in ColumnLists :
       IF ~(Known(txn, ref) /\ ListOK(txn.tables[ref].cols, ref, list)) THEN Finish(txn, FALSE)
       ELSE LET cols  == txn.tables[ref].cols
                types == ListedTypes(cols, ref, list)
                idx   == TableIndexes(txn, ref)
                Moves(i) == IF idx[i].root = NoRoot THEN 0 ELSE idx[i].root.moves
            IN  \E rows \in BoundedSeq(Literals, MaxBatch) : \E n \in 0..Len(rows) :
                  LET tuples == [k \in 1..n |-> Cast(types, rows[k])]
                  IN  /\ Len(FlattenSeq(txn.pages.heaps)) + Len(rows) <= MaxRows
                      /\ \A k \in 1..n : /\ Castable(types, rows[k])
                                         /\ assertions => Fits(tuples[k], cols)
                      /\ \E missing \in SUBSET (IF n = 0 THEN {} ELSE DOMAIN idx),
                            moves \in [DOMAIN idx -> 0..MaxMoves] :
                           /\ \A i \in DOMAIN idx : Moves(i) + moves[i] <= MaxMoves
                           /\ \A i \in DOMAIN idx, k \in 1..n :
                                HasKey(cols, idx[i], tuples[k]) \/ (k = n /\ i \in missing)
                           /\ Finish(Inserted(txn, ref, tuples, missing, moves),
                                     n = Len(rows) /\ missing = {})

(* What UPDATE makes of rows that do not fit is not followed. *)
Update ==
  /\ txn # NoDatabase
  /\ \E ref \in TableRef, name \in ColumnName, value \in Values, sel \in Selections :
       IF ~Known(txn, ref) THEN Finish(txn, FALSE)
       ELSE IF ~Sound(txn, ref) THEN \E ok \in BOOLEAN : Finish(txn, ok)
       ELSE LET heap    == TableHeap(txn, ref)
                results == [k \in DOMAIN heap |->
                              UpdatedRow(txn.tables[ref].cols, heap[k], sel, name, value)]
            IN  \E n \in 0..Len(heap) :
                  /\ \A k \in 1..n : results[k] # Err
                  /\ Finish(Updated(txn, ref, SubSeq(results, 1, n)), n = Len(heap))

(* A transaction that tried to write becomes the committed database; with  *)
(* a journal its pages are flushed and appended first.                     *)
Commit ==
  /\ txn # NoDatabase
  /\ base' = IF ~dirty THEN base ELSE IF durable THEN SyncIndexRoots(txn) ELSE txn
  /\ txn' = NoDatabase /\ dirty' = FALSE
  /\ UNCHANGED build

(* abort, drop, or a commit that is refused. *)
Abort ==
  /\ txn # NoDatabase /\ txn' = NoDatabase /\ dirty' = FALSE
  /\ UNCHANGED <<build, base>>

(* The process ends, and the last image of the journal is loaded.  If it   *)
(* cannot be, no database is open, and no transaction begins.              *)
Reopen ==
  /\ durable
  /\ base' = IF Loads(LoadSchemas(base.pages)) THEN Load(base.pages) ELSE base
  /\ txn' = NoDatabase /\ dirty' = FALSE
  /\ UNCHANGED build

Next ==
  \/ Begin \/ CreateTable \/ CreateIndex \/ Insert \/ Update
  \/ Commit \/ Abort \/ Reopen

Spec == Init /\ [][Next]_vars

(***************************************************************************)
(* Properties.                                                             *)
(***************************************************************************)

Databases == {base, txn} \ {NoDatabase}

(* The names and types of the table come back from their text: no quote in *)
(* its own name, no comma or outer space in those of its columns, and no   *)
(* Float64, which is written as DOUBLE and read as Float32.                *)
Plain(d, ref) ==
  /\ Selected(ref) = {ref}
  /\ \A c \in ToSet(d.tables[ref].cols) : Pieces(c.name) = <<c.name>> /\ c.type # "Float64"

(* An index of a plain table whose rows fit it finds every row once: rows  *)
(* from before it was created, rows of every statement since, in this      *)
(* database and in those that it was copied from.  (UPDATE may leave a row *)
(* under an old key.)                                                      *)
IndexExact ==
  \A d \in Databases : \A ref \in DOMAIN d.tables : \A i \in DOMAIN TableIndexes(d, ref) :
    Plain(d, ref) /\ Sound(d, ref) =>
      LET ids == TreeIds(d, TableIndexes(d, ref)[i].root)
      IN  /\ Len(ids) = Len(TableHeap(d, ref))
          /\ ToSet(ids) = DOMAIN TableHeap(d, ref)

Unqualified(cols) == [i \in DOMAIN cols |-> Column(NoRelation, cols[i].name, cols[i].type)]

(* A table as a copy should have it. *)
Copied(t) ==
  [cols |-> Unqualified(t.cols), heap |-> t.heap,
   indexes |-> [i \in DOMAIN t.indexes |->
                  [key |-> Unqualified(t.indexes[i].key), root |-> t.indexes[i].root]]]

(* A snapshot of a database whose tables are all plain can be loaded.  And *)
(* what is loaded has the schemas and tables that the database has in      *)
(* memory, the plain ones with their heaps and columns, and their indexes  *)
(* with keys and current roots; up to the relations of columns.            *)
CopyFaithful ==
  \A d \in Databases :
    LET pages == SnapshotBytes(d)
        copy  == Load(pages)
        plain == {ref \in DOMAIN d.tables : Plain(d, ref)}
    IN  /\ plain = DOMAIN d.tables => Loads(LoadSchemas(pages))
        /\ Loads(LoadSchemas(pages)) =>
             /\ copy.schemas = d.schemas /\ DOMAIN copy.tables = DOMAIN d.tables
             /\ \A ref \in plain : copy.tables[ref] = Copied(d.tables[ref])

(* What a user sees of the plain tables. *)
Contents(d) ==
  [ref \in {r \in DOMAIN d.tables : Plain(d, r)} |->
     [cols |-> [i \in DOMAIN d.tables[ref].cols |->
                  [name |-> d.tables[ref].cols[i].name,
                   type |-> TypeOf(d.tables[ref].cols[i].type)]],
      rows |-> IF Sound(d, ref) THEN ToBag(ScanRows(d, ref)) ELSE Undefined]]

(* Through all of this a user sees tables: what SELECT returns of a plain  *)
(* one, whatever other tables there are, changes by whole statements and,  *)
(* for others, by whole transactions.  Rows fit their table, or an INSERT  *)
(* of a build without assertions has put one there that does not.          *)
Relations == INSTANCE RelationStore
  WITH store <- Contents(base),
       view  <- IF txn = NoDatabase THEN NoDatabase ELSE Contents(txn),
       checked <- assertions,
       NoView <- NoDatabase

ImplementsRelationStore == Relations!Spec
=============================================================================
