--------------------------- MODULE CatalogProofs ----------------------------
(***************************************************************************)
(* Proofs about Catalog: a copy of a database has the catalog that the     *)
(* database has in memory, and every index finds every row once.  The two  *)
(* need each other: the trees are found through the catalog that a copy    *)
(* loads, and statements look tables, columns and indexes up in it.        *)
(***************************************************************************)
EXTENDS Catalog, TLAPS, WellFoundedInduction, SequenceTheorems, FiniteSetTheorems

(***************************************************************************)
(* The inductive invariant.                                                *)
(***************************************************************************)

IsSeq(s) == s \in Seq(ToSet(s))

(* Everything is the record, the function or the sequence that it is made as. *)
PagesShape(p) ==
  /\ p = [heaps |-> p.heaps, trees |-> p.trees, schemas |-> p.schemas,
          tables |-> p.tables, columns |-> p.columns, indexes |-> p.indexes]
  /\ IsSeq(p.heaps) /\ IsSeq(p.schemas) /\ IsSeq(p.tables)
  /\ IsSeq(p.columns) /\ IsSeq(p.indexes)

TableShape(t) ==
  /\ t = [cols |-> t.cols, heap |-> t.heap, indexes |-> t.indexes]
  /\ IsFiniteSet(DOMAIN t.indexes) /\ DOMAIN t.indexes \subseteq IndexName
  /\ \A n \in DOMAIN t.indexes :
       t.indexes[n] = [key |-> t.indexes[n].key, root |-> t.indexes[n].root]

Shape(d) ==
  /\ d = [schemas |-> d.schemas, tables |-> d.tables, pages |-> d.pages]
  /\ PagesShape(d.pages)
  /\ DOMAIN d.tables \subseteq TableRef
  /\ d.tables = [ref \in DOMAIN d.tables |-> d.tables[ref]]
  /\ \A ref \in DOMAIN d.tables : TableShape(d.tables[ref])

SchemasOK(schemas, p) ==
  /\ DefaultSchema \in ToSet(p.schemas)
  /\ schemas = ToSet(p.schemas) \cup {InformationSchema}

(* The system table of tables says which tables there are and where their  *)
(* heaps are; no two share a heap.                                         *)
TablesOK(schemas, tables, p) ==
  /\ \A ref \in DOMAIN tables :
       /\ ref[1] \in schemas
       /\ tables[ref].heap \in DOMAIN p.heaps
       /\ \E row \in ToSet(p.tables) : row.ref = ref
  /\ \A a, b \in DOMAIN tables : tables[a].heap = tables[b].heap => a = b
  /\ \A row \in ToSet(p.tables) :
       row.ref \in DOMAIN tables /\ row.heap = tables[row.ref].heap

(* loaded is what a copy makes of the columns in memory.  Float64 is       *)
(* written as DOUBLE, which is read as Float32.                            *)
Describes(loaded, cols) ==
  /\ IsSeq(loaded) /\ IsSeq(cols) /\ Len(loaded) = Len(cols)
  /\ \A i \in 1..Len(cols) :
       /\ loaded[i] = Column(NoRelation, loaded[i].name, loaded[i].type)
       /\ loaded[i].name = cols[i].name
       /\ cols[i].type # "Float64" => loaded[i].type = cols[i].type

(* The columns of a table are those that a query with its name returns, if *)
(* the name stands for the table alone.                                    *)
ColumnsOf(p, ref, cols) ==
  /\ IsSeq(cols) /\ Distinct(Names(cols))
  /\ Selected(ref) = {ref} => Describes(LoadColumns(p, ref), cols)

ColumnsOK(tables, p) ==
  /\ \A row \in ToSet(p.columns) : row.ref \in DOMAIN tables
  /\ \A ref \in DOMAIN tables : ColumnsOf(p, ref, tables[ref].cols)

(* key is the key schema that the names stand for. *)
Keyed(cols, names, key) ==
  /\ \A j \in DOMAIN names : IndexOf(cols, NoRelation, names[j]) # 0
  /\ key = [j \in DOMAIN names |-> cols[IndexOf(cols, NoRelation, names[j])]]

PlainNames(cols) == \A c \in ToSet(cols) : Pieces(c.name) = <<c.name>>

(* The columns of a key schema are found in the table.  The names that the *)
(* system table has of them stand for it, if they come back from the text. *)
RowKeyOK(cols, names, key) ==
  /\ \A k \in ToSet(key) : IndexOf(cols, k.rel, k.name) # 0
  /\ PlainNames(cols) => Keyed(cols, names, key) /\ Distinct(names)

IndexRowOK(tables, row) ==
  /\ row = [ref |-> row.ref, index |-> row.index, key |-> row.key, root |-> row.root]
  /\ row.ref \in DOMAIN tables /\ row.index \in DOMAIN tables[row.ref].indexes
  /\ RowKeyOK(tables[row.ref].cols, row.key, tables[row.ref].indexes[row.index].key)

(* No two rows of an index differ in the key. *)
OneKey(rows) ==
  \A r, s \in ToSet(rows) : r.ref = s.ref /\ r.index = s.index => r.key = s.key

IndexesOK(tables, p) ==
  /\ \A ref \in DOMAIN tables : \A n \in DOMAIN tables[ref].indexes :
       \E row \in ToSet(p.indexes) : row.ref = ref /\ row.index = n
  /\ \A row \in ToSet(p.indexes) : IndexRowOK(tables, row)
  /\ OneKey(p.indexes)

(* The tree under a root has the row ids of the heap, each once. *)
Covers(ids, heap) == IsSeq(ids) /\ IsSeq(heap) /\ Len(ids) = Len(heap) /\ ToSet(ids) = DOMAIN heap

IdsUnder(trees, root) == IF root = NoRoot THEN <<>> ELSE trees[root.tree]

Holds(trees, root, heap) ==
  /\ root # NoRoot => root.tree \in DOMAIN trees
  /\ Covers(IdsUnder(trees, root), heap)

RootOf(root, ref, n) == root = NoRoot \/ root \in [tree : {<<ref, n>>}, moves : Nat]

TreesOK(tables, p) ==
  \A ref \in DOMAIN tables :
    /\ IsSeq(p.heaps[tables[ref].heap])
    /\ \A n \in DOMAIN tables[ref].indexes :
         LET root == tables[ref].indexes[n].root
         IN  RootOf(root, ref, n) /\ Holds(p.trees, root, p.heaps[tables[ref].heap])

DbOK(d) ==
  /\ Shape(d)
  /\ SchemasOK(d.schemas, d.pages)
  /\ TablesOK(d.schemas, d.tables, d.pages)
  /\ ColumnsOK(d.tables, d.pages)
  /\ IndexesOK(d.tables, d.pages)
  /\ TreesOK(d.tables, d.pages)

(* The rows of the indexes have the roots that the memory has. *)
Synced(d) ==
  \A row \in ToSet(d.pages.indexes) :
    row.root = d.tables[row.ref].indexes[row.index].root

IInv ==
  /\ DbOK(base)
  /\ durable => Synced(base)
  /\ txn # NoDatabase => DbOK(txn)

(***************************************************************************)
(* Numbers and sequences.                                                  *)
(***************************************************************************)

(* Every nonempty set of natural numbers has a least element. *)
LEMMA NatMin ==
  ASSUME NEW T, T \subseteq Nat, T # {}
  PROVE  \E x \in T : \A y \in T : x <= y
  <1> DEFINE Less == {ss \in Nat \X Nat : ss[1] < ss[2]}
  <1>1. OpToRel(<, Nat) = Less BY DEF OpToRel
  <1>2. IsWellFoundedOn(Less, Nat) BY <1>1, NatLessThanWellFounded
  <1> HIDE DEF Less
  <1>3. PICK x \in T : \A y \in T : ~ (<<y, x>> \in Less) BY <1>2, WFMin
  <1>4. ASSUME NEW y \in T PROVE x <= y
    <2>1. x \in Nat /\ y \in Nat OBVIOUS
    <2>2. (y < x) => <<y, x>> \in Less BY <2>1 DEF Less
    <2> QED BY <1>3, <2>1, <2>2
  <1> QED BY <1>4

(* What it means to be a sequence. *)
LEMMA SeqFacts ==
  ASSUME NEW s, IsSeq(s)
  PROVE  /\ Len(s) \in Nat /\ DOMAIN s = 1..Len(s)
         /\ \A i \in 1..Len(s) : s[i] \in ToSet(s)
         /\ \A x \in ToSet(s) : \E i \in 1..Len(s) : s[i] = x
         /\ s = [i \in 1..Len(s) |-> s[i]]
  <1>1. s \in Seq(ToSet(s)) BY DEF IsSeq
  <1>2. Len(s) \in Nat /\ DOMAIN s = 1..Len(s) BY <1>1
  <1>3. s = [i \in 1..Len(s) |-> s[i]] BY <1>1
  <1> QED BY <1>2, <1>3 DEF ToSet

LEMMA SeqIs ==
  ASSUME NEW S, NEW s \in Seq(S)
  PROVE  IsSeq(s) /\ ToSet(s) \subseteq S
  <1>1. Len(s) \in Nat /\ DOMAIN s = 1..Len(s) /\ \A i \in 1..Len(s) : s[i] \in S OBVIOUS
  <1>2. s = [i \in 1..Len(s) |-> s[i]] OBVIOUS
  <1>3. \A i \in 1..Len(s) : s[i] \in ToSet(s) BY <1>1 DEF ToSet
  <1>4. s \in [1..Len(s) -> ToSet(s)] BY <1>2, <1>3
  <1>5. s \in Seq(ToSet(s)) BY <1>1, <1>4, IsASeq
  <1> QED BY <1>1, <1>5 DEF IsSeq, ToSet

(* A function on 1..n is a sequence. *)
LEMMA FunctionIsSeq ==
  ASSUME NEW n \in Nat, NEW f, f = [i \in 1..n |-> f[i]]
  PROVE  IsSeq(f) /\ Len(f) = n
  <1>1. DOMAIN f = 1..n OBVIOUS
  <1>2. \A i \in 1..n : f[i] \in ToSet(f) BY <1>1 DEF ToSet
  <1>3. f \in [1..n -> ToSet(f)] BY <1>2
  <1>4. f \in Seq(ToSet(f)) BY <1>3, IsASeq
  <1>5. Len(f) = n BY <1>1, <1>4, LenProperties
  <1> QED BY <1>4, <1>5 DEF IsSeq

LEMMA EmptyIsSeq == IsSeq(<<>>) /\ Len(<<>>) = 0 /\ ToSet(<<>>) = {} /\ DOMAIN <<>> = {}
  <1>1. Len(<<>>) = 0 OBVIOUS
  <1>2. PICK e : e = <<>> OBVIOUS
  <1>a. e \in Seq({}) BY <1>2
  <1>b. IsSeq(e) /\ ToSet(e) \subseteq {} BY <1>a, SeqIs
  <1>3. IsSeq(<<>>) /\ ToSet(<<>>) \subseteq {} BY <1>2, <1>b
  <1>4. DOMAIN <<>> = 1..0 BY <1>1, <1>3, SeqFacts
  <1> QED BY <1>1, <1>3, <1>4

LEMMA AppendIsSeq ==
  ASSUME NEW s, IsSeq(s), NEW x
  PROVE  /\ IsSeq(Append(s, x)) /\ Len(Append(s, x)) = Len(s) + 1
         /\ ToSet(Append(s, x)) = ToSet(s) \cup {x}
         /\ \A i \in 1..Len(s) : Append(s, x)[i] = s[i]
         /\ Append(s, x)[Len(s) + 1] = x
  <1> DEFINE T == ToSet(s) \cup {x}
  <1> PICK a : a = Append(s, x) OBVIOUS
  <1>1. Len(s) \in Nat /\ DOMAIN s = 1..Len(s) /\ \A i \in 1..Len(s) : s[i] \in ToSet(s) BY SeqFacts
  <1>2. s \in Seq(ToSet(s)) BY DEF IsSeq
  <1>3. s \in Seq(T) BY <1>2
  <1>4. x \in T OBVIOUS
  <1> HIDE DEF T
  <1>5. a \in Seq(T) /\ Len(a) = Len(s) + 1 /\ a[Len(s) + 1] = x
        /\ \A i \in 1..Len(s) : a[i] = s[i]
    BY <1>1, <1>3, <1>4
  <1>6. IsSeq(a) /\ ToSet(a) \subseteq T BY <1>5, SeqIs
  <1>7. DOMAIN a = 1..(Len(s) + 1) BY <1>5, <1>6, SeqFacts
  <1>8. \A i \in 1..Len(s) : i \in 1..(Len(s) + 1) BY <1>1
  <1>9. ToSet(s) \subseteq ToSet(a) BY <1>1, <1>5, <1>7, <1>8 DEF ToSet
  <1>10. Len(s) + 1 \in 1..(Len(s) + 1) BY <1>1
  <1>11. x \in ToSet(a) BY <1>5, <1>7, <1>10 DEF ToSet
  <1>12. ToSet(a) = ToSet(s) \cup {x} BY <1>6, <1>9, <1>11 DEF T
  <1> QED BY <1>5, <1>6, <1>12

LEMMA ConcatIsSeq ==
  ASSUME NEW s, IsSeq(s), NEW t, IsSeq(t)
  PROVE  /\ IsSeq(s \o t) /\ Len(s \o t) = Len(s) + Len(t)
         /\ ToSet(s \o t) = ToSet(s) \cup ToSet(t)
         /\ \A i \in 1..Len(s) : (s \o t)[i] = s[i]
         /\ \A i \in 1..Len(t) : (s \o t)[Len(s) + i] = t[i]
  <1> DEFINE T == ToSet(s) \cup ToSet(t)
  <1> PICK a : a = s \o t OBVIOUS
  <1>1. Len(s) \in Nat /\ DOMAIN s = 1..Len(s) /\ \A i \in 1..Len(s) : s[i] \in ToSet(s) BY SeqFacts
  <1>2. Len(t) \in Nat /\ DOMAIN t = 1..Len(t) /\ \A i \in 1..Len(t) : t[i] \in ToSet(t) BY SeqFacts
  <1>3. s \in Seq(ToSet(s)) /\ t \in Seq(ToSet(t)) BY DEF IsSeq
  <1>4. s \in Seq(T) /\ t \in Seq(T) BY <1>3
  <1> HIDE DEF T
  <1>5. a \in Seq(T) /\ Len(a) = Len(s) + Len(t) BY <1>1, <1>2, <1>4
  <1>6. \A i \in 1..(Len(s) + Len(t)) : a[i] = IF i <= Len(s) THEN s[i] ELSE t[i - Len(s)]
    BY <1>1, <1>2, <1>4
  <1>7. ASSUME NEW i \in 1..Len(s) PROVE a[i] = s[i] /\ i \in 1..(Len(s) + Len(t))
    <2>1. i \in 1..(Len(s) + Len(t)) /\ i <= Len(s) BY <1>1, <1>2
    <2> QED BY <1>6, <2>1
  <1>8. ASSUME NEW i \in 1..Len(t)
        PROVE  a[Len(s) + i] = t[i] /\ Len(s) + i \in 1..(Len(s) + Len(t))
    <2>1. Len(s) + i \in 1..(Len(s) + Len(t)) /\ ~(Len(s) + i <= Len(s)) /\ (Len(s) + i) - Len(s) = i
      BY <1>1, <1>2
    <2> QED BY <1>6, <2>1
  <1>9. IsSeq(a) /\ ToSet(a) \subseteq T BY <1>5, SeqIs
  <1>10. DOMAIN a = 1..(Len(s) + Len(t)) BY <1>5, <1>9, SeqFacts
  <1>11. ToSet(s) \subseteq ToSet(a) BY <1>1, <1>7, <1>10 DEF ToSet
  <1>12. ToSet(t) \subseteq ToSet(a) BY <1>2, <1>8, <1>10 DEF ToSet
  <1>13. ToSet(a) = ToSet(s) \cup ToSet(t) BY <1>9, <1>11, <1>12 DEF T
  <1> QED BY <1>5, <1>7, <1>8, <1>9, <1>13

(***************************************************************************)
(* Looking up a column.                                                    *)
(***************************************************************************)

Matching(cols, rel, name) ==
  {i \in 1..Len(cols) : cols[i].name = name /\ (rel = NoRelation \/ cols[i].rel = rel)}

LEMMA IndexOfIs ==
  ASSUME NEW cols, NEW rel, NEW name
  PROVE  IndexOf(cols, rel, name) = IF Matching(cols, rel, name) # {}
                                    THEN Min(Matching(cols, rel, name)) ELSE 0
  BY DEF IndexOf, SelectInSeq, Matching

(* The column that is found is one with the name, and it is found if there is one. *)
LEMMA IndexOfFinds ==
  ASSUME NEW cols, NEW rel, NEW name
  PROVE  /\ Matching(cols, rel, name) # {} => IndexOf(cols, rel, name) # 0
         /\ IndexOf(cols, rel, name) # 0 => IndexOf(cols, rel, name) \in Matching(cols, rel, name)
  <1> PICK M : M = Matching(cols, rel, name) OBVIOUS
  <1>1. CASE M # {}
    <2>1. M \subseteq Nat /\ 0 \notin M BY DEF Matching
    <2>2. \E x \in M : \A y \in M : x <= y BY <1>1, <2>1, NatMin
    <2>3. Min(M) \in M BY <2>2 DEF Min
    <2>4. IndexOf(cols, rel, name) = Min(M) BY <1>1, IndexOfIs
    <2> QED BY <2>1, <2>3, <2>4
  <1>2. CASE M = {}
    <2>1. IndexOf(cols, rel, name) = 0 BY <1>2, IndexOfIs
    <2> QED BY <1>2, <2>1
  <1> QED BY <1>1, <1>2

(* Without a relation only the names count. *)
LEMMA IndexOfByName ==
  ASSUME NEW loaded, NEW cols, Describes(loaded, cols), NEW name
  PROVE  IndexOf(loaded, NoRelation, name) = IndexOf(cols, NoRelation, name)
  <1>1. Len(loaded) = Len(cols) /\ \A i \in 1..Len(cols) : loaded[i].name = cols[i].name
    BY DEF Describes
  <1>2. Matching(loaded, NoRelation, name) = Matching(cols, NoRelation, name) BY <1>1 DEF Matching
  <1> QED BY <1>2, IndexOfIs

(* A column of the table that was found under its name is found under its relation. *)
LEMMA KeyResolves ==
  ASSUME NEW cols, NEW names, NEW key, Keyed(cols, names, key), NEW k \in ToSet(key)
  PROVE  IndexOf(cols, k.rel, k.name) # 0
  <1>1. PICK j \in DOMAIN names : k = cols[IndexOf(cols, NoRelation, names[j])]
    BY DEF Keyed, ToSet
  <1>2. IndexOf(cols, NoRelation, names[j]) # 0 BY <1>1 DEF Keyed
  <1>3. PICK p : p = IndexOf(cols, NoRelation, names[j]) OBVIOUS
  <1>4. p \in Matching(cols, NoRelation, names[j]) BY <1>2, <1>3, IndexOfFinds
  <1>5. p \in 1..Len(cols) BY <1>4 DEF Matching
  <1>6. k = cols[p] BY <1>1, <1>3
  <1>7. p \in Matching(cols, k.rel, k.name) BY <1>5, <1>6 DEF Matching
  <1> QED BY <1>7, IndexOfFinds

(***************************************************************************)
(* Loading the columns of a table.                                         *)
(***************************************************************************)

LoadedColumn(row) == Column(NoRelation, row.name, FromSql(row.type))

ColumnsStep(rows, refs, old, i) ==
  IF rows[i].ref \in refs THEN Append(old, LoadedColumn(rows[i])) ELSE old

(* f[i] is what the first i rows say of the tables. *)
Gathers(f, rows, refs, n) ==
  f = [i \in 0..n |-> IF i = 0 THEN <<>> ELSE ColumnsStep(rows, refs, f[i - 1], i)]

LEMMA GathersExists ==
  ASSUME NEW rows, NEW refs, NEW n \in Nat
  PROVE  \E f : Gathers(f, rows, refs, n)
  <1> DEFINE Bad == {m \in Nat : ~\E f : Gathers(f, rows, refs, m)}
  <1> SUFFICES ASSUME Bad # {} PROVE FALSE OBVIOUS
  <1>1. PICK m \in Bad : \A y \in Bad : m <= y BY NatMin
  <1>2. m \in Nat /\ ~\E f : Gathers(f, rows, refs, m) OBVIOUS
  <1>3. CASE m = 0
    <2>1. PICK f : f = [i \in 0..0 |-> <<>>] OBVIOUS
    <2>2. \A i \in 0..0 : i = 0 OBVIOUS
    <2>3. f = [i \in 0..0 |-> IF i = 0 THEN <<>> ELSE ColumnsStep(rows, refs, f[i - 1], i)]
      BY <2>1, <2>2
    <2> QED BY <1>2, <1>3, <2>3 DEF Gathers
  <1>4. CASE m # 0
    <2>1. m - 1 \in Nat /\ ~(m <= m - 1) BY <1>2, <1>4
    <2>2. ~(m - 1 \in Bad) BY <1>1, <2>1
    <2>3. PICK g : Gathers(g, rows, refs, m - 1) BY <2>1, <2>2
    <2>4. g = [i \in 0..(m - 1) |-> IF i = 0 THEN <<>> ELSE ColumnsStep(rows, refs, g[i - 1], i)]
      BY <2>3 DEF Gathers
    <2>5. PICK f : f = [i \in 0..m |-> IF i = m THEN ColumnsStep(rows, refs, g[m - 1], m) ELSE g[i]]
      OBVIOUS
    <2>6. ASSUME NEW i \in 0..m
          PROVE  f[i] = IF i = 0 THEN <<>> ELSE ColumnsStep(rows, refs, f[i - 1], i)
      <3>1. CASE i = m
        <4>1. m - 1 \in 0..m /\ m - 1 # m BY <1>2, <1>4
        <4>2. f[m - 1] = g[m - 1] BY <2>5, <4>1
        <4>3. f[m] = ColumnsStep(rows, refs, g[m - 1], m) BY <1>2, <2>5
        <4> QED BY <1>4, <3>1, <4>2, <4>3
      <3>2. CASE i # m
        <4>1. i \in 0..(m - 1) BY <1>2, <3>2
        <4>2. f[i] = g[i] BY <2>5, <3>2
        <4>3. g[i] = IF i = 0 THEN <<>> ELSE ColumnsStep(rows, refs, g[i - 1], i) BY <2>4, <4>1
        <4>4. i # 0 => i - 1 \in 0..m /\ i - 1 # m BY <1>2, <4>1
        <4>5. i # 0 => f[i - 1] = g[i - 1] BY <2>5, <4>4
        <4> QED BY <4>2, <4>3, <4>5
      <3> QED BY <3>1, <3>2
    <2>7. f = [i \in 0..m |-> IF i = 0 THEN <<>> ELSE ColumnsStep(rows, refs, f[i - 1], i)]
      BY <2>5, <2>6
    <2> QED BY <1>2, <2>7 DEF Gathers
  <1> QED BY <1>3, <1>4

(* LoadColumns is the end of such a function. *)
LEMMA LoadColumnsIs ==
  ASSUME NEW p, Len(p.columns) \in Nat, NEW ref
  PROVE  \E f : /\ Gathers(f, p.columns, Selected(ref), Len(p.columns))
                /\ LoadColumns(p, ref) = f[Len(p.columns)]
  <1> DEFINE g == CHOOSE f : f = [i \in 0..Len(p.columns) |->
                    IF i = 0 THEN <<>>
                    ELSE IF p.columns[i].ref \in Selected(ref)
                         THEN Append(f[i - 1], Column(NoRelation, p.columns[i].name,
                                                      FromSql(p.columns[i].type)))
                         ELSE f[i - 1]]
  <1> DEFINE h == CHOOSE f : Gathers(f, p.columns, Selected(ref), Len(p.columns))
  <1>1. LoadColumns(p, ref) = g[Len(p.columns)] BY DEF LoadColumns
  <1>2. g = h BY DEF Gathers, ColumnsStep, LoadedColumn
  <1>3. Gathers(h, p.columns, Selected(ref), Len(p.columns)) BY GathersExists
  <1> QED BY <1>1, <1>2, <1>3

LEMMA GathersStep ==
  ASSUME NEW f, NEW rows, NEW refs, NEW n \in Nat, Gathers(f, rows, refs, n)
  PROVE  f[0] = <<>> /\ \A i \in 1..n : f[i] = ColumnsStep(rows, refs, f[i - 1], i)
  <1>1. f = [i \in 0..n |-> IF i = 0 THEN <<>> ELSE ColumnsStep(rows, refs, f[i - 1], i)]
    BY DEF Gathers
  <1>2. 0 \in 0..n /\ \A i \in 1..n : i \in 0..n /\ i # 0 OBVIOUS
  <1> QED BY <1>1, <1>2

SameUpTo(a, b, n) == \A i \in 1..n : a[i] = b[i]

NoneAfter(rows, refs, n, m) == \A i \in (n + 1)..m : rows[i].ref \notin refs

(* The same first rows say the same. *)
LEMMA GathersAgree ==
  ASSUME NEW f, NEW g, NEW a, NEW b, NEW refs, NEW n \in Nat, NEW m \in Nat, n <= m,
         Gathers(f, a, refs, n), Gathers(g, b, refs, m), SameUpTo(a, b, n)
  PROVE  f[n] = g[n]
  <1> DEFINE Bad == {i \in 0..n : f[i] # g[i]}
  <1> SUFFICES ASSUME Bad # {} PROVE FALSE OBVIOUS
  <1>0. Bad \subseteq Nat OBVIOUS
  <1>1. PICK i \in Bad : \A y \in Bad : i <= y BY <1>0, NatMin
  <1>2. i \in Nat /\ i \in 0..n /\ f[i] # g[i] OBVIOUS
  <1>3. i # 0 BY <1>2, GathersStep
  <1>4. i \in 1..n /\ i \in 1..m /\ i - 1 \in 0..n /\ ~(i <= i - 1) BY <1>2, <1>3
  <1>5. f[i - 1] = g[i - 1] BY <1>1, <1>4
  <1>6. f[i] = ColumnsStep(a, refs, f[i - 1], i) BY <1>4, GathersStep
  <1>7. g[i] = ColumnsStep(b, refs, g[i - 1], i) BY <1>4, GathersStep
  <1>8. a[i] = b[i] BY <1>4 DEF SameUpTo
  <1> QED BY <1>2, <1>5, <1>6, <1>7, <1>8 DEF ColumnsStep

(* Rows of other tables say nothing. *)
LEMMA GathersSkip ==
  ASSUME NEW g, NEW b, NEW refs, NEW n \in Nat, NEW m \in Nat, n <= m,
         Gathers(g, b, refs, m), NoneAfter(b, refs, n, m)
  PROVE  g[m] = g[n]
  <1> DEFINE Bad == {i \in n..m : g[i] # g[n]}
  <1> SUFFICES ASSUME Bad # {} PROVE FALSE OBVIOUS
  <1>0. Bad \subseteq Nat OBVIOUS
  <1>1. PICK i \in Bad : \A y \in Bad : i <= y BY <1>0, NatMin
  <1>2. i \in Nat /\ i \in n..m /\ g[i] # g[n] OBVIOUS
  <1>3. i # n BY <1>2
  <1>4. i \in (n + 1)..m /\ i \in 1..m /\ i - 1 \in n..m /\ ~(i <= i - 1) BY <1>2, <1>3
  <1>5. g[i - 1] = g[n] BY <1>1, <1>4
  <1>6. g[i] = ColumnsStep(b, refs, g[i - 1], i) BY <1>4, GathersStep
  <1>7. b[i].ref \notin refs BY <1>4 DEF NoneAfter
  <1> QED BY <1>2, <1>5, <1>6, <1>7 DEF ColumnsStep

AreLoaded(cols, b, n, k) ==
  IsSeq(cols) /\ Len(cols) = k /\ \A j \in 1..k : cols[j] = LoadedColumn(b[n + j])

(* Rows of the table give one column each. *)
LEMMA GathersAll ==
  ASSUME NEW g, NEW b, NEW refs, NEW n \in Nat, NEW k \in Nat,
         Gathers(g, b, refs, n + k), g[n] = <<>>, \A i \in 1..k : b[n + i].ref \in refs
  PROVE  AreLoaded(g[n + k], b, n, k)
  <1> DEFINE Bad == {i \in 0..k : ~AreLoaded(g[n + i], b, n, i)}
  <1> SUFFICES ASSUME Bad # {} PROVE FALSE
    <2>1. k \in 0..k OBVIOUS
    <2> QED BY <2>1
  <1>0. Bad \subseteq Nat OBVIOUS
  <1>1. PICK i \in Bad : \A y \in Bad : i <= y BY <1>0, NatMin
  <1>2. i \in Nat /\ i \in 0..k /\ ~AreLoaded(g[n + i], b, n, i) OBVIOUS
  <1>3. CASE i = 0
    <2>1. g[n + i] = <<>> BY <1>3
    <2>2. AreLoaded(<<>>, b, n, 0) BY EmptyIsSeq DEF AreLoaded
    <2> QED BY <1>2, <1>3, <2>1, <2>2
  <1>4. CASE i # 0
    <2>1. i - 1 \in 0..k /\ i - 1 \in Nat /\ ~(i <= i - 1) /\ i \in 1..k /\ (i - 1) + 1 = i
      BY <1>2, <1>4
    <2>2. AreLoaded(g[n + (i - 1)], b, n, i - 1) BY <1>1, <2>1
    <2>3. n + k \in Nat /\ n + i \in 1..(n + k) /\ (n + i) - 1 = n + (i - 1) BY <2>1
    <2>4. g[n + i] = ColumnsStep(b, refs, g[(n + i) - 1], n + i) BY <2>3, GathersStep
    <2>5. b[n + i].ref \in refs BY <2>1
    <2>6. PICK old : old = g[n + (i - 1)] OBVIOUS
    <2>7. PICK c : c = LoadedColumn(b[n + i]) OBVIOUS
    <2>8. g[n + i] = Append(old, c) BY <2>3, <2>4, <2>5, <2>6, <2>7 DEF ColumnsStep
    <2>9. IsSeq(old) /\ Len(old) = i - 1 /\ \A j \in 1..(i - 1) : old[j] = LoadedColumn(b[n + j])
      BY <2>2, <2>6 DEF AreLoaded
    <2>10. /\ IsSeq(Append(old, c)) /\ Len(Append(old, c)) = i /\ Append(old, c)[i] = c
           /\ \A j \in 1..(i - 1) : Append(old, c)[j] = old[j]
      BY <2>1, <2>9, AppendIsSeq
    <2>11. \A j \in 1..i : j = i \/ j \in 1..(i - 1) BY <2>1
    <2>12. AreLoaded(Append(old, c), b, n, i) BY <2>7, <2>9, <2>10, <2>11 DEF AreLoaded
    <2> QED BY <1>2, <2>8, <2>12
  <1> QED BY <1>3, <1>4

(* Rows of other tables at the end change nothing. *)
LEMMA LoadColumnsOther ==
  ASSUME NEW p, NEW q, NEW new, IsSeq(p.columns), IsSeq(new), q.columns = p.columns \o new,
         NEW ref, \A row \in ToSet(new) : row.ref \notin Selected(ref)
  PROVE  LoadColumns(q, ref) = LoadColumns(p, ref)
  <1> PICK S : S = Selected(ref) OBVIOUS
  <1> PICK a : a = p.columns OBVIOUS
  <1> PICK b : b = q.columns OBVIOUS
  <1> PICK n : n = Len(a) OBVIOUS
  <1> PICK m : m = Len(b) OBVIOUS
  <1>1. n \in Nat /\ Len(new) \in Nat BY SeqFacts
  <1>2. m = n + Len(new) /\ (\A i \in 1..n : b[i] = a[i]) /\ \A i \in 1..Len(new) : b[n + i] = new[i]
    BY ConcatIsSeq
  <1>3. m \in Nat /\ n <= m BY <1>1, <1>2
  <1>4. PICK f : Gathers(f, a, S, n) /\ LoadColumns(p, ref) = f[n] BY <1>1, LoadColumnsIs
  <1>5. PICK g : Gathers(g, b, S, m) /\ LoadColumns(q, ref) = g[m] BY <1>3, LoadColumnsIs
  <1>s. SameUpTo(a, b, n) BY <1>2 DEF SameUpTo
  <1>6. f[n] = g[n] BY <1>1, <1>3, <1>4, <1>5, <1>s, GathersAgree, ZenonT(30)
  <1>7. ASSUME NEW i \in (n + 1)..m PROVE b[i].ref \notin S
    <2>1. i - n \in 1..Len(new) /\ n + (i - n) = i BY <1>1, <1>2
    <2>2. b[i] = new[i - n] BY <1>2, <2>1
    <2>3. new[i - n] \in ToSet(new) BY <2>1, SeqFacts
    <2> QED BY <2>2, <2>3
  <1>t. NoneAfter(b, S, n, m) BY <1>7 DEF NoneAfter
  <1>8. g[m] = g[n] BY <1>1, <1>3, <1>5, <1>t, GathersSkip
  <1> QED BY <1>4, <1>5, <1>6, <1>8

(* A table without rows so far gets the columns of the rows at the end. *)
LEMMA LoadColumnsNew ==
  ASSUME NEW p, NEW q, NEW new, IsSeq(p.columns), IsSeq(new), q.columns = p.columns \o new,
         NEW ref, \A row \in ToSet(p.columns) : row.ref \notin Selected(ref),
         \A row \in ToSet(new) : row.ref \in Selected(ref)
  PROVE  AreLoaded(LoadColumns(q, ref), new, 0, Len(new))
  <1> PICK S : S = Selected(ref) OBVIOUS
  <1> PICK a : a = p.columns OBVIOUS
  <1> PICK b : b = q.columns OBVIOUS
  <1> PICK n : n = Len(a) OBVIOUS
  <1> PICK k : k = Len(new) OBVIOUS
  <1>1. n \in Nat /\ k \in Nat BY SeqFacts
  <1>2. Len(b) = n + k /\ (\A i \in 1..n : b[i] = a[i]) /\ \A i \in 1..k : b[n + i] = new[i]
    BY ConcatIsSeq
  <1>3. n + k \in Nat /\ n <= n + k BY <1>1
  <1>4. PICK g : Gathers(g, b, S, n + k) /\ LoadColumns(q, ref) = g[n + k]
    <2>1. Len(q.columns) = n + k /\ Len(q.columns) \in Nat BY <1>2, <1>3
    <2>2. \E f : Gathers(f, q.columns, S, Len(q.columns)) /\ LoadColumns(q, ref) = f[Len(q.columns)]
      BY <2>1, LoadColumnsIs
    <2> QED BY <2>1, <2>2
  <1>5. \A i \in 1..n : a[i] \in ToSet(a) BY SeqFacts
  <1>6. \A i \in 1..n : b[i].ref \notin S BY <1>2, <1>5
  <1>7. PICK f : Gathers(f, b, S, n) BY <1>1, GathersExists
  <1>s. SameUpTo(b, b, n) BY DEF SameUpTo
  <1>8. f[n] = g[n]
    <2>1. PICK m \in Nat : m = n + k BY <1>3
    <2>2. Gathers(g, b, S, m) /\ n <= m BY <1>3, <1>4, <2>1
    <2> QED BY <1>1, <1>7, <1>s, <2>2, GathersAgree
  <1>9. NoneAfter(b, S, 0, n) BY <1>1, <1>6 DEF NoneAfter
  <1>z. 0 <= n /\ 0 \in Nat BY <1>1
  <1>10. f[n] = f[0] BY <1>1, <1>7, <1>9, <1>z, GathersSkip
  <1>11. f[0] = <<>> BY <1>1, <1>7, GathersStep
  <1>12. \A i \in 1..k : new[i] \in ToSet(new) BY SeqFacts
  <1>13. \A i \in 1..k : b[n + i].ref \in S BY <1>2, <1>12
  <1>14. AreLoaded(g[n + k], b, n, k) BY <1>1, <1>4, <1>8, <1>10, <1>11, <1>13, GathersAll, ZenonT(30)
  <1>15. \A j \in 1..k : b[n + j] = new[0 + j] BY <1>1, <1>2, SMTT(30)
  <1>16. AreLoaded(g[n + k], new, 0, k) BY <1>14, <1>15 DEF AreLoaded
  <1> QED BY <1>4, <1>16

(* Whatever a query returns, it gives columns without a relation. *)
Bare(cols) == IsSeq(cols) /\ \A c \in ToSet(cols) : c = Column(NoRelation, c.name, c.type)

LEMMA LoadColumnsBare ==
  ASSUME NEW p, IsSeq(p.columns), NEW ref
  PROVE  Bare(LoadColumns(p, ref))
  <1> PICK refs : refs = Selected(ref) OBVIOUS
  <1> PICK rows : rows = p.columns OBVIOUS
  <1> PICK n : n = Len(rows) OBVIOUS
  <1>1. n \in Nat BY SeqFacts
  <1>2. PICK f : Gathers(f, rows, refs, n) /\ LoadColumns(p, ref) = f[n] BY <1>1, LoadColumnsIs
  <1> DEFINE Bad == {i \in 0..n : ~Bare(f[i])}
  <1> SUFFICES ASSUME Bad # {} PROVE FALSE
    <2>1. n \in 0..n BY <1>1
    <2> QED BY <1>2, <2>1
  <1>3. Bad \subseteq Nat OBVIOUS
  <1>4. PICK i \in Bad : \A y \in Bad : i <= y BY <1>3, NatMin
  <1>5. i \in Nat /\ i \in 0..n /\ ~Bare(f[i]) OBVIOUS
  <1>6. i # 0
    <2>1. f[0] = <<>> BY <1>1, <1>2, GathersStep
    <2>2. Bare(<<>>) BY EmptyIsSeq DEF Bare
    <2> QED BY <1>5, <2>1, <2>2
  <1>7. i \in 1..n /\ i - 1 \in 0..n /\ ~(i <= i - 1) BY <1>1, <1>5, <1>6
  <1>8. Bare(f[i - 1]) BY <1>4, <1>7
  <1>9. PICK old : old = f[i - 1] OBVIOUS
  <1>10. PICK c : c = LoadedColumn(rows[i]) OBVIOUS
  <1>11. f[i] = ColumnsStep(rows, refs, old, i) BY <1>1, <1>2, <1>7, <1>9, GathersStep
  <1>12. f[i] = old \/ f[i] = Append(old, c) BY <1>10, <1>11 DEF ColumnsStep
  <1>13. c = Column(NoRelation, c.name, c.type)
    <2>1. PICK t : t = FromSql(rows[i].type) OBVIOUS
    <2>2. c = Column(NoRelation, rows[i].name, t) BY <1>10, <2>1 DEF LoadedColumn
    <2>3. c.name = rows[i].name /\ c.type = t BY <2>2 DEF Column
    <2> QED BY <2>2, <2>3
  <1>14. IsSeq(old) /\ \A x \in ToSet(old) : x = Column(NoRelation, x.name, x.type)
    BY <1>8, <1>9 DEF Bare
  <1>15. IsSeq(Append(old, c)) /\ ToSet(Append(old, c)) = ToSet(old) \cup {c} BY <1>14, AppendIsSeq
  <1>16. Bare(Append(old, c)) BY <1>13, <1>14, <1>15 DEF Bare
  <1> QED BY <1>5, <1>8, <1>9, <1>12, <1>16

LEMMA LoadColumnsSame ==
  ASSUME NEW p, NEW q, p.columns = q.columns, NEW ref
  PROVE  LoadColumns(q, ref) = LoadColumns(p, ref)
  BY DEF LoadColumns

(***************************************************************************)
(* The empty database, and writing the roots into the rows of the indexes. *)
(***************************************************************************)

LEMMA DbRecord ==
  ASSUME NEW s, NEW t, NEW p, NEW d, d = [schemas |-> s, tables |-> t, pages |-> p]
  PROVE  d.schemas = s /\ d.tables = t /\ d.pages = p
  OBVIOUS

LEMMA PagesRecord ==
  ASSUME NEW h, NEW tr, NEW s, NEW t, NEW c, NEW x, NEW p,
         p = [heaps |-> h, trees |-> tr, schemas |-> s, tables |-> t, columns |-> c, indexes |-> x]
  PROVE  /\ p.heaps = h /\ p.trees = tr /\ p.schemas = s
         /\ p.tables = t /\ p.columns = c /\ p.indexes = x
  OBVIOUS

LEMMA EmptyOK == DbOK(Load(EmptyPages)) /\ Synced(Load(EmptyPages))
  <1> PICK p : p = LoadSchemas(EmptyPages) OBVIOUS
  <1> PICK d : d = Load(EmptyPages) OBVIOUS
  <1> PICK t : t = LoadUserTables(p) OBVIOUS
  <1> PICK s : s = Append(<<>>, DefaultSchema) OBVIOUS
  <1>1. EmptyPages.schemas = <<>> BY DEF EmptyPages
  <1>2. DefaultSchema \notin ToSet(EmptyPages.schemas) BY <1>1, EmptyIsSeq
  <1>3. p = [EmptyPages EXCEPT !.schemas = Append(@, DefaultSchema)] BY <1>2 DEF LoadSchemas
  <1>4. p = [heaps |-> <<>>, trees |-> NoFunction, schemas |-> s,
             tables |-> <<>>, columns |-> <<>>, indexes |-> <<>>]
    BY <1>3 DEF EmptyPages
  <1>5. /\ p.heaps = <<>> /\ p.schemas = s /\ p.tables = <<>> /\ p.columns = <<>> /\ p.indexes = <<>>
    BY <1>4, PagesRecord
  <1>6. IsSeq(s) /\ ToSet(s) = {DefaultSchema}
    <2>1. IsSeq(s) /\ ToSet(s) = ToSet(<<>>) \cup {DefaultSchema} BY EmptyIsSeq, AppendIsSeq
    <2> QED BY <2>1, EmptyIsSeq
  <1>7. p.trees = NoFunction BY <1>4, PagesRecord
  <1>8. PagesShape(p) BY <1>4, <1>5, <1>6, <1>7, EmptyIsSeq DEF PagesShape
  <1>9. DOMAIN t = {} BY <1>5, EmptyIsSeq DEF LoadUserTables
  <1>10. d = [schemas |-> ToSet(p.schemas) \cup {InformationSchema}, tables |-> t, pages |-> p]
    BY DEF Load
  <1>11. d.schemas = ToSet(p.schemas) \cup {InformationSchema} /\ d.tables = t /\ d.pages = p
    BY <1>10, DbRecord
  <1>a. t = [ref \in DOMAIN t |-> t[ref]] BY DEF LoadUserTables
  <1>12. Shape(d) BY <1>8, <1>9, <1>10, <1>11, <1>a DEF Shape
  <1>13. SchemasOK(d.schemas, d.pages) BY <1>5, <1>6, <1>11 DEF SchemasOK
  <1>14. TablesOK(d.schemas, d.tables, d.pages) BY <1>5, <1>9, <1>11, EmptyIsSeq DEF TablesOK
  <1>15. ColumnsOK(d.tables, d.pages) BY <1>5, <1>9, <1>11, EmptyIsSeq DEF ColumnsOK
  <1>16. IndexesOK(d.tables, d.pages) BY <1>5, <1>9, <1>11, EmptyIsSeq DEF IndexesOK, OneKey
  <1>17. TreesOK(d.tables, d.pages) BY <1>9, <1>11 DEF TreesOK
  <1>18. Synced(d) BY <1>5, <1>11, EmptyIsSeq DEF Synced
  <1> QED BY <1>12, <1>13, <1>14, <1>15, <1>16, <1>17, <1>18 DEF DbOK

SyncedRow(tables, row) ==
  [ref |-> row.ref, index |-> row.index, key |-> row.key,
   root |-> tables[row.ref].indexes[row.index].root]

SetRoot(row, root) == [row EXCEPT !.root = root]

LEMMA SyncRow ==
  ASSUME NEW tables, NEW row, IndexRowOK(tables, row)
  PROVE  /\ row.index \in DOMAIN tables[row.ref].indexes
         /\ SetRoot(row, tables[row.ref].indexes[row.index].root) = SyncedRow(tables, row)
         /\ IndexRowOK(tables, SyncedRow(tables, row))
         /\ SyncedRow(tables, row).ref = row.ref /\ SyncedRow(tables, row).index = row.index
         /\ SyncedRow(tables, row).key = row.key
         /\ SyncedRow(tables, row).root = tables[row.ref].indexes[row.index].root
  <1>1. row = [ref |-> row.ref, index |-> row.index, key |-> row.key, root |-> row.root]
        /\ row.index \in DOMAIN tables[row.ref].indexes
    BY DEF IndexRowOK
  <1>2. PICK r : r = SyncedRow(tables, row) OBVIOUS
  <1>3. /\ r = [ref |-> row.ref, index |-> row.index, key |-> row.key,
                root |-> tables[row.ref].indexes[row.index].root]
    BY <1>2 DEF SyncedRow
  <1>4. r.ref = row.ref /\ r.index = row.index /\ r.key = row.key
        /\ r.root = tables[row.ref].indexes[row.index].root
    BY <1>3
  <1>5. r = [ref |-> r.ref, index |-> r.index, key |-> r.key, root |-> r.root] BY <1>3, <1>4
  <1>6. IndexRowOK(tables, r) BY <1>4, <1>5 DEF IndexRowOK
  <1>7. SetRoot(row, tables[row.ref].indexes[row.index].root) = r BY <1>1, <1>3 DEF SetRoot
  <1> QED BY <1>1, <1>2, <1>4, <1>6, <1>7

LEMMA SyncIs ==
  ASSUME NEW d, DbOK(d)
  PROVE  \E e, x, p :
           /\ e = SyncIndexRoots(d)
           /\ x = [i \in 1..Len(d.pages.indexes) |-> SyncedRow(d.tables, d.pages.indexes[i])]
           /\ p = [heaps |-> d.pages.heaps, trees |-> d.pages.trees, schemas |-> d.pages.schemas,
                   tables |-> d.pages.tables, columns |-> d.pages.columns, indexes |-> x]
           /\ e = [schemas |-> d.schemas, tables |-> d.tables, pages |-> p]
  <1> PICK tables : tables = d.tables OBVIOUS
  <1> PICK pages : pages = d.pages OBVIOUS
  <1> PICK old : old = pages.indexes OBVIOUS
  <1>1. d = [schemas |-> d.schemas, tables |-> tables, pages |-> pages] /\ PagesShape(pages)
        /\ IndexesOK(tables, pages)
    BY DEF DbOK, Shape
  <1>2. IsSeq(old) /\ pages = [heaps |-> pages.heaps, trees |-> pages.trees, schemas |-> pages.schemas,
                      tables |-> pages.tables, columns |-> pages.columns, indexes |-> old]
    BY <1>1 DEF PagesShape
  <1>3. DOMAIN old = 1..Len(old) /\ \A i \in 1..Len(old) : old[i] \in ToSet(old) BY <1>2, SeqFacts
  <1>4. \A i \in 1..Len(old) : IndexRowOK(tables, old[i]) BY <1>1, <1>3 DEF IndexesOK
  <1>5. PICK x : x = [i \in 1..Len(old) |-> SyncedRow(tables, old[i])] OBVIOUS
  <1>6. PICK y : y = [i \in DOMAIN old |->
                 IF old[i].index \in DOMAIN tables[old[i].ref].indexes
                 THEN [old[i] EXCEPT !.root = tables[old[i].ref].indexes[old[i].index].root]
                 ELSE old[i]]
    OBVIOUS
  <1>7. x = y
    <2>1. DOMAIN y = 1..Len(old) BY <1>3, <1>6
    <2>2. ASSUME NEW i \in 1..Len(old) PROVE y[i] = x[i]
      <3>r. PICK r : r = old[i] OBVIOUS
      <3>1. IndexRowOK(tables, r) BY <1>4, <3>r
      <3>a. /\ r.index \in DOMAIN tables[r.ref].indexes
            /\ SetRoot(r, tables[r.ref].indexes[r.index].root) = SyncedRow(tables, r)
        BY <3>1, SyncRow
      <3>2. /\ old[i].index \in DOMAIN tables[old[i].ref].indexes
            /\ [old[i] EXCEPT !.root = tables[old[i].ref].indexes[old[i].index].root] = SyncedRow(tables, old[i])
        BY <3>r, <3>a DEF SetRoot
      <3>3. y[i] = [old[i] EXCEPT !.root = tables[old[i].ref].indexes[old[i].index].root]
        BY <1>3, <1>6, <3>2
      <3> QED BY <1>5, <3>2, <3>3
    <2>3. x = [i \in 1..Len(old) |-> x[i]] BY <1>5
    <2>4. y = [i \in 1..Len(old) |-> y[i]] BY <1>6, <2>1
    <2> QED BY <2>2, <2>3, <2>4
  <1>8. SyncIndexRoots(d) = [d EXCEPT !.pages.indexes = y] BY <1>6 DEF SyncIndexRoots, TableIndexes
  <1>9. PICK p : p = [heaps |-> pages.heaps, trees |-> pages.trees, schemas |-> pages.schemas,
                   tables |-> pages.tables, columns |-> pages.columns, indexes |-> x]
    OBVIOUS
  <1>10. p = [pages EXCEPT !.indexes = y] BY <1>2, <1>7, <1>9
  <1>11. [d EXCEPT !.pages.indexes = y] = [schemas |-> d.schemas, tables |-> tables, pages |-> p]
    BY <1>1, <1>10
  <1> QED BY <1>5, <1>8, <1>9, <1>11

(* The database is as before, but for the roots in the rows. *)
LEMMA SyncOK ==
  ASSUME NEW d, DbOK(d)
  PROVE  /\ DbOK(SyncIndexRoots(d)) /\ Synced(SyncIndexRoots(d))
         /\ SyncIndexRoots(d).schemas = d.schemas /\ SyncIndexRoots(d).tables = d.tables
  <1>1. PICK e, x, p :
           /\ e = SyncIndexRoots(d)
           /\ x = [i \in 1..Len(d.pages.indexes) |-> SyncedRow(d.tables, d.pages.indexes[i])]
           /\ p = [heaps |-> d.pages.heaps, trees |-> d.pages.trees, schemas |-> d.pages.schemas,
                   tables |-> d.pages.tables, columns |-> d.pages.columns, indexes |-> x]
           /\ e = [schemas |-> d.schemas, tables |-> d.tables, pages |-> p]
    BY SyncIs
  <1>2. e.schemas = d.schemas /\ e.tables = d.tables /\ e.pages = p BY <1>1, DbRecord
  <1>3. /\ p.heaps = d.pages.heaps /\ p.trees = d.pages.trees /\ p.schemas = d.pages.schemas
        /\ p.tables = d.pages.tables /\ p.columns = d.pages.columns /\ p.indexes = x
    BY <1>1, PagesRecord
  <1> PICK tables : tables = d.tables OBVIOUS
  <1> PICK old : old = d.pages.indexes OBVIOUS
  <1>4. /\ IsSeq(old) /\ IndexesOK(tables, d.pages) /\ Shape(d) /\ PagesShape(d.pages)
        /\ SchemasOK(d.schemas, d.pages) /\ TablesOK(d.schemas, tables, d.pages)
        /\ ColumnsOK(tables, d.pages) /\ TreesOK(tables, d.pages)
    BY DEF DbOK, Shape, PagesShape
  <1>5. /\ Len(old) \in Nat /\ \A i \in 1..Len(old) : old[i] \in ToSet(old)
        /\ \A r \in ToSet(old) : \E i \in 1..Len(old) : old[i] = r
    BY <1>4, SeqFacts
  <1>6. x = [i \in 1..Len(old) |-> SyncedRow(tables, old[i])] BY <1>1
  <1>7. IsSeq(x) /\ Len(x) = Len(old)
    <2>1. x = [i \in 1..Len(old) |-> x[i]] BY <1>6
    <2> QED BY <1>5, <2>1, FunctionIsSeq
  <1>8. /\ \A i \in 1..Len(old) : x[i] \in ToSet(x)
        /\ \A r \in ToSet(x) : \E i \in 1..Len(old) : x[i] = r
    BY <1>7, SeqFacts
  <1>9. \A r \in ToSet(old) : IndexRowOK(tables, r) BY <1>4 DEF IndexesOK
  <1>10. ASSUME NEW r \in ToSet(x)
         PROVE  IndexRowOK(tables, r) /\ r.root = tables[r.ref].indexes[r.index].root
    <2>1. PICK i \in 1..Len(old) : r = SyncedRow(tables, old[i]) BY <1>6, <1>8
    <2>2. PICK o : o = old[i] OBVIOUS
    <2>3. IndexRowOK(tables, o) BY <1>5, <1>9, <2>2
    <2>4. /\ IndexRowOK(tables, SyncedRow(tables, o))
          /\ SyncedRow(tables, o).ref = o.ref /\ SyncedRow(tables, o).index = o.index
          /\ SyncedRow(tables, o).root = tables[o.ref].indexes[o.index].root
      BY <2>3, SyncRow
    <2> QED BY <2>1, <2>2, <2>4
  <1>11. ASSUME NEW r \in ToSet(old) PROVE \E s \in ToSet(x) : s.ref = r.ref /\ s.index = r.index
    <2>1. PICK i \in 1..Len(old) : old[i] = r BY <1>5
    <2>2. x[i] = SyncedRow(tables, r) /\ x[i] \in ToSet(x) BY <1>6, <1>8, <2>1
    <2>3. IndexRowOK(tables, r) BY <1>9
    <2>4. x[i].ref = r.ref /\ x[i].index = r.index BY <2>2, <2>3, SyncRow
    <2> QED BY <2>2, <2>4
  <1>12. IndexesOK(e.tables, e.pages)
    <2>1. ASSUME NEW ref \in DOMAIN tables, NEW n \in DOMAIN tables[ref].indexes
          PROVE  \E row \in ToSet(x) : row.ref = ref /\ row.index = n
      <3>1. PICK r \in ToSet(old) : r.ref = ref /\ r.index = n BY <1>4 DEF IndexesOK
      <3> QED BY <1>11, <3>1
    <2>2. ASSUME NEW r \in ToSet(x)
          PROVE  \E o \in ToSet(old) : o.ref = r.ref /\ o.index = r.index /\ o.key = r.key
      <3>1. PICK i \in 1..Len(old) : r = SyncedRow(tables, old[i]) BY <1>6, <1>8
      <3>2. PICK o : o = old[i] OBVIOUS
      <3>3. o \in ToSet(old) /\ IndexRowOK(tables, o) BY <1>5, <1>9, <3>2
      <3>4. SyncedRow(tables, o).ref = o.ref /\ SyncedRow(tables, o).index = o.index
            /\ SyncedRow(tables, o).key = o.key
        BY <3>3, SyncRow
      <3> QED BY <3>1, <3>2, <3>3, <3>4
    <2>3. OneKey(old) BY <1>4 DEF IndexesOK
    <2>4. OneKey(x) BY <2>2, <2>3 DEF OneKey
    <2> QED BY <1>2, <1>3, <1>10, <2>1, <2>4 DEF IndexesOK
  <1>13. Synced(e) BY <1>2, <1>3, <1>10 DEF Synced
  <1>14. PagesShape(p) BY <1>1, <1>3, <1>4, <1>7 DEF PagesShape
  <1>15. Shape(e) BY <1>1, <1>2, <1>4, <1>14 DEF Shape
  <1>16. SchemasOK(e.schemas, e.pages) BY <1>2, <1>3, <1>4 DEF SchemasOK
  <1>17. TablesOK(e.schemas, e.tables, e.pages) BY <1>2, <1>3, <1>4 DEF TablesOK
  <1>18. \A ref : LoadColumns(p, ref) = LoadColumns(d.pages, ref) BY <1>3, LoadColumnsSame
  <1>19. ColumnsOK(e.tables, e.pages) BY <1>2, <1>3, <1>4, <1>18 DEF ColumnsOK, ColumnsOf
  <1>20. TreesOK(e.tables, e.pages) BY <1>2, <1>3, <1>4 DEF TreesOK
  <1> QED BY <1>1, <1>2, <1>12, <1>13, <1>15, <1>16, <1>17, <1>19, <1>20 DEF DbOK

(***************************************************************************)
(* What a copy loads.                                                      *)
(***************************************************************************)

LoadedKey(loaded, names) ==
  [j \in DOMAIN names |-> loaded[IndexOf(loaded, NoRelation, names[j])]]

(* The names of a key schema are those that it was looked up by. *)
LEMMA KeyedName ==
  ASSUME NEW cols, NEW names, NEW key, Keyed(cols, names, key), NEW j \in DOMAIN names
  PROVE  /\ DOMAIN key = DOMAIN names
         /\ IndexOf(cols, NoRelation, names[j]) \in 1..Len(cols)
         /\ key[j] = cols[IndexOf(cols, NoRelation, names[j])]
         /\ key[j].name = names[j]
  <1>1. IndexOf(cols, NoRelation, names[j]) # 0 BY DEF Keyed
  <1>2. DOMAIN key = DOMAIN names /\ key[j] = cols[IndexOf(cols, NoRelation, names[j])] BY DEF Keyed
  <1>3. PICK p : p = IndexOf(cols, NoRelation, names[j]) OBVIOUS
  <1>4. p \in Matching(cols, NoRelation, names[j]) BY <1>1, <1>3, IndexOfFinds
  <1>5. p \in 1..Len(cols) /\ cols[p].name = names[j] BY <1>4 DEF Matching
  <1> QED BY <1>2, <1>3, <1>5

(* A column that is not a DOUBLE is loaded as it was, but for its relation. *)
LEMMA LoadedIsUnqualified ==
  ASSUME NEW loaded, NEW cols, Describes(loaded, cols), \A c \in ToSet(cols) : c.type # "Float64"
  PROVE  loaded = Unqualified(cols)
  <1>1. IsSeq(loaded) /\ IsSeq(cols) /\ Len(loaded) = Len(cols) BY DEF Describes
  <1>a. \A i \in 1..Len(cols) : cols[i].type # "Float64" BY <1>1, SeqFacts
  <1>2. \A i \in 1..Len(cols) : loaded[i] = Column(NoRelation, cols[i].name, cols[i].type)
    BY <1>a DEF Describes
  <1>3. DOMAIN cols = 1..Len(cols) /\ loaded = [i \in 1..Len(cols) |-> loaded[i]] BY <1>1, SeqFacts
  <1>4. Unqualified(cols) = [i \in 1..Len(cols) |-> Column(NoRelation, cols[i].name, cols[i].type)]
    BY <1>3 DEF Unqualified
  <1> QED BY <1>2, <1>3, <1>4

LEMMA LoadedKeyIsUnqualified ==
  ASSUME NEW loaded, NEW cols, Describes(loaded, cols), \A c \in ToSet(cols) : c.type # "Float64",
         NEW names, NEW key, Keyed(cols, names, key)
  PROVE  LoadedKey(loaded, names) = Unqualified(key)
  <1>1. DOMAIN key = DOMAIN names BY DEF Keyed
  <1>a. IsSeq(cols) BY DEF Describes
  <1>b. \A i \in 1..Len(cols) : cols[i].type # "Float64" BY <1>a, SeqFacts
  <1>2. ASSUME NEW j \in DOMAIN names
        PROVE  loaded[IndexOf(loaded, NoRelation, names[j])] = Column(NoRelation, key[j].name, key[j].type)
    <2>1. PICK p : p = IndexOf(cols, NoRelation, names[j]) OBVIOUS
    <2>2. p \in 1..Len(cols) /\ key[j] = cols[p] BY <2>1, KeyedName
    <2>3. IndexOf(loaded, NoRelation, names[j]) = p BY <2>1, IndexOfByName
    <2>4. loaded[p] = Column(NoRelation, cols[p].name, cols[p].type) BY <1>b, <2>2 DEF Describes
    <2> QED BY <2>2, <2>3, <2>4
  <1> QED BY <1>1, <1>2 DEF LoadedKey, Unqualified

(* What a query returned describes itself. *)
LEMMA BareDescribed ==
  ASSUME NEW loaded, Bare(loaded)
  PROVE  Describes(loaded, loaded)
  <1>1. IsSeq(loaded) BY DEF Bare
  <1>2. \A i \in 1..Len(loaded) : loaded[i] = Column(NoRelation, loaded[i].name, loaded[i].type)
    BY <1>1, SeqFacts DEF Bare
  <1> QED BY <1>1, <1>2 DEF Describes

(* Columns with different names are loaded with different names. *)
LEMMA LoadedDistinct ==
  ASSUME NEW loaded, NEW cols, Describes(loaded, cols), Distinct(Names(cols))
  PROVE  Distinct(Names(loaded))
  <1>1. DOMAIN cols = 1..Len(cols) /\ DOMAIN loaded = 1..Len(cols) BY SeqFacts DEF Describes
  <1>2. \A i \in 1..Len(cols) : loaded[i].name = cols[i].name BY DEF Describes
  <1>3. Names(loaded) = Names(cols) BY <1>1, <1>2 DEF Names
  <1> QED BY <1>3

(* The indexes that a copy gives a table. *)
LEMMA LoadUserIndexesIs ==
  ASSUME NEW d, DbOK(d), Synced(d), NEW ref \in DOMAIN d.tables, NEW x,
         x = LoadUserIndexes(d.pages, ref)
  PROVE  /\ x = [n \in DOMAIN d.tables[ref].indexes |-> x[n]]
         /\ \A n \in DOMAIN d.tables[ref].indexes : \E row \in ToSet(d.pages.indexes) :
              /\ row.ref = ref /\ row.index = n
              /\ x[n] = [key |-> LoadedKey(LoadColumns(d.pages, ref), row.key),
                         root |-> d.tables[ref].indexes[n].root]
  <1> PICK p : p = d.pages OBVIOUS
  <1> PICK rows : rows = {r \in ToSet(p.indexes) : r.ref = ref} OBVIOUS
  <1> PICK idx : idx = d.tables[ref].indexes OBVIOUS
  <1>1. IndexesOK(d.tables, p) BY DEF DbOK
  <1>2. \A r \in rows : r \in ToSet(p.indexes) /\ r.ref = ref /\ r.index \in DOMAIN idx
    BY <1>1 DEF IndexesOK, IndexRowOK
  <1>3. \A n \in DOMAIN idx : \E r \in rows : r.index = n BY <1>1 DEF IndexesOK
  <1>4. {r.index : r \in rows} = DOMAIN idx BY <1>2, <1>3
  <1>5. x = [n \in {r.index : r \in rows} |-> LoadIndex(p, CHOOSE r \in rows : r.index = n)]
    BY DEF LoadUserIndexes
  <1>6. x = [n \in DOMAIN idx |-> LoadIndex(p, CHOOSE r \in rows : r.index = n)] BY <1>4, <1>5
  <1>7. ASSUME NEW n \in DOMAIN idx
        PROVE  \E row \in ToSet(p.indexes) :
                 /\ row.ref = ref /\ row.index = n
                 /\ x[n] = [key |-> LoadedKey(LoadColumns(p, ref), row.key), root |-> idx[n].root]
    <2>1. PICK row : row = CHOOSE r \in rows : r.index = n OBVIOUS
    <2>2. row \in rows /\ row.index = n BY <1>3, <2>1
    <2>3. row \in ToSet(p.indexes) /\ row.ref = ref BY <1>2, <2>2
    <2>4. row.root = idx[n].root BY <2>2, <2>3 DEF Synced
    <2>5. x[n] = LoadIndex(p, row) BY <1>6, <2>1
    <2>6. LoadIndex(p, row) = [key |-> LoadedKey(LoadColumns(p, ref), row.key), root |-> row.root]
      BY <2>3 DEF LoadIndex, LoadedKey
    <2> QED BY <2>2, <2>3, <2>4, <2>5, <2>6
  <1> QED BY <1>6, <1>7

LEMMA LoadIs ==
  ASSUME NEW d, DbOK(d)
  PROVE  /\ LoadSchemas(d.pages) = d.pages
         /\ Load(d.pages) = [schemas |-> d.schemas, tables |-> LoadUserTables(d.pages), pages |-> d.pages]
         /\ LoadUserTables(d.pages) =
              [ref \in DOMAIN d.tables |-> [cols |-> LoadColumns(d.pages, ref),
                                            heap |-> d.tables[ref].heap,
                                            indexes |-> LoadUserIndexes(d.pages, ref)]]
  <1> PICK p : p = d.pages OBVIOUS
  <1> PICK rows : rows = ToSet(p.tables) OBVIOUS
  <1>1. SchemasOK(d.schemas, p) /\ TablesOK(d.schemas, d.tables, p) BY DEF DbOK
  <1>2. LoadSchemas(p) = p BY <1>1 DEF SchemasOK, LoadSchemas
  <1>3. Load(p) = [schemas |-> d.schemas, tables |-> LoadUserTables(p), pages |-> p]
    BY <1>1, <1>2 DEF Load, SchemasOK
  <1>4. \A r \in rows : r.ref \in DOMAIN d.tables /\ r.heap = d.tables[r.ref].heap
    BY <1>1 DEF TablesOK
  <1>5. \A ref \in DOMAIN d.tables : \E r \in rows : r.ref = ref BY <1>1 DEF TablesOK
  <1>6. {r.ref : r \in rows} = DOMAIN d.tables BY <1>4, <1>5
  <1>7. \A ref \in DOMAIN d.tables : (CHOOSE r \in rows : r.ref = ref).heap = d.tables[ref].heap
    <2> SUFFICES ASSUME NEW ref \in DOMAIN d.tables
                 PROVE  (CHOOSE r \in rows : r.ref = ref).heap = d.tables[ref].heap
      OBVIOUS
    <2>1. PICK row : row = CHOOSE r \in rows : r.ref = ref OBVIOUS
    <2>2. row \in rows /\ row.ref = ref BY <1>5, <2>1
    <2> QED BY <1>4, <2>1, <2>2
  <1>8. LoadUserTables(p) =
          [ref \in DOMAIN d.tables |-> [cols |-> LoadColumns(p, ref),
                                        heap |-> (CHOOSE r \in rows : r.ref = ref).heap,
                                        indexes |-> LoadUserIndexes(p, ref)]]
    BY <1>6 DEF LoadUserTables
  <1>9. LoadUserTables(p) =
          [ref \in DOMAIN d.tables |-> [cols |-> LoadColumns(p, ref),
                                        heap |-> d.tables[ref].heap,
                                        indexes |-> LoadUserIndexes(p, ref)]]
    BY <1>7, <1>8
  <1> QED BY <1>2, <1>3, <1>9

(* t is what a copy with pages p makes of the table old. *)
LoadedAs(p, ref, old, t) ==
  /\ t = [cols |-> t.cols, heap |-> t.heap, indexes |-> t.indexes]
  /\ t.cols = LoadColumns(p, ref) /\ t.heap = old.heap
  /\ DOMAIN t.indexes = DOMAIN old.indexes
  /\ t.indexes = [n \in DOMAIN old.indexes |-> t.indexes[n]]
  /\ \A n \in DOMAIN old.indexes :
       /\ t.indexes[n] = [key |-> t.indexes[n].key, root |-> t.indexes[n].root]
       /\ t.indexes[n].root = old.indexes[n].root
       /\ \E row \in ToSet(p.indexes) :
            /\ row.ref = ref /\ row.index = n
            /\ t.indexes[n].key = LoadedKey(LoadColumns(p, ref), row.key)

LEMMA LoadedTable ==
  ASSUME NEW d, DbOK(d), Synced(d), NEW ref \in DOMAIN d.tables,
         NEW t, t = LoadUserTables(d.pages)[ref]
  PROVE  LoadedAs(d.pages, ref, d.tables[ref], t)
  <1> PICK x : x = LoadUserIndexes(d.pages, ref) OBVIOUS
  <1> PICK cols : cols = LoadColumns(d.pages, ref) OBVIOUS
  <1> PICK idx : idx = d.tables[ref].indexes OBVIOUS
  <1>1. t = [cols |-> cols, heap |-> d.tables[ref].heap, indexes |-> x] BY LoadIs
  <1>2. t.cols = cols /\ t.heap = d.tables[ref].heap /\ t.indexes = x BY <1>1
  <1>3. t = [cols |-> t.cols, heap |-> t.heap, indexes |-> t.indexes] BY <1>1, <1>2
  <1>4. /\ x = [n \in DOMAIN idx |-> x[n]]
        /\ \A n \in DOMAIN idx : \E row \in ToSet(d.pages.indexes) :
             /\ row.ref = ref /\ row.index = n
             /\ x[n] = [key |-> LoadedKey(cols, row.key), root |-> idx[n].root]
    BY LoadUserIndexesIs
  <1>5. DOMAIN x = DOMAIN idx BY <1>4
  <1>6. ASSUME NEW n \in DOMAIN idx
        PROVE  /\ x[n] = [key |-> x[n].key, root |-> x[n].root]
               /\ x[n].root = idx[n].root
               /\ \E row \in ToSet(d.pages.indexes) :
                    row.ref = ref /\ row.index = n /\ x[n].key = LoadedKey(cols, row.key)
    <2>1. PICK row \in ToSet(d.pages.indexes) :
             /\ row.ref = ref /\ row.index = n
             /\ x[n] = [key |-> LoadedKey(cols, row.key), root |-> idx[n].root]
      BY <1>4
    <2>2. PICK k : k = LoadedKey(cols, row.key) OBVIOUS
    <2>3. x[n].key = k /\ x[n].root = idx[n].root BY <2>1, <2>2
    <2>4. x[n] = [key |-> x[n].key, root |-> x[n].root] BY <2>1, <2>2, <2>3
    <2> QED BY <2>1, <2>2, <2>3, <2>4
  <1>7. ASSUME NEW n \in DOMAIN t.indexes
        PROVE  /\ t.indexes[n] = [key |-> t.indexes[n].key, root |-> t.indexes[n].root]
               /\ t.indexes[n].root = d.tables[ref].indexes[n].root
               /\ \E row \in ToSet(d.pages.indexes) :
                    /\ row.ref = ref /\ row.index = n
                    /\ t.indexes[n].key = LoadedKey(LoadColumns(d.pages, ref), row.key)
    <2>1. t.indexes[n] = x[n] /\ n \in DOMAIN idx BY <1>2, <1>5
    <2> QED BY <1>6, <2>1
  <1> QED BY <1>2, <1>3, <1>4, <1>5, <1>7 DEF LoadedAs

(* A copy of a database with its roots in the rows is a database like it, if it can be loaded. *)
LEMMA LoadOK ==
  ASSUME NEW d, DbOK(d), Synced(d), Loads(d.pages)
  PROVE  DbOK(Load(d.pages)) /\ Synced(Load(d.pages))
  <1> PICK p : p = d.pages OBVIOUS
  <1> PICK t : t = LoadUserTables(p) OBVIOUS
  <1> PICK e : e = Load(p) OBVIOUS
  <1> PICK old : old = d.tables OBVIOUS
  <1>1. e = [schemas |-> d.schemas, tables |-> t, pages |-> p] BY LoadIs
  <1>2. e.schemas = d.schemas /\ e.tables = t /\ e.pages = p BY <1>1, DbRecord
  <1>3. DOMAIN t = DOMAIN old BY LoadIs
  <1>4. /\ Shape(d) /\ SchemasOK(d.schemas, p) /\ TablesOK(d.schemas, old, p)
        /\ ColumnsOK(old, p) /\ IndexesOK(old, p) /\ TreesOK(old, p)
    BY DEF DbOK
  <1>5. ASSUME NEW ref \in DOMAIN old
        PROVE  /\ t[ref].cols = LoadColumns(p, ref) /\ t[ref].heap = old[ref].heap
               /\ DOMAIN t[ref].indexes = DOMAIN old[ref].indexes
    <2>1. PICK u : u = LoadUserTables(p)[ref] OBVIOUS
    <2>a. LoadedAs(p, ref, old[ref], u) BY <2>1, LoadedTable
    <2>2. /\ u.cols = LoadColumns(p, ref) /\ u.heap = old[ref].heap
          /\ DOMAIN u.indexes = DOMAIN old[ref].indexes
      BY <2>a DEF LoadedAs
    <2> QED BY <2>1, <2>2
  <1>6. ASSUME NEW ref \in DOMAIN old, NEW n \in DOMAIN old[ref].indexes
        PROVE  /\ t[ref].indexes[n].root = old[ref].indexes[n].root
               /\ \E row \in ToSet(p.indexes) :
                    /\ row.ref = ref /\ row.index = n
                    /\ t[ref].indexes[n].key = LoadedKey(LoadColumns(p, ref), row.key)
    <2>1. PICK u : u = LoadUserTables(p)[ref] OBVIOUS
    <2>a. LoadedAs(p, ref, old[ref], u) BY <2>1, LoadedTable
    <2>2. /\ u.indexes[n].root = old[ref].indexes[n].root
          /\ \E row \in ToSet(p.indexes) :
               /\ row.ref = ref /\ row.index = n
               /\ u.indexes[n].key = LoadedKey(LoadColumns(p, ref), row.key)
      BY <2>a DEF LoadedAs
    <2> QED BY <2>1, <2>2
  <1>s. ASSUME NEW ref \in DOMAIN old PROVE TableShape(t[ref])
    <2>1. PICK u : u = LoadUserTables(p)[ref] OBVIOUS
    <2>a. LoadedAs(p, ref, old[ref], u) BY <2>1, LoadedTable
    <2>2. TableShape(old[ref]) BY <1>4 DEF Shape
    <2>3. IsFiniteSet(DOMAIN old[ref].indexes) /\ DOMAIN old[ref].indexes \subseteq IndexName
      BY <2>2 DEF TableShape
    <2>4. /\ u = [cols |-> u.cols, heap |-> u.heap, indexes |-> u.indexes]
          /\ DOMAIN u.indexes = DOMAIN old[ref].indexes
          /\ \A n \in DOMAIN old[ref].indexes :
               u.indexes[n] = [key |-> u.indexes[n].key, root |-> u.indexes[n].root]
      BY <2>a DEF LoadedAs
    <2>5. TableShape(u) BY <2>3, <2>4 DEF TableShape
    <2> QED BY <2>1, <2>5
  <1>7. Shape(e)
    <2>1. PagesShape(p) /\ DOMAIN old \subseteq TableRef BY <1>4 DEF Shape
    <2>2. t = [ref \in DOMAIN t |-> t[ref]] BY DEF LoadUserTables
    <2> QED BY <1>1, <1>2, <1>3, <1>s, <2>1, <2>2 DEF Shape
  <1>8. SchemasOK(e.schemas, e.pages) BY <1>2, <1>4
  <1>9. TablesOK(e.schemas, e.tables, e.pages) BY <1>2, <1>3, <1>4, <1>5 DEF TablesOK
  <1>10. ASSUME NEW ref \in DOMAIN old PROVE ColumnsOf(p, ref, LoadColumns(p, ref))
    <2>1. IsSeq(p.columns) BY <1>4 DEF Shape, PagesShape
    <2>2. PICK L : L = LoadColumns(p, ref) OBVIOUS
    <2>3. Bare(L) BY <2>1, <2>2, LoadColumnsBare
    <2>4. IsSeq(L) /\ Describes(L, L) BY <2>3, BareDescribed DEF Bare
    <2>5. PICK row \in ToSet(p.tables) : row.ref = ref BY <1>4 DEF TablesOK
    <2>6. Distinct(Names(L)) BY <2>2, <2>5 DEF Loads
    <2> QED BY <2>2, <2>4, <2>6 DEF ColumnsOf
  <1>11. ColumnsOK(e.tables, e.pages) BY <1>2, <1>3, <1>4, <1>5, <1>10 DEF ColumnsOK
  <1>12. ASSUME NEW row \in ToSet(p.indexes) PROVE IndexRowOK(t, row)
    <2>1. IndexRowOK(old, row) BY <1>4 DEF IndexesOK
    <2> PICK ref : ref = row.ref OBVIOUS
    <2> PICK n : n = row.index OBVIOUS
    <2> PICK L : L = LoadColumns(p, ref) OBVIOUS
    <2>2. /\ row = [ref |-> row.ref, index |-> row.index, key |-> row.key, root |-> row.root]
          /\ ref \in DOMAIN old /\ n \in DOMAIN old[ref].indexes
      BY <2>1 DEF IndexRowOK
    <2>3. PICK other \in ToSet(p.indexes) :
                    /\ other.ref = ref /\ other.index = n
                    /\ t[ref].indexes[n].key = LoadedKey(L, other.key)
      BY <1>6, <2>2
    <2>4. other.key = row.key BY <1>4, <2>3 DEF IndexesOK, OneKey
    <2>5. (\A j \in DOMAIN row.key : IndexOf(L, NoRelation, row.key[j]) # 0) /\ Distinct(row.key)
      BY DEF Loads
    <2>6. Keyed(L, row.key, LoadedKey(L, row.key)) BY <2>5 DEF Keyed, LoadedKey
    <2>7. \A k \in ToSet(LoadedKey(L, row.key)) : IndexOf(L, k.rel, k.name) # 0 BY <2>6, KeyResolves
    <2>8. RowKeyOK(L, row.key, LoadedKey(L, row.key)) BY <2>5, <2>6, <2>7 DEF RowKeyOK
    <2>9. RowKeyOK(t[ref].cols, row.key, t[ref].indexes[n].key) BY <1>5, <2>2, <2>3, <2>4, <2>8
    <2> QED BY <1>3, <1>5, <2>2, <2>9 DEF IndexRowOK
  <1>13. IndexesOK(e.tables, e.pages)
    BY <1>2, <1>3, <1>4, <1>5, <1>12 DEF IndexesOK
  <1>14. TreesOK(e.tables, e.pages) BY <1>2, <1>3, <1>4, <1>5, <1>6 DEF TreesOK
  <1>15. Synced(e)
    <2>1. ASSUME NEW row \in ToSet(p.indexes) PROVE row.root = t[row.ref].indexes[row.index].root
      <3>1. row.ref \in DOMAIN old /\ row.index \in DOMAIN old[row.ref].indexes
        BY <1>4 DEF IndexesOK, IndexRowOK
      <3>2. row.root = old[row.ref].indexes[row.index].root BY DEF Synced
      <3> QED BY <1>6, <3>1, <3>2
    <2> QED BY <1>2, <2>1 DEF Synced
  <1> QED BY <1>7, <1>8, <1>9, <1>11, <1>13, <1>14, <1>15 DEF DbOK

LEMMA LoadedIsCopied ==
  ASSUME NEW d, DbOK(d), Synced(d), NEW ref \in DOMAIN d.tables, Plain(d, ref)
  PROVE  LoadUserTables(d.pages)[ref] = Copied(d.tables[ref])
  <1> PICK p : p = d.pages OBVIOUS
  <1> PICK old : old = d.tables[ref] OBVIOUS
  <1> PICK t : t = LoadUserTables(p)[ref] OBVIOUS
  <1>1. LoadedAs(p, ref, old, t) BY LoadedTable
  <1>2. t = [cols |-> t.cols, heap |-> t.heap, indexes |-> t.indexes] BY <1>1 DEF LoadedAs
  <1>3. t.cols = LoadColumns(p, ref) /\ t.heap = old.heap BY <1>1 DEF LoadedAs
  <1>4. t.indexes = [n \in DOMAIN old.indexes |-> t.indexes[n]] BY <1>1 DEF LoadedAs
  <1>5. Describes(LoadColumns(p, ref), old.cols) BY DEF DbOK, ColumnsOK, ColumnsOf, Plain
  <1>f. \A c \in ToSet(old.cols) : c.type # "Float64" BY DEF Plain
  <1>n. PlainNames(old.cols) BY DEF Plain, PlainNames
  <1>6. t.cols = Unqualified(old.cols) BY <1>3, <1>5, <1>f, LoadedIsUnqualified
  <1>8. ASSUME NEW n \in DOMAIN old.indexes
        PROVE  t.indexes[n] = [key |-> Unqualified(old.indexes[n].key), root |-> old.indexes[n].root]
    <2> PICK a : a = old.indexes[n] OBVIOUS
    <2> PICK b : b = t.indexes[n] OBVIOUS
    <2>1. b = [key |-> b.key, root |-> b.root] /\ b.root = a.root BY <1>1 DEF LoadedAs
    <2>2. PICK row \in ToSet(p.indexes) :
            row.ref = ref /\ row.index = n /\ b.key = LoadedKey(LoadColumns(p, ref), row.key)
      BY <1>1 DEF LoadedAs
    <2>a. RowKeyOK(old.cols, row.key, a.key) BY <2>2 DEF DbOK, IndexesOK, IndexRowOK
    <2>3. Keyed(old.cols, row.key, a.key) BY <1>n, <2>a DEF RowKeyOK
    <2>4. b.key = Unqualified(a.key) BY <1>5, <1>f, <2>2, <2>3, LoadedKeyIsUnqualified
    <2> QED BY <2>1, <2>4
  <1>9. PICK x : x = [i \in DOMAIN old.indexes |->
                        [key |-> Unqualified(old.indexes[i].key), root |-> old.indexes[i].root]]
    OBVIOUS
  <1>10. t.indexes = x BY <1>4, <1>8, <1>9
  <1>11. Copied(old) = [cols |-> Unqualified(old.cols), heap |-> old.heap, indexes |-> x]
    BY <1>9 DEF Copied
  <1> QED BY <1>2, <1>3, <1>6, <1>10, <1>11

(* A database of plain tables can be loaded. *)
LEMMA CopyLoads ==
  ASSUME NEW d, DbOK(d), \A ref \in DOMAIN d.tables : Plain(d, ref)
  PROVE  Loads(d.pages)
  <1> PICK p : p = d.pages OBVIOUS
  <1>2. /\ SchemasOK(d.schemas, p) /\ TablesOK(d.schemas, d.tables, p)
        /\ ColumnsOK(d.tables, p) /\ IndexesOK(d.tables, p)
    BY DEF DbOK
  <1>3. ASSUME NEW ref \in DOMAIN d.tables
        PROVE  /\ Describes(LoadColumns(p, ref), d.tables[ref].cols)
               /\ PlainNames(d.tables[ref].cols) /\ Distinct(Names(LoadColumns(p, ref)))
               /\ Selected(ref) # Err
    <2>1. Selected(ref) = {ref} /\ PlainNames(d.tables[ref].cols) BY DEF Plain, PlainNames
    <2>2. ref \in TableRef BY DEF DbOK, Shape
    <2>3. Selected(ref) # Err BY <2>1, <2>2, CatalogAssumption
    <2>4. Describes(LoadColumns(p, ref), d.tables[ref].cols) /\ Distinct(Names(d.tables[ref].cols))
      BY <1>2, <2>1 DEF ColumnsOK, ColumnsOf
    <2> QED BY <2>1, <2>3, <2>4, LoadedDistinct
  <1>4. ASSUME NEW r \in ToSet(p.tables)
        PROVE  /\ r.ref[1] \in ToSet(p.schemas) \cup {InformationSchema}
               /\ Selected(r.ref) # Err /\ Distinct(Names(LoadColumns(p, r.ref)))
    <2>1. r.ref \in DOMAIN d.tables BY <1>2 DEF TablesOK
    <2> QED BY <1>2, <1>3, <2>1 DEF SchemasOK, TablesOK
  <1>5. ASSUME NEW r \in ToSet(p.indexes)
        PROVE  /\ \E t \in ToSet(p.tables) : t.ref = r.ref
               /\ \A j \in DOMAIN r.key : IndexOf(LoadColumns(p, r.ref), NoRelation, r.key[j]) # 0
               /\ Distinct(r.key)
    <2>1. r.ref \in DOMAIN d.tables
          /\ RowKeyOK(d.tables[r.ref].cols, r.key, d.tables[r.ref].indexes[r.index].key)
      BY <1>2 DEF IndexesOK, IndexRowOK
    <2>2. Describes(LoadColumns(p, r.ref), d.tables[r.ref].cols) BY <1>3, <2>1
    <2>3. Distinct(r.key)
          /\ \A j \in DOMAIN r.key : IndexOf(d.tables[r.ref].cols, NoRelation, r.key[j]) # 0
      BY <1>3, <2>1 DEF RowKeyOK, Keyed
    <2>4. \A j \in DOMAIN r.key : IndexOf(LoadColumns(p, r.ref), NoRelation, r.key[j]) # 0
      BY <2>2, <2>3, IndexOfByName
    <2>5. \E t \in ToSet(p.tables) : t.ref = r.ref BY <1>2, <2>1 DEF TablesOK
    <2> QED BY <2>3, <2>4, <2>5
  <1> QED BY <1>4, <1>5 DEF Loads

(* CopyFaithful, of one database. *)
FaithfulCopy(d) ==
  LET pages == SnapshotBytes(d)
      copy  == Load(pages)
      plain == {ref \in DOMAIN d.tables : Plain(d, ref)}
  IN  /\ plain = DOMAIN d.tables => Loads(LoadSchemas(pages))
      /\ Loads(LoadSchemas(pages)) =>
           /\ copy.schemas = d.schemas /\ DOMAIN copy.tables = DOMAIN d.tables
           /\ \A ref \in plain : copy.tables[ref] = Copied(d.tables[ref])

LEMMA CopyIsFaithful ==
  ASSUME NEW d, DbOK(d)
  PROVE  FaithfulCopy(d)
  <1> PICK e : e = SyncIndexRoots(d) OBVIOUS
  <1>1. DbOK(e) /\ Synced(e) /\ e.schemas = d.schemas /\ e.tables = d.tables BY SyncOK
  <1>2. SnapshotBytes(d) = e.pages BY DEF SnapshotBytes
  <1>3. LoadSchemas(e.pages) = e.pages BY <1>1, LoadIs
  <1>a. \A ref \in DOMAIN d.tables : Plain(d, ref) <=> Plain(e, ref) BY <1>1 DEF Plain
  <1>b. (\A ref \in DOMAIN d.tables : Plain(d, ref)) => Loads(LoadSchemas(e.pages))
    BY <1>1, <1>3, <1>a, CopyLoads
  <1> PICK t : t = LoadUserTables(e.pages) OBVIOUS
  <1>4. Load(e.pages) = [schemas |-> e.schemas, tables |-> t, pages |-> e.pages] BY <1>1, LoadIs
  <1>5. Load(e.pages).schemas = e.schemas /\ Load(e.pages).tables = t BY <1>4, DbRecord
  <1>6. t = [ref \in DOMAIN e.tables |-> [cols |-> LoadColumns(e.pages, ref),
                                          heap |-> e.tables[ref].heap,
                                          indexes |-> LoadUserIndexes(e.pages, ref)]]
    BY <1>1, LoadIs
  <1>7. DOMAIN t = DOMAIN d.tables BY <1>1, <1>6
  <1>8. \A ref \in DOMAIN d.tables : Plain(d, ref) => t[ref] = Copied(d.tables[ref])
    BY <1>1, <1>a, LoadedIsCopied
  <1> QED BY <1>1, <1>2, <1>b, <1>5, <1>7, <1>8 DEF FaithfulCopy

(* In every database of the invariant indexes are exact and copies are faithful. *)
LEMMA InvariantGivesCopies == IInv => CopyFaithful
  <1> SUFFICES ASSUME IInv, NEW d \in Databases PROVE FaithfulCopy(d)
    BY DEF CopyFaithful, FaithfulCopy
  <1>1. DbOK(d) BY DEF IInv, Databases
  <1> QED BY <1>1, CopyIsFaithful

LEMMA InvariantGivesExact == IInv => IndexExact
  <1> SUFFICES ASSUME IInv, NEW d \in Databases, NEW ref \in DOMAIN d.tables,
                      NEW i \in DOMAIN TableIndexes(d, ref)
               PROVE  LET ids == TreeIds(d, TableIndexes(d, ref)[i].root)
                      IN  /\ Len(ids) = Len(TableHeap(d, ref))
                          /\ ToSet(ids) = DOMAIN TableHeap(d, ref)
    BY DEF IndexExact
  <1>1. DbOK(d) BY DEF IInv, Databases
  <1>2. TreesOK(d.tables, d.pages) BY <1>1 DEF DbOK
  <1>3. i \in DOMAIN d.tables[ref].indexes BY DEF TableIndexes
  <1>4. Holds(d.pages.trees, d.tables[ref].indexes[i].root, TableHeap(d, ref))
    BY <1>2, <1>3 DEF TreesOK, TableHeap
  <1>5. TreeIds(d, TableIndexes(d, ref)[i].root)
          = IdsUnder(d.pages.trees, d.tables[ref].indexes[i].root)
    BY DEF TreeIds, IdsUnder, TableIndexes
  <1> QED BY <1>4, <1>5 DEF Covers, Holds

(***************************************************************************)
(* CREATE TABLE.                                                           *)
(***************************************************************************)

NewTable(p, ref, defs) ==
  [cols |-> [i \in DOMAIN defs |-> Column(ref, defs[i].name, defs[i].type)],
   heap |-> Len(p.heaps) + 1, indexes |-> NoFunction]

NewColumnRows(ref, defs) ==
  [i \in DOMAIN defs |-> [ref |-> ref, name |-> defs[i].name, type |-> ToSql(defs[i].type)]]

LEMMA DefsFacts ==
  ASSUME NEW defs \in ColumnDefs
  PROVE  /\ IsSeq(defs) /\ Len(defs) \in Nat /\ DOMAIN defs = 1..Len(defs)
         /\ \A i \in 1..Len(defs) : defs[i].type \in DataType
  <1>1. PICK S : S = [name : STRING, type : DataType] OBVIOUS
  <1>2. defs \in Seq(S) BY <1>1, CatalogAssumption
  <1>3. IsSeq(defs) BY <1>2, SeqIs
  <1>4. Len(defs) \in Nat /\ DOMAIN defs = 1..Len(defs) BY <1>3, SeqFacts
  <1>5. \A i \in 1..Len(defs) : defs[i] \in S BY <1>2, <1>4
  <1>6. \A i \in 1..Len(defs) : defs[i].type \in DataType BY <1>1, <1>5
  <1> QED BY <1>3, <1>4, <1>6

LEMMA NewColumnRowsIs ==
  ASSUME NEW ref, NEW defs \in ColumnDefs, NEW rows, rows = NewColumnRows(ref, defs)
  PROVE  /\ IsSeq(rows) /\ Len(rows) = Len(defs)
         /\ SubSeq(rows, 1, Len(defs)) = rows
         /\ \A i \in 1..Len(defs) :
              rows[i] = [ref |-> ref, name |-> defs[i].name, type |-> ToSql(defs[i].type)]
         /\ \A row \in ToSet(rows) : row.ref = ref
  <1>1. Len(defs) \in Nat /\ DOMAIN defs = 1..Len(defs) BY DefsFacts
  <1>2. rows = [i \in 1..Len(defs) |-> [ref |-> ref, name |-> defs[i].name, type |-> ToSql(defs[i].type)]]
    BY <1>1 DEF NewColumnRows
  <1>3. rows = [i \in 1..Len(defs) |-> rows[i]] BY <1>2
  <1>4. IsSeq(rows) /\ Len(rows) = Len(defs) BY <1>1, <1>3, FunctionIsSeq
  <1>5. rows \in Seq(ToSet(rows)) BY <1>4 DEF IsSeq
  <1>6. SubSeq(rows, 1, Len(rows)) = rows BY <1>5, SubSeqFull
  <1>7. \A i \in 1..Len(defs) :
          rows[i] = [ref |-> ref, name |-> defs[i].name, type |-> ToSql(defs[i].type)]
    BY <1>2
  <1>8. ASSUME NEW i \in 1..Len(defs) PROVE rows[i].ref = ref
    <2>1. rows[i] = [ref |-> ref, name |-> defs[i].name, type |-> ToSql(defs[i].type)] BY <1>7
    <2> QED BY <2>1
  <1>9. \A row \in ToSet(rows) : \E i \in 1..Len(defs) : rows[i] = row BY <1>4, SeqFacts
  <1> QED BY <1>4, <1>6, <1>7, <1>8, <1>9

PagesOf(h, tr, s, t, c, x) ==
  [heaps |-> h, trees |-> tr, schemas |-> s, tables |-> t, columns |-> c, indexes |-> x]

DbOf(s, t, p) == [schemas |-> s, tables |-> t, pages |-> p]

LEMMA DbIs ==
  ASSUME NEW d, DbOK(d), NEW p, p = d.pages
  PROVE  /\ p = PagesOf(p.heaps, p.trees, p.schemas, p.tables, p.columns, p.indexes)
         /\ d = DbOf(d.schemas, d.tables, p)
  BY DEF DbOK, Shape, PagesShape, PagesOf, DbOf

LEMMA DbOfIs ==
  ASSUME NEW s, NEW t, NEW p
  PROVE  DbOf(s, t, p).schemas = s /\ DbOf(s, t, p).tables = t /\ DbOf(s, t, p).pages = p
  BY DEF DbOf

LEMMA PagesOfIs ==
  ASSUME NEW h, NEW tr, NEW s, NEW t, NEW c, NEW x, NEW p, p = PagesOf(h, tr, s, t, c, x)
  PROVE  /\ p.heaps = h /\ p.trees = tr /\ p.schemas = s
         /\ p.tables = t /\ p.columns = c /\ p.indexes = x
  BY DEF PagesOf

AddTable(d, t, h, tr, c) ==
  [d EXCEPT !.tables = t, !.pages.heaps = h, !.pages.tables = tr, !.pages.columns = c]

PutTables(d, t) == [d EXCEPT !.tables = t]
PutPages(d, p)  == [d EXCEPT !.pages = p]
PutHeaps(p, h)  == [p EXCEPT !.heaps = h]
PutTrees(p, t)  == [p EXCEPT !.trees = t]
PutTableRows(p, r) == [p EXCEPT !.tables = r]
PutColumns(p, c)   == [p EXCEPT !.columns = c]
PutIndexes(p, x)   == [p EXCEPT !.indexes = x]

LEMMA PutDb ==
  ASSUME NEW s, NEW t, NEW p, NEW v
  PROVE  PutTables(DbOf(s, t, p), v) = DbOf(s, v, p) /\ PutPages(DbOf(s, t, p), v) = DbOf(s, t, v)
  BY DEF PutTables, PutPages, DbOf

LEMMA PutField ==
  ASSUME NEW h, NEW tr, NEW s, NEW t, NEW c, NEW x, NEW v
  PROVE  /\ PutHeaps(PagesOf(h, tr, s, t, c, x), v) = PagesOf(v, tr, s, t, c, x)
         /\ PutTrees(PagesOf(h, tr, s, t, c, x), v) = PagesOf(h, v, s, t, c, x)
         /\ PutTableRows(PagesOf(h, tr, s, t, c, x), v) = PagesOf(h, tr, s, v, c, x)
         /\ PutColumns(PagesOf(h, tr, s, t, c, x), v) = PagesOf(h, tr, s, t, v, x)
         /\ PutIndexes(PagesOf(h, tr, s, t, c, x), v) = PagesOf(h, tr, s, t, c, v)
  <1>1. PutHeaps(PagesOf(h, tr, s, t, c, x), v) = PagesOf(v, tr, s, t, c, x) BY DEF PutHeaps, PagesOf
  <1>2. PutTrees(PagesOf(h, tr, s, t, c, x), v) = PagesOf(h, v, s, t, c, x) BY DEF PutTrees, PagesOf
  <1>3. PutTableRows(PagesOf(h, tr, s, t, c, x), v) = PagesOf(h, tr, s, v, c, x)
    BY DEF PutTableRows, PagesOf
  <1>4. PutColumns(PagesOf(h, tr, s, t, c, x), v) = PagesOf(h, tr, s, t, v, x) BY DEF PutColumns, PagesOf
  <1>5. PutIndexes(PagesOf(h, tr, s, t, c, x), v) = PagesOf(h, tr, s, t, c, v) BY DEF PutIndexes, PagesOf
  <1> QED BY <1>1, <1>2, <1>3, <1>4, <1>5

LEMMA AddTableIs ==
  ASSUME NEW s, NEW t0, NEW h0, NEW tr, NEW s0, NEW r0, NEW c0, NEW x, NEW t, NEW h, NEW r, NEW c
  PROVE  AddTable(DbOf(s, t0, PagesOf(h0, tr, s0, r0, c0, x)), t, h, r, c)
           = DbOf(s, t, PagesOf(h, tr, s0, r, c, x))
  <1>1. PICK d : d = DbOf(s, t0, PagesOf(h0, tr, s0, r0, c0, x)) OBVIOUS
  <1>2. PICK d1 : d1 = PutTables(d, t) OBVIOUS
  <1>3. PICK d2 : d2 = PutPages(d1, PutHeaps(d1.pages, h)) OBVIOUS
  <1>4. PICK d3 : d3 = PutPages(d2, PutTableRows(d2.pages, r)) OBVIOUS
  <1>5. AddTable(d, t, h, r, c) = PutPages(d3, PutColumns(d3.pages, c))
    BY <1>2, <1>3, <1>4 DEF AddTable, PutTables, PutPages, PutHeaps, PutTableRows, PutColumns
  <1>6. d1 = DbOf(s, t, PagesOf(h0, tr, s0, r0, c0, x)) BY <1>1, <1>2, PutDb
  <1>7. d2 = DbOf(s, t, PagesOf(h, tr, s0, r0, c0, x)) BY <1>3, <1>6, DbOfIs, PutDb, PutField
  <1>8. d3 = DbOf(s, t, PagesOf(h, tr, s0, r, c0, x)) BY <1>4, <1>7, DbOfIs, PutDb, PutField
  <1>9. PutPages(d3, PutColumns(d3.pages, c)) = DbOf(s, t, PagesOf(h, tr, s0, r, c, x))
    BY <1>8, DbOfIs, PutDb, PutField
  <1> QED BY <1>1, <1>5, <1>9

LEMMA TableCreatedIs ==
  ASSUME NEW d, DbOK(d), NEW ref, NEW defs \in ColumnDefs, NEW q, q = d.pages
  PROVE  TableCreated(d, ref, defs, Len(defs) + 1) =
           DbOf(d.schemas, With(d.tables, ref, NewTable(q, ref, defs)),
                PagesOf(Append(q.heaps, <<>>), q.trees, q.schemas,
                        Append(q.tables, [ref |-> ref, heap |-> Len(q.heaps) + 1]),
                        q.columns \o NewColumnRows(ref, defs), q.indexes))
  <1> PICK n : n = Len(defs) + 1 OBVIOUS
  <1> PICK rows : rows = NewColumnRows(ref, defs) OBVIOUS
  <1> PICK row : row = [ref |-> ref, heap |-> Len(q.heaps) + 1] OBVIOUS
  <1> PICK t : t = With(d.tables, ref, NewTable(q, ref, defs)) OBVIOUS
  <1> PICK h : h = Append(q.heaps, <<>>) OBVIOUS
  <1> PICK tr : tr = Append(q.tables, row) OBVIOUS
  <1> PICK c : c = q.columns \o rows OBVIOUS
  <1>1. d = [schemas |-> d.schemas, tables |-> d.tables, pages |-> q] /\ PagesShape(q)
    BY DEF DbOK, Shape
  <1>2. q = [heaps |-> q.heaps, trees |-> q.trees, schemas |-> q.schemas,
             tables |-> q.tables, columns |-> q.columns, indexes |-> q.indexes]
    BY <1>1 DEF PagesShape
  <1>3. n # 0 /\ n - 1 = Len(defs)
    <2>1. Len(defs) \in Nat BY DefsFacts
    <2> QED BY <2>1
  <1>4. SubSeq(rows, 1, n - 1) = rows BY <1>3, NewColumnRowsIs
  <1>5. TableCreated(d, ref, defs, n) = AddTable(d, t, h, tr, c)
    BY <1>1, <1>2, <1>3, <1>4 DEF TableCreated, NewTable, NewColumnRows, AddTable
  <1>6. d = DbOf(d.schemas, d.tables, PagesOf(q.heaps, q.trees, q.schemas, q.tables, q.columns, q.indexes))
    BY DbIs
  <1>7. AddTable(d, t, h, tr, c) =
          DbOf(d.schemas, t, PagesOf(h, q.trees, q.schemas, tr, c, q.indexes))
    BY <1>6, AddTableIs
  <1> QED BY <1>5, <1>7

(* A type that is not written as DOUBLE is read as it was written. *)
LEMMA SqlRoundTrip ==
  ASSUME NEW t \in DataType, t # "Float64"
  PROVE  FromSql(ToSql(t)) = t
  BY DEF FromSql, ToSql, DataType, Signed, Unsigned, Floats

LEMMA NewColumnsDescribed ==
  ASSUME NEW ref, NEW defs \in ColumnDefs, NEW loaded,
         AreLoaded(loaded, NewColumnRows(ref, defs), 0, Len(defs)), NEW p
  PROVE  Describes(loaded, NewTable(p, ref, defs).cols)
  <1> PICK cols : cols = [i \in DOMAIN defs |-> Column(ref, defs[i].name, defs[i].type)] OBVIOUS
  <1> PICK rows : rows = NewColumnRows(ref, defs) OBVIOUS
  <1>1. NewTable(p, ref, defs).cols = cols BY DEF NewTable
  <1>2. Len(defs) \in Nat /\ DOMAIN defs = 1..Len(defs) BY DefsFacts
  <1>3. cols = [i \in 1..Len(defs) |-> cols[i]] BY <1>2
  <1>4. IsSeq(cols) /\ Len(cols) = Len(defs) BY <1>2, <1>3, FunctionIsSeq
  <1>5. IsSeq(loaded) /\ Len(loaded) = Len(defs)
        /\ \A j \in 1..Len(defs) : loaded[j] = LoadedColumn(rows[0 + j])
    BY DEF AreLoaded
  <1>6. ASSUME NEW i \in 1..Len(defs)
        PROVE  /\ loaded[i] = Column(NoRelation, loaded[i].name, loaded[i].type)
               /\ loaded[i].name = cols[i].name
               /\ cols[i].type # "Float64" => loaded[i].type = cols[i].type
    <2>1. 0 + i = i BY <1>2
    <2>2. loaded[i] = LoadedColumn(rows[i]) BY <1>5, <2>1
    <2>3. rows[i] = [ref |-> ref, name |-> defs[i].name, type |-> ToSql(defs[i].type)]
      BY NewColumnRowsIs
    <2>4. rows[i].name = defs[i].name /\ rows[i].type = ToSql(defs[i].type) BY <2>3
    <2>5. PICK t : t = FromSql(ToSql(defs[i].type)) OBVIOUS
    <2>6. loaded[i] = Column(NoRelation, defs[i].name, t) BY <2>2, <2>4, <2>5 DEF LoadedColumn
    <2>7. loaded[i].name = defs[i].name /\ loaded[i].type = t BY <2>6 DEF Column
    <2>8. cols[i] = Column(ref, defs[i].name, defs[i].type) BY <1>2
    <2>9. cols[i].name = defs[i].name /\ cols[i].type = defs[i].type BY <2>8 DEF Column
    <2>10. defs[i].type # "Float64" => t = defs[i].type BY <2>5, DefsFacts, SqlRoundTrip
    <2> QED BY <2>6, <2>7, <2>9, <2>10
  <1> QED BY <1>1, <1>4, <1>5, <1>6 DEF Describes

LEMMA NewColumnsDistinct ==
  ASSUME NEW ref, NEW defs \in ColumnDefs, Distinct(Names(defs)), NEW p
  PROVE  IsSeq(NewTable(p, ref, defs).cols) /\ Distinct(Names(NewTable(p, ref, defs).cols))
  <1> PICK cols : cols = [i \in DOMAIN defs |-> Column(ref, defs[i].name, defs[i].type)] OBVIOUS
  <1>1. NewTable(p, ref, defs).cols = cols BY DEF NewTable
  <1>2. Len(defs) \in Nat /\ DOMAIN defs = 1..Len(defs) BY DefsFacts
  <1>3. cols = [i \in 1..Len(defs) |-> cols[i]] BY <1>2
  <1>4. IsSeq(cols) BY <1>2, <1>3, FunctionIsSeq
  <1>5. DOMAIN cols = DOMAIN defs OBVIOUS
  <1>6. ASSUME NEW i \in DOMAIN defs PROVE cols[i].name = defs[i].name
    <2>1. cols[i] = Column(ref, defs[i].name, defs[i].type) OBVIOUS
    <2> QED BY <2>1 DEF Column
  <1>7. Names(cols) = Names(defs) BY <1>5, <1>6 DEF Names
  <1> QED BY <1>1, <1>4, <1>7

LEMMA TableCreatedOK ==
  ASSUME NEW d, DbOK(d), NEW ref \in TableRef, NEW defs \in ColumnDefs, Distinct(Names(defs)),
         ref[1] \in d.schemas, ref \notin DOMAIN d.tables
  PROVE  DbOK(TableCreated(d, ref, defs, Len(defs) + 1))
  <1>q. PICK q : q = d.pages OBVIOUS
  <1>o. PICK old : old = d.tables OBVIOUS
  <1>n. PICK new : new = NewTable(q, ref, defs) OBVIOUS
  <1>t. PICK t : t = With(old, ref, new) OBVIOUS
  <1>r. PICK row : row = [ref |-> ref, heap |-> Len(q.heaps) + 1] OBVIOUS
  <1>w. PICK rows : rows = NewColumnRows(ref, defs) OBVIOUS
  <1>h. PICK heaps : heaps = Append(q.heaps, <<>>) OBVIOUS
  <1>u. PICK trows : trows = Append(q.tables, row) OBVIOUS
  <1>c. PICK columns : columns = q.columns \o rows OBVIOUS
  <1>p. PICK p : p = PagesOf(heaps, q.trees, q.schemas, trows, columns, q.indexes) OBVIOUS
  <1>e. PICK e : e = TableCreated(d, ref, defs, Len(defs) + 1) OBVIOUS
  <1>1. e = DbOf(d.schemas, t, p)
    BY <1>q, <1>o, <1>n, <1>t, <1>r, <1>w, <1>h, <1>u, <1>c, <1>p, <1>e, TableCreatedIs
  <1>2. e.schemas = d.schemas /\ e.tables = t /\ e.pages = p BY <1>1, DbOfIs
  <1>3. /\ p.heaps = heaps /\ p.trees = q.trees /\ p.schemas = q.schemas
        /\ p.tables = trows /\ p.columns = columns /\ p.indexes = q.indexes
    BY <1>p, PagesOfIs
  <1>4. /\ Shape(d) /\ SchemasOK(d.schemas, q) /\ TablesOK(d.schemas, old, q)
        /\ ColumnsOK(old, q) /\ IndexesOK(old, q) /\ TreesOK(old, q)
    BY <1>q, <1>o DEF DbOK
  <1>5. IsSeq(q.heaps) /\ IsSeq(q.schemas) /\ IsSeq(q.tables) /\ IsSeq(q.columns) /\ IsSeq(q.indexes)
        /\ DOMAIN old \subseteq TableRef /\ \A r \in DOMAIN old : TableShape(old[r])
    BY <1>4, <1>q, <1>o DEF Shape, PagesShape
  <1>6. /\ IsSeq(p.heaps) /\ Len(p.heaps) = Len(q.heaps) + 1 /\ p.heaps[Len(q.heaps) + 1] = <<>>
        /\ \A i \in 1..Len(q.heaps) : p.heaps[i] = q.heaps[i]
    <2>1. /\ IsSeq(heaps) /\ Len(heaps) = Len(q.heaps) + 1 /\ heaps[Len(q.heaps) + 1] = <<>>
          /\ \A i \in 1..Len(q.heaps) : heaps[i] = q.heaps[i]
      BY <1>5, <1>h, AppendIsSeq
    <2> QED BY <1>3, <2>1
  <1>7. IsSeq(p.tables) /\ ToSet(p.tables) = ToSet(q.tables) \cup {row}
    <2>1. IsSeq(trows) /\ ToSet(trows) = ToSet(q.tables) \cup {row} BY <1>5, <1>u, AppendIsSeq
    <2> QED BY <1>3, <2>1
  <1>8. IsSeq(rows) /\ Len(rows) = Len(defs) /\ \A r \in ToSet(rows) : r.ref = ref
    BY <1>w, NewColumnRowsIs
  <1>9. IsSeq(p.columns) /\ ToSet(p.columns) = ToSet(q.columns) \cup ToSet(rows)
    <2>1. IsSeq(columns) /\ ToSet(columns) = ToSet(q.columns) \cup ToSet(rows)
      BY <1>5, <1>8, <1>c, ConcatIsSeq
    <2> QED BY <1>3, <2>1
  <1>10. DOMAIN t = DOMAIN old \cup {ref} /\ t[ref] = new /\ \A r \in DOMAIN old : t[r] = old[r]
    <2>1. \A r \in DOMAIN old : r # ref BY <1>o
    <2>2. DOMAIN t = DOMAIN old \cup {ref} /\ t[ref] = new BY <1>t DEF With
    <2>3. \A r \in DOMAIN old : r # ref => t[r] = old[r] BY <1>t DEF With
    <2> QED BY <2>1, <2>2, <2>3
  <1>11. /\ new.heap = Len(q.heaps) + 1 /\ new.indexes = NoFunction /\ DOMAIN new.indexes = {}
         /\ new = [cols |-> new.cols, heap |-> new.heap, indexes |-> new.indexes]
    BY <1>n DEF NewTable, NoFunction
  <1>12. row.ref = ref /\ row.heap = new.heap BY <1>11, <1>r
  <1>13. Len(q.heaps) \in Nat /\ DOMAIN q.heaps = 1..Len(q.heaps)
         /\ DOMAIN p.heaps = 1..(Len(q.heaps) + 1)
    BY <1>5, <1>6, SeqFacts
  <1>14. \A r \in DOMAIN old : old[r].heap \in 1..Len(q.heaps) BY <1>4, <1>13 DEF TablesOK
  <1>15. Shape(e)
    <2>1. TableShape(new) BY <1>11, FS_EmptySet DEF TableShape
    <2>2. PagesShape(p)
      <3>1. p = PagesOf(p.heaps, p.trees, p.schemas, p.tables, p.columns, p.indexes) BY <1>3, <1>p
      <3> QED BY <1>3, <1>5, <1>6, <1>7, <1>9, <3>1 DEF PagesShape, PagesOf
    <2>3. DOMAIN t \subseteq TableRef /\ \A r \in DOMAIN t : TableShape(t[r])
      BY <1>5, <1>10, <2>1
    <2>4. e = DbOf(e.schemas, e.tables, e.pages) BY <1>1, <1>2
    <2>5. t = [r \in DOMAIN t |-> t[r]] BY <1>t DEF With
    <2> QED BY <1>2, <2>2, <2>3, <2>4, <2>5 DEF Shape, DbOf
  <1>16. SchemasOK(e.schemas, e.pages) BY <1>2, <1>3, <1>4 DEF SchemasOK
  <1>17. TablesOK(e.schemas, e.tables, e.pages)
    <2>1. ASSUME NEW r \in DOMAIN t
          PROVE  /\ r[1] \in d.schemas /\ t[r].heap \in DOMAIN p.heaps
                 /\ \E s \in ToSet(p.tables) : s.ref = r
      <3>1. CASE r = ref
        <4>1. Len(q.heaps) + 1 \in 1..(Len(q.heaps) + 1) BY <1>13
        <4> QED BY <1>7, <1>10, <1>11, <1>12, <1>13, <3>1, <4>1
      <3>2. CASE r \in DOMAIN old
        <4>1. \A i \in 1..Len(q.heaps) : i \in 1..(Len(q.heaps) + 1) BY <1>13
        <4> QED BY <1>4, <1>7, <1>10, <1>13, <1>14, <3>2, <4>1 DEF TablesOK
      <3> QED BY <1>10, <3>1, <3>2
    <2>2. ASSUME NEW a \in DOMAIN t, NEW b \in DOMAIN t, t[a].heap = t[b].heap PROVE a = b
      <3>1. \A i \in 1..Len(q.heaps) : i # Len(q.heaps) + 1 BY <1>13
      <3>2. \A r \in DOMAIN old : t[r].heap # t[ref].heap BY <1>10, <1>11, <1>14, <3>1
      <3>3. CASE a \in DOMAIN old /\ b \in DOMAIN old BY <1>4, <1>10, <2>2, <3>3 DEF TablesOK
      <3>4. CASE a = ref \/ b = ref BY <1>10, <2>2, <3>2, <3>4
      <3> QED BY <1>10, <3>3, <3>4
    <2>3. ASSUME NEW s \in ToSet(p.tables) PROVE s.ref \in DOMAIN t /\ s.heap = t[s.ref].heap
      <3>1. CASE s = row BY <1>10, <1>12, <3>1
      <3>2. CASE s \in ToSet(q.tables) BY <1>4, <1>10, <3>2 DEF TablesOK
      <3> QED BY <1>7, <3>1, <3>2
    <2> QED BY <1>2, <2>1, <2>2, <2>3 DEF TablesOK
  <1>18. ColumnsOK(e.tables, e.pages)
    <2>1. ASSUME NEW s \in ToSet(p.columns) PROVE s.ref \in DOMAIN t
      <3>1. CASE s \in ToSet(rows) BY <1>8, <1>10, <3>1
      <3>2. CASE s \in ToSet(q.columns) BY <1>4, <1>10, <3>2 DEF ColumnsOK
      <3> QED BY <1>9, <3>1, <3>2
    <2>2. ASSUME NEW r \in DOMAIN old PROVE ColumnsOf(p, r, t[r].cols)
      <3>1. ColumnsOf(q, r, old[r].cols) BY <1>4 DEF ColumnsOK
      <3>2. ASSUME Selected(r) = {r} PROVE LoadColumns(p, r) = LoadColumns(q, r)
        <4>1. \A s \in ToSet(rows) : s.ref \notin Selected(r) BY <1>8, <1>o, <3>2
        <4>2. p.columns = q.columns \o rows BY <1>3, <1>c
        <4>3. IsSeq(q.columns) /\ IsSeq(rows) BY <1>5, <1>8
        <4> QED BY <4>1, <4>2, <4>3, LoadColumnsOther, ZenonT(60)
      <3> QED BY <1>10, <3>1, <3>2 DEF ColumnsOf
    <2>3. ColumnsOf(p, ref, t[ref].cols)
      <3>1. IsSeq(new.cols) /\ Distinct(Names(new.cols)) BY <1>n, NewColumnsDistinct
      <3>2. ASSUME Selected(ref) = {ref} PROVE Describes(LoadColumns(p, ref), new.cols)
        <4>1. \A s \in ToSet(q.columns) : s.ref \notin Selected(ref) BY <1>4, <1>o, <3>2 DEF ColumnsOK
        <4>2. \A s \in ToSet(rows) : s.ref \in Selected(ref) BY <1>8, <3>2
        <4>3. AreLoaded(LoadColumns(p, ref), rows, 0, Len(rows))
          BY <1>3, <1>5, <1>8, <1>c, <4>1, <4>2, LoadColumnsNew
        <4>4. AreLoaded(LoadColumns(p, ref), rows, 0, Len(defs)) BY <1>8, <4>3
        <4> QED BY <4>4, <1>n, <1>w, NewColumnsDescribed
      <3> QED BY <1>10, <3>1, <3>2 DEF ColumnsOf
    <2> QED BY <1>2, <1>10, <2>1, <2>2, <2>3 DEF ColumnsOK
  <1>19. IndexesOK(e.tables, e.pages)
    <2>1. ASSUME NEW r \in DOMAIN t, NEW n \in DOMAIN t[r].indexes
          PROVE  \E s \in ToSet(q.indexes) : s.ref = r /\ s.index = n
      <3>1. r \in DOMAIN old /\ t[r] = old[r] BY <1>10, <1>11
      <3> QED BY <1>4, <3>1 DEF IndexesOK
    <2>2. ASSUME NEW s \in ToSet(q.indexes) PROVE IndexRowOK(t, s)
      <3>1. IndexRowOK(old, s) BY <1>4 DEF IndexesOK
      <3>2. s.ref \in DOMAIN old BY <3>1 DEF IndexRowOK
      <3>3. s.ref \in DOMAIN t /\ t[s.ref] = old[s.ref] BY <1>10, <3>2
      <3> QED BY <3>1, <3>3 DEF IndexRowOK
    <2>3. OneKey(q.indexes) BY <1>4 DEF IndexesOK
    <2> QED BY <1>2, <1>3, <2>1, <2>2, <2>3 DEF IndexesOK
  <1>20. TreesOK(e.tables, e.pages)
    <2>1. ASSUME NEW r \in DOMAIN old
          PROVE  p.heaps[t[r].heap] = q.heaps[old[r].heap] /\ t[r] = old[r]
      BY <1>6, <1>10, <1>14
    <2>2. p.heaps[t[ref].heap] = <<>> BY <1>6, <1>10, <1>11
    <2>3. IsSeq(p.heaps[t[ref].heap]) /\ DOMAIN t[ref].indexes = {}
      BY <1>10, <1>11, <2>2, EmptyIsSeq
    <2>4. \A r \in DOMAIN t : r \in DOMAIN old \/ r = ref BY <1>10
    <2> QED BY <1>2, <1>3, <1>4, <2>1, <2>3, <2>4 DEF TreesOK
  <1> QED BY <1>e, <1>15, <1>16, <1>17, <1>18, <1>19, <1>20 DEF DbOK

(***************************************************************************)
(* Statements that change one table and its indexes.                       *)
(***************************************************************************)

SetIndexes(tables, ref, x) ==
  [r \in DOMAIN tables |->
     IF r = ref THEN [cols |-> tables[ref].cols, heap |-> tables[ref].heap, indexes |-> x]
     ELSE tables[r]]

(* The heaps and trees of other tables stay. *)
KeepsOthers(p, ref, at, heaps, trees) ==
  /\ IsSeq(heaps) /\ Len(heaps) = Len(p.heaps)
  /\ \A i \in 1..Len(heaps) : i # at => heaps[i] = p.heaps[i]
  /\ \A r \in TableRef : \A n \in IndexName :
       r # ref /\ <<r, n>> \in DOMAIN p.trees =>
         <<r, n>> \in DOMAIN trees /\ trees[<<r, n>>] = p.trees[<<r, n>>]

(* The indexes x of a table have its rows. *)
IndexesFit(x, ref, trees, heap) ==
  /\ IsSeq(heap)
  /\ IsFiniteSet(DOMAIN x) /\ DOMAIN x \subseteq IndexName
  /\ \A n \in DOMAIN x : x[n] = [key |-> x[n].key, root |-> x[n].root]
  /\ \A n \in DOMAIN x : RootOf(x[n].root, ref, n) /\ Holds(trees, x[n].root, heap)

(* The rows of the indexes are those from before and, it may be, that of a new one. *)
Recorded(p, rows, cols, ref, idx, x) ==
  /\ IsSeq(rows) /\ ToSet(p.indexes) \subseteq ToSet(rows) /\ OneKey(rows)
  /\ \A n \in DOMAIN idx : n \in DOMAIN x /\ x[n].key = idx[n].key
  /\ \A n \in DOMAIN x : n \in DOMAIN idx \/ \E row \in ToSet(rows) : row.ref = ref /\ row.index = n
  /\ \A row \in ToSet(rows) :
       \/ row \in ToSet(p.indexes)
       \/ /\ row = [ref |-> row.ref, index |-> row.index, key |-> row.key, root |-> row.root]
          /\ row.ref = ref /\ row.index \in DOMAIN x /\ RowKeyOK(cols, row.key, x[row.index].key)

LEMMA SetIndexesIs ==
  ASSUME NEW tables, NEW ref \in DOMAIN tables, NEW x, NEW t, t = SetIndexes(tables, ref, x)
  PROVE  /\ DOMAIN t = DOMAIN tables
         /\ t[ref] = [cols |-> tables[ref].cols, heap |-> tables[ref].heap, indexes |-> x]
         /\ t[ref].cols = tables[ref].cols /\ t[ref].heap = tables[ref].heap /\ t[ref].indexes = x
         /\ \A r \in DOMAIN tables : r # ref => t[r] = tables[r]
  <1>1. DOMAIN t = DOMAIN tables /\ \A r \in DOMAIN tables : r # ref => t[r] = tables[r]
    BY DEF SetIndexes
  <1>2. t[ref] = [cols |-> tables[ref].cols, heap |-> tables[ref].heap, indexes |-> x]
    BY DEF SetIndexes
  <1>3. t[ref].cols = tables[ref].cols /\ t[ref].heap = tables[ref].heap /\ t[ref].indexes = x
    BY <1>2
  <1> QED BY <1>1, <1>2, <1>3

LEMMA SetIndexesFields ==
  ASSUME NEW tables, NEW ref \in DOMAIN tables, NEW x
  PROVE  /\ DOMAIN SetIndexes(tables, ref, x) = DOMAIN tables
         /\ SetIndexes(tables, ref, x)[ref].cols = tables[ref].cols
         /\ SetIndexes(tables, ref, x)[ref].heap = tables[ref].heap
         /\ SetIndexes(tables, ref, x)[ref].indexes = x
  <1>1. PICK t : t = SetIndexes(tables, ref, x) OBVIOUS
  <1>2. DOMAIN t = DOMAIN tables BY <1>1 DEF SetIndexes
  <1>3. t[ref] = [cols |-> tables[ref].cols, heap |-> tables[ref].heap, indexes |-> x]
    BY <1>1 DEF SetIndexes
  <1>4. t[ref].cols = tables[ref].cols /\ t[ref].heap = tables[ref].heap /\ t[ref].indexes = x
    BY <1>3
  <1> QED BY <1>1, <1>2, <1>4

LEMMA ChangedOK ==
  ASSUME NEW d, DbOK(d), NEW q, q = d.pages, NEW old, old = d.tables, NEW ref \in DOMAIN old,
         NEW x, NEW heaps, NEW trees, NEW rows,
         KeepsOthers(q, ref, old[ref].heap, heaps, trees),
         IndexesFit(x, ref, trees, heaps[old[ref].heap]),
         Recorded(q, rows, old[ref].cols, ref, old[ref].indexes, x)
  PROVE  DbOK(DbOf(d.schemas, SetIndexes(old, ref, x),
                   PagesOf(heaps, trees, q.schemas, q.tables, q.columns, rows)))
  <1>t. PICK t : t = SetIndexes(old, ref, x) OBVIOUS
  <1>p. PICK p : p = PagesOf(heaps, trees, q.schemas, q.tables, q.columns, rows) OBVIOUS
  <1>e. PICK e : e = DbOf(d.schemas, t, p) OBVIOUS
  <1>2. e.schemas = d.schemas /\ e.tables = t /\ e.pages = p BY <1>e, DbOfIs
  <1>3. /\ p.heaps = heaps /\ p.trees = trees /\ p.schemas = q.schemas
        /\ p.tables = q.tables /\ p.columns = q.columns /\ p.indexes = rows
    BY <1>p, PagesOfIs
  <1>4. /\ Shape(d) /\ SchemasOK(d.schemas, q) /\ TablesOK(d.schemas, old, q)
        /\ ColumnsOK(old, q) /\ IndexesOK(old, q) /\ TreesOK(old, q)
    BY DEF DbOK
  <1>5. IsSeq(q.heaps) /\ IsSeq(q.schemas) /\ IsSeq(q.tables) /\ IsSeq(q.columns)
        /\ DOMAIN old \subseteq TableRef /\ \A r \in DOMAIN old : TableShape(old[r])
    BY <1>4 DEF Shape, PagesShape
  <1>6. /\ DOMAIN t = DOMAIN old
        /\ t[ref] = [cols |-> old[ref].cols, heap |-> old[ref].heap, indexes |-> x]
        /\ t[ref].cols = old[ref].cols /\ t[ref].heap = old[ref].heap /\ t[ref].indexes = x
        /\ \A r \in DOMAIN old : r # ref => t[r] = old[r]
    BY <1>t, SetIndexesIs
  <1>7. \A r \in DOMAIN old : t[r].cols = old[r].cols /\ t[r].heap = old[r].heap BY <1>6
  <1>8. IsSeq(heaps) /\ Len(heaps) = Len(q.heaps) /\ IsSeq(rows) BY DEF KeepsOthers, Recorded
  <1>9. DOMAIN heaps = 1..Len(heaps) /\ DOMAIN q.heaps = 1..Len(heaps) BY <1>5, <1>8, SeqFacts
  <1>10. Shape(e)
    <2>1. TableShape(t[ref])
      <3>1. t[ref] = [cols |-> t[ref].cols, heap |-> t[ref].heap, indexes |-> t[ref].indexes] BY <1>6
      <3>2. IsFiniteSet(DOMAIN x) /\ DOMAIN x \subseteq IndexName
            /\ \A n \in DOMAIN x : x[n] = [key |-> x[n].key, root |-> x[n].root]
        BY DEF IndexesFit
      <3>3. t[ref].indexes = x BY <1>6
      <3> QED BY <3>1, <3>2, <3>3 DEF TableShape
    <2>2. PagesShape(p)
      <3>1. p = PagesOf(p.heaps, p.trees, p.schemas, p.tables, p.columns, p.indexes) BY <1>3, <1>p
      <3> QED BY <1>3, <1>5, <1>8, <3>1 DEF PagesShape, PagesOf
    <2>3. DOMAIN t \subseteq TableRef /\ \A r \in DOMAIN t : TableShape(t[r]) BY <1>5, <1>6, <2>1
    <2>4. e = DbOf(e.schemas, e.tables, e.pages) BY <1>e, <1>2
    <2>5. t = [r \in DOMAIN t |-> t[r]] BY <1>t DEF SetIndexes
    <2> QED BY <1>2, <2>2, <2>3, <2>4, <2>5 DEF Shape, DbOf
  <1>11. SchemasOK(e.schemas, e.pages) BY <1>2, <1>3, <1>4 DEF SchemasOK
  <1>12. DOMAIN t = DOMAIN old BY <1>6
  <1>13. TablesOK(e.schemas, e.tables, e.pages)
    <2>1. ASSUME NEW r \in DOMAIN t
          PROVE  /\ r[1] \in d.schemas /\ t[r].heap \in DOMAIN heaps
                 /\ \E row \in ToSet(q.tables) : row.ref = r
      <3>1. r \in DOMAIN old BY <1>12
      <3>2. /\ r[1] \in d.schemas /\ old[r].heap \in DOMAIN q.heaps
            /\ \E row \in ToSet(q.tables) : row.ref = r
        BY <1>4, <3>1 DEF TablesOK
      <3> QED BY <1>7, <1>9, <3>1, <3>2
    <2>2. \A a, b \in DOMAIN t : t[a].heap = t[b].heap => a = b
      <3>1. \A a, b \in DOMAIN old : old[a].heap = old[b].heap => a = b BY <1>4 DEF TablesOK
      <3> QED BY <1>7, <1>12, <3>1
    <2>3. \A row \in ToSet(q.tables) : row.ref \in DOMAIN t /\ row.heap = t[row.ref].heap
      <3>1. \A row \in ToSet(q.tables) : row.ref \in DOMAIN old /\ row.heap = old[row.ref].heap
        BY <1>4 DEF TablesOK
      <3> QED BY <1>7, <1>12, <3>1
    <2> QED BY <1>2, <1>3, <2>1, <2>2, <2>3 DEF TablesOK
  <1>14. \A r : LoadColumns(p, r) = LoadColumns(q, r) BY <1>3, LoadColumnsSame
  <1>15. ColumnsOK(e.tables, e.pages) BY <1>2, <1>3, <1>4, <1>7, <1>12, <1>14 DEF ColumnsOK, ColumnsOf
  <1>16. IndexesOK(e.tables, e.pages)
    <2>1. ASSUME NEW r \in DOMAIN t, NEW n \in DOMAIN t[r].indexes
          PROVE  \E row \in ToSet(rows) : row.ref = r /\ row.index = n
      <3>1. CASE n \in DOMAIN old[r].indexes
        <4>1. \E row \in ToSet(q.indexes) : row.ref = r /\ row.index = n
          BY <1>4, <1>12, <3>1 DEF IndexesOK
        <4> QED BY <4>1 DEF Recorded
      <3>2. CASE n \notin DOMAIN old[r].indexes
        <4>1. r = ref BY <1>6, <3>2
        <4>2. n \in DOMAIN x BY <1>6, <4>1
        <4> QED BY <3>2, <4>1, <4>2 DEF Recorded
      <3> QED BY <3>1, <3>2
    <2>2. ASSUME NEW row \in ToSet(rows) PROVE IndexRowOK(t, row)
      <3>1. CASE row \in ToSet(q.indexes)
        <4>1. IndexRowOK(old, row) BY <1>4, <3>1 DEF IndexesOK
        <4>2. CASE row.ref = ref
          <5>1. /\ row = [ref |-> row.ref, index |-> row.index, key |-> row.key, root |-> row.root]
                /\ row.index \in DOMAIN old[ref].indexes
                /\ RowKeyOK(old[ref].cols, row.key, old[ref].indexes[row.index].key)
            BY <4>1, <4>2 DEF IndexRowOK
          <5>2. row.index \in DOMAIN x /\ x[row.index].key = old[ref].indexes[row.index].key
            BY <5>1 DEF Recorded
          <5>3. row.ref \in DOMAIN t /\ t[row.ref].cols = old[ref].cols /\ t[row.ref].indexes = x
            BY <1>6, <4>2
          <5> QED BY <5>1, <5>2, <5>3 DEF IndexRowOK
        <4>3. CASE row.ref # ref
          <5>1. row.ref \in DOMAIN old BY <4>1 DEF IndexRowOK
          <5>2. row.ref \in DOMAIN t /\ t[row.ref] = old[row.ref] BY <1>6, <4>3, <5>1
          <5> QED BY <4>1, <5>2 DEF IndexRowOK
        <4> QED BY <4>2, <4>3
      <3>2. CASE row \notin ToSet(q.indexes)
        <4>1. /\ row = [ref |-> row.ref, index |-> row.index, key |-> row.key, root |-> row.root]
              /\ row.ref = ref /\ row.index \in DOMAIN x
              /\ RowKeyOK(old[ref].cols, row.key, x[row.index].key)
          BY <3>2 DEF Recorded
        <4>2. row.ref \in DOMAIN t /\ t[row.ref].cols = old[ref].cols /\ t[row.ref].indexes = x
          BY <1>6, <4>1
        <4> QED BY <4>1, <4>2 DEF IndexRowOK
      <3> QED BY <3>1, <3>2
    <2>3. OneKey(rows) BY DEF Recorded
    <2> QED BY <1>2, <1>3, <2>1, <2>2, <2>3 DEF IndexesOK
  <1>17. TreesOK(e.tables, e.pages)
    <2>1. ASSUME NEW r \in DOMAIN old, r # ref, NEW n \in DOMAIN old[r].indexes,
                 NEW root, root = old[r].indexes[n].root
          PROVE  Holds(trees, root, q.heaps[old[r].heap])
      <3>1. RootOf(root, r, n) /\ Holds(q.trees, root, q.heaps[old[r].heap]) BY <1>4, <2>1 DEF TreesOK
      <3>2. r \in TableRef /\ n \in IndexName BY <1>5 DEF TableShape
      <3>3. CASE root = NoRoot
        <4>1. IdsUnder(trees, root) = IdsUnder(q.trees, root) BY <3>3 DEF IdsUnder
        <4> QED BY <3>1, <3>3, <4>1 DEF Holds
      <3>4. CASE root # NoRoot
        <4>1. root.tree = <<r, n>> BY <3>1, <3>4 DEF RootOf
        <4>2. <<r, n>> \in DOMAIN q.trees BY <3>1, <3>4, <4>1 DEF Holds
        <4>3. <<r, n>> \in DOMAIN trees /\ trees[<<r, n>>] = q.trees[<<r, n>>]
          BY <2>1, <3>2, <4>2 DEF KeepsOthers
        <4>4. IdsUnder(trees, root) = IdsUnder(q.trees, root) BY <4>1, <4>3 DEF IdsUnder
        <4> QED BY <3>1, <4>1, <4>3, <4>4 DEF Holds
      <3> QED BY <3>3, <3>4
    <2>2. ASSUME NEW r \in DOMAIN old, r # ref PROVE heaps[old[r].heap] = q.heaps[old[r].heap]
      <3>1. old[r].heap # old[ref].heap /\ old[r].heap \in 1..Len(heaps)
        BY <1>4, <1>9, <2>2 DEF TablesOK
      <3> QED BY <3>1 DEF KeepsOthers
    <2>3. ASSUME NEW r \in DOMAIN old
          PROVE  /\ IsSeq(heaps[t[r].heap])
                 /\ \A n \in DOMAIN t[r].indexes :
                      /\ RootOf(t[r].indexes[n].root, r, n)
                      /\ Holds(trees, t[r].indexes[n].root, heaps[t[r].heap])
      <3>1. CASE r = ref
        <4>1. t[r].heap = old[ref].heap /\ t[r].indexes = x BY <1>6, <3>1
        <4> QED BY <3>1, <4>1 DEF IndexesFit
      <3>2. CASE r # ref
        <4>1. t[r] = old[r] BY <1>6, <3>2
        <4>2. heaps[old[r].heap] = q.heaps[old[r].heap] BY <2>2, <3>2
        <4>3. IsSeq(q.heaps[old[r].heap]) BY <1>4 DEF TreesOK
        <4>4. ASSUME NEW n \in DOMAIN old[r].indexes
              PROVE  /\ RootOf(old[r].indexes[n].root, r, n)
                     /\ Holds(trees, old[r].indexes[n].root, q.heaps[old[r].heap])
          <5>1. PICK root : root = old[r].indexes[n].root OBVIOUS
          <5>2. RootOf(root, r, n) BY <1>4, <5>1 DEF TreesOK
          <5>3. Holds(trees, root, q.heaps[old[r].heap]) BY <2>1, <3>2, <5>1
          <5> QED BY <5>1, <5>2, <5>3
        <4> QED BY <4>1, <4>2, <4>3, <4>4
      <3> QED BY <3>1, <3>2
    <2> QED BY <1>2, <1>3, <1>12, <2>3 DEF TreesOK
  <1> QED BY <1>t, <1>p, <1>e, <1>10, <1>11, <1>13, <1>15, <1>16, <1>17 DEF DbOK

(***************************************************************************)
(* UPDATE.                                                                 *)
(***************************************************************************)

LEMMA HeapPut ==
  ASSUME NEW h, IsSeq(h), NEW at \in 1..Len(h), NEW v, NEW g, g = [h EXCEPT ![at] = v]
  PROVE  /\ IsSeq(g) /\ Len(g) = Len(h) /\ g[at] = v
         /\ \A i \in 1..Len(g) : i # at => g[i] = h[i]
  <1>1. Len(h) \in Nat /\ DOMAIN h = 1..Len(h) BY SeqFacts
  <1>2. g = [i \in 1..Len(h) |-> IF i = at THEN v ELSE h[i]] BY <1>1
  <1>3. g = [i \in 1..Len(h) |-> g[i]] BY <1>2
  <1>4. IsSeq(g) /\ Len(g) = Len(h) BY <1>1, <1>3, FunctionIsSeq
  <1> QED BY <1>2, <1>4

LEMMA SameIndexes ==
  ASSUME NEW d, DbOK(d), NEW old, old = d.tables, NEW ref \in DOMAIN old
  PROVE  SetIndexes(old, ref, old[ref].indexes) = old
  <1>1. old = [r \in DOMAIN old |-> old[r]] /\ TableShape(old[ref]) BY DEF DbOK, Shape
  <1>2. old[ref] = [cols |-> old[ref].cols, heap |-> old[ref].heap, indexes |-> old[ref].indexes]
    BY <1>1 DEF TableShape
  <1>3. PICK t : t = SetIndexes(old, ref, old[ref].indexes) OBVIOUS
  <1>4. t = [r \in DOMAIN old |-> t[r]] BY <1>3 DEF SetIndexes
  <1>5. t[ref] = old[ref] BY <1>2, <1>3, SetIndexesIs
  <1>6. \A r \in DOMAIN old : r # ref => t[r] = old[r] BY <1>3 DEF SetIndexes
  <1> QED BY <1>1, <1>3, <1>4, <1>5, <1>6

PutHeapAt(d, at, v) == [d EXCEPT !.pages.heaps[at] = v]

LEMMA PutHeapAtIs ==
  ASSUME NEW d, DbOK(d), NEW at, NEW v, NEW q, q = d.pages
  PROVE  PutHeapAt(d, at, v) =
           DbOf(d.schemas, d.tables, PagesOf([q.heaps EXCEPT ![at] = v], q.trees, q.schemas,
                                             q.tables, q.columns, q.indexes))
  <1>1. PICK h : h = [q.heaps EXCEPT ![at] = v] OBVIOUS
  <1>2. PutHeapAt(d, at, v) = PutPages(d, PutHeaps(q, h))
    BY <1>1 DEF PutHeapAt, PutPages, PutHeaps
  <1>3. q = PagesOf(q.heaps, q.trees, q.schemas, q.tables, q.columns, q.indexes)
        /\ d = DbOf(d.schemas, d.tables, q)
    BY DbIs
  <1>4. PutHeaps(q, h) = PagesOf(h, q.trees, q.schemas, q.tables, q.columns, q.indexes)
    BY <1>3, PutField
  <1>5. PutPages(d, PutHeaps(q, h)) = DbOf(d.schemas, d.tables, PutHeaps(q, h)) BY <1>3, PutDb
  <1> QED BY <1>1, <1>2, <1>4, <1>5

(* Facts about one table of a database. *)
LEMMA TableFacts ==
  ASSUME NEW d, DbOK(d), NEW q, q = d.pages, NEW old, old = d.tables, NEW ref \in DOMAIN old
  PROVE  /\ IsSeq(q.heaps) /\ old[ref].heap \in 1..Len(q.heaps) /\ IsSeq(q.indexes)
         /\ ref \in TableRef
         /\ IndexesFit(old[ref].indexes, ref, q.trees, q.heaps[old[ref].heap])
         /\ Recorded(q, q.indexes, old[ref].cols, ref, old[ref].indexes, old[ref].indexes)
  <1>1. /\ Shape(d) /\ TablesOK(d.schemas, old, q) /\ IndexesOK(old, q) /\ TreesOK(old, q) BY DEF DbOK
  <1>2. IsSeq(q.heaps) /\ IsSeq(q.indexes) /\ ref \in TableRef /\ TableShape(old[ref])
    BY <1>1 DEF Shape, PagesShape
  <1>3. old[ref].heap \in 1..Len(q.heaps) BY <1>1, <1>2, SeqFacts DEF TablesOK
  <1>4. IndexesFit(old[ref].indexes, ref, q.trees, q.heaps[old[ref].heap])
    BY <1>1, <1>2 DEF IndexesFit, TreesOK, TableShape
  <1>5. Recorded(q, q.indexes, old[ref].cols, ref, old[ref].indexes, old[ref].indexes)
    BY <1>1, <1>2 DEF Recorded, IndexesOK
  <1> QED BY <1>2, <1>3, <1>4, <1>5

(* Values of rows change, their ids do not. *)
LEMMA UpdatedOK ==
  ASSUME NEW d, DbOK(d), NEW ref \in DOMAIN d.tables, NEW results
  PROVE  DbOK(Updated(d, ref, results))
  <1>q. PICK q : q = d.pages OBVIOUS
  <1>o. PICK old : old = d.tables OBVIOUS
  <1>r. ref \in DOMAIN old BY <1>o
  <1>a. PICK at : at = old[ref].heap OBVIOUS
  <1>h. PICK h : h = q.heaps[at] OBVIOUS
  <1>v. PICK v : v = [k \in DOMAIN h |-> IF k \in DOMAIN results THEN results[k] ELSE h[k]] OBVIOUS
  <1>g. PICK g : g = [q.heaps EXCEPT ![at] = v] OBVIOUS
  <1>x. PICK x : x = old[ref].indexes OBVIOUS
  <1>1. Updated(d, ref, results) = PutHeapAt(d, at, v)
    BY <1>q, <1>o, <1>a, <1>h, <1>v DEF Updated, PutHeapAt
  <1>2. PutHeapAt(d, at, v) =
           DbOf(d.schemas, old, PagesOf(g, q.trees, q.schemas, q.tables, q.columns, q.indexes))
    BY <1>q, <1>o, <1>g, PutHeapAtIs
  <1>3. /\ IsSeq(q.heaps) /\ at \in 1..Len(q.heaps)
        /\ IndexesFit(x, ref, q.trees, h)
        /\ Recorded(q, q.indexes, old[ref].cols, ref, x, x)
    BY <1>q, <1>o, <1>r, <1>a, <1>h, <1>x, TableFacts
  <1>4. IsSeq(g) /\ Len(g) = Len(q.heaps) /\ g[at] = v /\ \A i \in 1..Len(g) : i # at => g[i] = q.heaps[i]
    BY <1>3, <1>g, HeapPut
  <1>5. KeepsOthers(q, ref, at, g, q.trees) BY <1>4 DEF KeepsOthers
  <1>6. IsSeq(h) BY <1>3 DEF IndexesFit
  <1>7. Len(h) \in Nat /\ DOMAIN h = 1..Len(h) BY <1>6, SeqFacts
  <1>8. v = [k \in 1..Len(h) |-> v[k]] BY <1>7, <1>v
  <1>9. IsSeq(v) /\ Len(v) = Len(h) /\ DOMAIN v = DOMAIN h BY <1>7, <1>8, FunctionIsSeq
  <1>10. \A root : Holds(q.trees, root, h) => Holds(q.trees, root, v) BY <1>9 DEF Covers, Holds
  <1>11. IndexesFit(x, ref, q.trees, v) BY <1>3, <1>9, <1>10 DEF IndexesFit
  <1>12. DbOK(DbOf(d.schemas, SetIndexes(old, ref, x),
                   PagesOf(g, q.trees, q.schemas, q.tables, q.columns, q.indexes)))
    BY <1>q, <1>o, <1>r, <1>a, <1>x, <1>3, <1>4, <1>5, <1>11, ChangedOK
  <1>13. SetIndexes(old, ref, x) = old BY <1>o, <1>r, <1>x, SameIndexes
  <1> QED BY <1>1, <1>2, <1>12, <1>13

(***************************************************************************)
(* Inserting into one index.                                               *)
(***************************************************************************)

PutRootAt(t, ref, name, new) == [t EXCEPT ![ref].indexes[name].root = new]

(* The indexes x with a new root for one of them. *)
Rooted(x, name, new) ==
  [n \in DOMAIN x |-> IF n = name THEN [key |-> x[name].key, root |-> new] ELSE x[n]]

LEMMA SetIndexesTwice ==
  ASSUME NEW old, NEW ref \in DOMAIN old, NEW x, NEW y
  PROVE  SetIndexes(SetIndexes(old, ref, x), ref, y) = SetIndexes(old, ref, y)
  <1>1. PICK t : t = SetIndexes(old, ref, x) OBVIOUS
  <1>2. DOMAIN t = DOMAIN old /\ t[ref].cols = old[ref].cols /\ t[ref].heap = old[ref].heap
    BY <1>1, SetIndexesFields
  <1>3. \A r \in DOMAIN old : r # ref => t[r] = old[r] BY <1>1 DEF SetIndexes
  <1>4. SetIndexes(t, ref, y) = SetIndexes(old, ref, y) BY <1>2, <1>3 DEF SetIndexes
  <1> QED BY <1>1, <1>4

LEMMA PutRootAtIs ==
  ASSUME NEW old, NEW ref \in DOMAIN old, NEW x, NEW name \in DOMAIN x, NEW new,
         x[name] = [key |-> x[name].key, root |-> x[name].root]
  PROVE  PutRootAt(SetIndexes(old, ref, x), ref, name, new) = SetIndexes(old, ref, Rooted(x, name, new))
  <1>t. PICK t : t = SetIndexes(old, ref, x) OBVIOUS
  <1>1. /\ DOMAIN t = DOMAIN old
        /\ t[ref] = [cols |-> old[ref].cols, heap |-> old[ref].heap, indexes |-> x]
        /\ t[ref].indexes = x
    BY <1>t, SetIndexesIs
  <1>2. \A r \in DOMAIN old : r # ref => t[r] = old[r] BY <1>t DEF SetIndexes
  <1>3. PICK i : i = [x[name] EXCEPT !.root = new] OBVIOUS
  <1>4. i = [key |-> x[name].key, root |-> new] BY <1>3
  <1>5. PICK y : y = [x EXCEPT ![name] = i] OBVIOUS
  <1>6. y = Rooted(x, name, new) BY <1>4, <1>5 DEF Rooted
  <1>7. PICK u : u = [t[ref] EXCEPT !.indexes = y] OBVIOUS
  <1>8. u = [cols |-> old[ref].cols, heap |-> old[ref].heap, indexes |-> y] BY <1>1, <1>7
  <1>9. PutRootAt(t, ref, name, new) = [t EXCEPT ![ref] = u]
    BY <1>1, <1>3, <1>5, <1>7 DEF PutRootAt
  <1>10. [t EXCEPT ![ref] = u] = [r \in DOMAIN old |-> IF r = ref THEN u ELSE old[r]]
    BY <1>1, <1>2
  <1>11. SetIndexes(old, ref, y) = [r \in DOMAIN old |-> IF r = ref THEN u ELSE old[r]]
    BY <1>8 DEF SetIndexes
  <1> QED BY <1>t, <1>6, <1>9, <1>10, <1>11

IndexChange(d, ref, name, new, trees) ==
  [d EXCEPT !.tables[ref].indexes[name].root = new, !.pages.trees = trees]

LEMMA IndexChangeIs ==
  ASSUME NEW s, NEW old, NEW ref \in DOMAIN old, NEW x, NEW name \in DOMAIN x, NEW new,
         x[name] = [key |-> x[name].key, root |-> x[name].root],
         NEW h, NEW tr, NEW ss, NEW tt, NEW c, NEW r, NEW trees
  PROVE  IndexChange(DbOf(s, SetIndexes(old, ref, x), PagesOf(h, tr, ss, tt, c, r)),
                     ref, name, new, trees)
           = DbOf(s, SetIndexes(old, ref, Rooted(x, name, new)), PagesOf(h, trees, ss, tt, c, r))
  <1>t. PICK t : t = SetIndexes(old, ref, x) OBVIOUS
  <1>p. PICK p : p = PagesOf(h, tr, ss, tt, c, r) OBVIOUS
  <1>d. PICK d : d = DbOf(s, t, p) OBVIOUS
  <1>u. PICK u : u = PutRootAt(t, ref, name, new) OBVIOUS
  <1>1. d.tables = t /\ d.pages = p BY <1>d, DbOfIs
  <1>2. PICK d1 : d1 = PutTables(d, PutRootAt(d.tables, ref, name, new)) OBVIOUS
  <1>3. d1 = DbOf(s, u, p) BY <1>d, <1>u, <1>1, <1>2, PutDb
  <1>4. d1.pages = p BY <1>3, DbOfIs
  <1>5. IndexChange(d, ref, name, new, trees) = PutPages(d1, PutTrees(d1.pages, trees))
    BY <1>2 DEF IndexChange, PutPages, PutTrees, PutTables, PutRootAt
  <1>6. PutTrees(p, trees) = PagesOf(h, trees, ss, tt, c, r) BY <1>p, PutField
  <1>7. PutPages(d1, PutTrees(d1.pages, trees)) = DbOf(s, u, PagesOf(h, trees, ss, tt, c, r))
    BY <1>3, <1>4, <1>6, PutDb
  <1>8. u = SetIndexes(old, ref, Rooted(x, name, new)) BY <1>t, <1>u, PutRootAtIs
  <1> QED BY <1>t, <1>p, <1>d, <1>5, <1>7, <1>8

(* The root of an index after an insertion is still one of the index. *)
LEMMA RootAfterIs ==
  ASSUME NEW ref \in TableRef, NEW n \in IndexName, NEW root, RootOf(root, ref, n), NEW moves \in Nat,
         NEW new, new = RootAfter(root, <<ref, n>>, moves)
  PROVE  RootOf(new, ref, n) /\ new # NoRoot /\ new.tree = <<ref, n>>
  <1>1. CASE root = NoRoot
    <2>1. new = [tree |-> <<ref, n>>, moves |-> moves] BY <1>1 DEF RootAfter
    <2>2. new \in [tree : {<<ref, n>>}, moves : Nat] BY <2>1
    <2>3. new \in [tree : TableRef \X IndexName, moves : Nat] BY <2>1
    <2> QED BY <2>1, <2>2, <2>3, CatalogAssumption DEF RootOf
  <1>2. CASE root # NoRoot
    <2>1. root \in [tree : {<<ref, n>>}, moves : Nat] BY <1>2 DEF RootOf
    <2>2. new = [root EXCEPT !.moves = root.moves + moves] BY <1>2 DEF RootAfter
    <2>3. root = [tree |-> <<ref, n>>, moves |-> root.moves] /\ root.moves \in Nat BY <2>1
    <2>4. PICK m \in Nat : m = root.moves + moves BY <2>3
    <2>5. new = [tree |-> <<ref, n>>, moves |-> m] BY <2>2, <2>3, <2>4
    <2>6. new \in [tree : {<<ref, n>>}, moves : Nat] BY <2>5
    <2>7. new \in [tree : TableRef \X IndexName, moves : Nat] BY <2>5
    <2> QED BY <2>5, <2>6, <2>7, CatalogAssumption DEF RootOf
  <1> QED BY <1>1, <1>2

LEMMA TableIndexesOf ==
  ASSUME NEW s, NEW old, NEW ref \in DOMAIN old, NEW x, NEW p
  PROVE  TableIndexes(DbOf(s, SetIndexes(old, ref, x), p), ref) = x
  <1>1. SetIndexes(old, ref, x)[ref].indexes = x BY SetIndexesFields
  <1>2. DbOf(s, SetIndexes(old, ref, x), p).tables = SetIndexes(old, ref, x) BY DbOfIs
  <1> QED BY <1>1, <1>2 DEF TableIndexes

IndexShape(i) == i = [key |-> i.key, root |-> i.root]

(* The indexes x and the trees after an insertion into one index. *)
NewRoot(ref, x, name, moves) == Rooted(x, name, RootAfter(x[name].root, <<ref, name>>, moves))

NewTree(ref, trees, x, name, ids, moves) ==
  With(trees, RootAfter(x[name].root, <<ref, name>>, moves).tree, IdsUnder(trees, x[name].root) \o ids)

LEMMA IndexInsertIs ==
  ASSUME NEW s, NEW old, NEW ref \in DOMAIN old, NEW x, NEW name \in DOMAIN x,
         IndexShape(x[name]),
         NEW h, NEW tr, NEW ss, NEW tt, NEW c, NEW r, NEW ids, ids # <<>>, NEW moves
  PROVE  IndexInsert(DbOf(s, SetIndexes(old, ref, x), PagesOf(h, tr, ss, tt, c, r)),
                     ref, name, ids, moves) =
           DbOf(s, SetIndexes(old, ref, NewRoot(ref, x, name, moves)),
                PagesOf(h, NewTree(ref, tr, x, name, ids, moves), ss, tt, c, r))
  <1>n. PICK new : new = RootAfter(x[name].root, <<ref, name>>, moves) OBVIOUS
  <1>d. PICK d : d = DbOf(s, SetIndexes(old, ref, x), PagesOf(h, tr, ss, tt, c, r)) OBVIOUS
  <1>t. PICK t : t = SetIndexes(old, ref, x) OBVIOUS
  <1>p. PICK p : p = PagesOf(h, tr, ss, tt, c, r) OBVIOUS
  <1>1. d.tables = t /\ d.pages = p BY <1>d, <1>t, <1>p, DbOfIs
  <1>2. p.trees = tr BY <1>p, PagesOfIs
  <1>3. TableIndexes(d, ref) = x
    <2>1. TableIndexes(DbOf(s, SetIndexes(old, ref, x), p), ref) = x BY TableIndexesOf
    <2> QED BY <1>d, <1>p, <2>1
  <1>4. TreeIds(d, x[name].root) = IdsUnder(tr, x[name].root) BY <1>1, <1>2 DEF TreeIds, IdsUnder
  <1>5. PICK trees : trees = With(tr, new.tree, IdsUnder(tr, x[name].root) \o ids) OBVIOUS
  <1>6. IndexInsert(d, ref, name, ids, moves) = IndexChange(d, ref, name, new, trees)
    BY <1>n, <1>1, <1>2, <1>3, <1>4, <1>5 DEF IndexInsert, IndexChange
  <1>7. x[name] = [key |-> x[name].key, root |-> x[name].root] BY DEF IndexShape
  <1>8. IndexChange(d, ref, name, new, trees) =
          DbOf(s, SetIndexes(old, ref, Rooted(x, name, new)), PagesOf(h, trees, ss, tt, c, r))
    BY <1>d, <1>7, IndexChangeIs
  <1>9. Rooted(x, name, new) = NewRoot(ref, x, name, moves) BY <1>n DEF NewRoot
  <1>10. trees = NewTree(ref, tr, x, name, ids, moves) BY <1>n, <1>5 DEF NewTree
  <1> QED BY <1>d, <1>6, <1>8, <1>9, <1>10

(***************************************************************************)
(* CREATE INDEX.                                                           *)
(***************************************************************************)

PutIndexesAt(d, ref, x) == [d EXCEPT !.tables[ref].indexes = x]

LEMMA PutIndexesAtIs ==
  ASSUME NEW d, DbOK(d), NEW old, old = d.tables, NEW ref \in DOMAIN old, NEW x, NEW q, q = d.pages
  PROVE  PutIndexesAt(d, ref, x) =
           DbOf(d.schemas, SetIndexes(old, ref, x),
                PagesOf(q.heaps, q.trees, q.schemas, q.tables, q.columns, q.indexes))
  <1>1. PICK u : u = [old[ref] EXCEPT !.indexes = x] OBVIOUS
  <1>2. TableShape(old[ref]) BY DEF DbOK, Shape
  <1>3. old[ref] = [cols |-> old[ref].cols, heap |-> old[ref].heap, indexes |-> old[ref].indexes]
    BY <1>2 DEF TableShape
  <1>4. u = [cols |-> old[ref].cols, heap |-> old[ref].heap, indexes |-> x] BY <1>1, <1>3
  <1>5. PICK t : t = [old EXCEPT ![ref] = u] OBVIOUS
  <1>6. t = SetIndexes(old, ref, x) BY <1>4, <1>5 DEF SetIndexes
  <1>7. PutIndexesAt(d, ref, x) = PutTables(d, t) BY <1>1, <1>5 DEF PutIndexesAt, PutTables
  <1>8. q = PagesOf(q.heaps, q.trees, q.schemas, q.tables, q.columns, q.indexes)
        /\ d = DbOf(d.schemas, d.tables, q)
    BY DbIs
  <1>9. PutTables(d, t) = DbOf(d.schemas, t, q) BY <1>8, PutDb
  <1> QED BY <1>6, <1>7, <1>8, <1>9

LEMMA FirstIds ==
  ASSUME NEW heap, IsSeq(heap), NEW ids, ids = [k \in DOMAIN heap |-> k]
  PROVE  Covers(ids, heap)
  <1>1. Len(heap) \in Nat /\ DOMAIN heap = 1..Len(heap) BY SeqFacts
  <1>2. ids = [k \in 1..Len(heap) |-> ids[k]] BY <1>1
  <1>3. IsSeq(ids) /\ Len(ids) = Len(heap) BY <1>1, <1>2, FunctionIsSeq
  <1>4. ToSet(ids) = DOMAIN heap BY DEF ToSet
  <1> QED BY <1>3, <1>4 DEF Covers

(* The indexes of a table and an empty one. *)
EmptyIndex(idx, name, key) == With(idx, name, [key |-> key, root |-> NoRoot])

(* x and trees are the indexes of a table and all trees with one index more. *)
OneMore(p, ref, name, key, heap, idx, x, trees) ==
  /\ DOMAIN x = DOMAIN idx \cup {name} /\ \A n \in DOMAIN idx : x[n] = idx[n]
  /\ x[name] = [key |-> key, root |-> x[name].root]
  /\ RootOf(x[name].root, ref, name) /\ Holds(trees, x[name].root, heap)
  /\ \A t \in DOMAIN p.trees : t # <<ref, name>> => t \in DOMAIN trees /\ trees[t] = p.trees[t]

LEMMA IndexBuilt ==
  ASSUME NEW d, DbOK(d), NEW old, old = d.tables, NEW ref \in DOMAIN old, NEW q, q = d.pages,
         NEW name \in IndexName, name \notin DOMAIN old[ref].indexes, NEW key, NEW moves \in Nat,
         NEW ids, Covers(ids, q.heaps[old[ref].heap]),
         NEW x1, x1 = EmptyIndex(old[ref].indexes, name, key)
  PROVE  \E x, trees :
           /\ IndexInsert(PutIndexesAt(d, ref, x1), ref, name, ids, moves) =
                DbOf(d.schemas, SetIndexes(old, ref, x),
                     PagesOf(q.heaps, trees, q.schemas, q.tables, q.columns, q.indexes))
           /\ OneMore(q, ref, name, key, q.heaps[old[ref].heap], old[ref].indexes, x, trees)
  <1>i. PICK idx : idx = old[ref].indexes OBVIOUS
  <1>h. PICK heap : heap = q.heaps[old[ref].heap] OBVIOUS
  <1>d. PICK d1 : d1 = PutIndexesAt(d, ref, x1) OBVIOUS
  <1>1. d1 = DbOf(d.schemas, SetIndexes(old, ref, x1),
                  PagesOf(q.heaps, q.trees, q.schemas, q.tables, q.columns, q.indexes))
    BY <1>d, PutIndexesAtIs
  <1>2. DOMAIN x1 = DOMAIN idx \cup {name} /\ x1[name] = [key |-> key, root |-> NoRoot]
        /\ \A n \in DOMAIN idx : x1[n] = idx[n]
    BY <1>i DEF With, EmptyIndex
  <1>3. x1[name].root = NoRoot /\ x1[name].key = key BY <1>2
  <1>4. IndexesFit(idx, ref, q.trees, heap) /\ ref \in TableRef BY <1>i, <1>h, TableFacts
  <1>5. IsSeq(heap) BY <1>4 DEF IndexesFit
  <1>6. Covers(ids, heap) BY <1>h
  <1>7. CASE ids = <<>>
    <2>1. IndexInsert(d1, ref, name, ids, moves) = d1 BY <1>7 DEF IndexInsert
    <2>2. RootOf(NoRoot, ref, name) BY DEF RootOf
    <2>3. Holds(q.trees, NoRoot, heap) BY <1>6, <1>7 DEF Holds, IdsUnder
    <2>4. OneMore(q, ref, name, key, heap, idx, x1, q.trees) BY <1>2, <1>3, <2>2, <2>3 DEF OneMore
    <2> QED BY <1>i, <1>h, <1>d, <1>1, <2>1, <2>4
  <1>8. CASE ids # <<>>
    <2>n. PICK new : new = RootAfter(NoRoot, <<ref, name>>, moves) OBVIOUS
    <2>1. RootOf(NoRoot, ref, name) BY DEF RootOf
    <2>2. RootOf(new, ref, name) /\ new # NoRoot /\ new.tree = <<ref, name>>
      BY <1>4, <2>n, <2>1, RootAfterIs
    <2>x. PICK x : x = Rooted(x1, name, new) OBVIOUS
    <2>t. PICK trees : trees = With(q.trees, <<ref, name>>, ids) OBVIOUS
    <2>3. IdsUnder(q.trees, NoRoot) \o ids = ids
      <3>1. IdsUnder(q.trees, NoRoot) = <<>> BY DEF IdsUnder
      <3>2. ids \in Seq(ToSet(ids)) BY <1>6 DEF Covers, IsSeq
      <3>3. <<>> \o ids = ids BY <3>2
      <3> QED BY <3>1, <3>3
    <2>4. name \in DOMAIN x1 /\ x1[name] = [key |-> x1[name].key, root |-> x1[name].root] BY <1>2, <1>3
    <2>5. IndexInsert(d1, ref, name, ids, moves) =
            DbOf(d.schemas, SetIndexes(old, ref, NewRoot(ref, x1, name, moves)),
                 PagesOf(q.heaps, NewTree(ref, q.trees, x1, name, ids, moves),
                         q.schemas, q.tables, q.columns, q.indexes))
      <3>2. IndexShape(x1[name]) BY <2>4 DEF IndexShape
      <3>3. name \in DOMAIN x1 BY <2>4
      <3>4. IndexInsert(DbOf(d.schemas, SetIndexes(old, ref, x1),
                             PagesOf(q.heaps, q.trees, q.schemas, q.tables, q.columns, q.indexes)),
                        ref, name, ids, moves) =
              DbOf(d.schemas, SetIndexes(old, ref, NewRoot(ref, x1, name, moves)),
                   PagesOf(q.heaps, NewTree(ref, q.trees, x1, name, ids, moves),
                           q.schemas, q.tables, q.columns, q.indexes))
        BY <1>8, <3>2, <3>3, IndexInsertIs
      <3> QED BY <1>1, <3>4
    <2>a. NewRoot(ref, x1, name, moves) = x BY <1>3, <2>n, <2>x DEF NewRoot
    <2>b. NewTree(ref, q.trees, x1, name, ids, moves) = trees
      BY <1>3, <2>n, <2>t, <2>2, <2>3 DEF NewTree
    <2>6. IndexInsert(d1, ref, name, ids, moves) =
            DbOf(d.schemas, SetIndexes(old, ref, x),
                 PagesOf(q.heaps, trees, q.schemas, q.tables, q.columns, q.indexes))
      BY <2>5, <2>a, <2>b
    <2>7. DOMAIN x = DOMAIN idx \cup {name} /\ x[name] = [key |-> key, root |-> new]
      BY <1>2, <1>3, <2>x DEF Rooted
    <2>8. \A n \in DOMAIN idx : x[n] = idx[n]
      <3>1. \A n \in DOMAIN idx : n # name BY <1>i
      <3>2. \A n \in DOMAIN idx : x[n] = x1[n] BY <1>2, <2>x, <3>1 DEF Rooted
      <3> QED BY <1>2, <3>2
    <2>9. x[name].root = new BY <2>7
    <2>10. trees[<<ref, name>>] = ids /\ <<ref, name>> \in DOMAIN trees BY <2>t DEF With
    <2>11. \A t \in DOMAIN q.trees : t # <<ref, name>> => t \in DOMAIN trees /\ trees[t] = q.trees[t]
      BY <2>t DEF With
    <2>12. Holds(trees, new, heap) BY <1>6, <2>2, <2>10 DEF Holds, IdsUnder
    <2>13. OneMore(q, ref, name, key, heap, idx, x, trees)
      BY <2>2, <2>7, <2>8, <2>9, <2>11, <2>12 DEF OneMore
    <2> QED BY <1>i, <1>h, <1>d, <2>6, <2>13
  <1> QED BY <1>7, <1>8

(* A tree that is not touched still holds its rows. *)
LEMMA HoldsStill ==
  ASSUME NEW old, NEW trees, NEW root, NEW ref, NEW n, NEW heap,
         RootOf(root, ref, n), Holds(old, root, heap),
         <<ref, n>> \in DOMAIN old => <<ref, n>> \in DOMAIN trees /\ trees[<<ref, n>>] = old[<<ref, n>>]
  PROVE  Holds(trees, root, heap)
  <1>1. CASE root = NoRoot
    <2>1. IdsUnder(trees, root) = IdsUnder(old, root) BY <1>1 DEF IdsUnder
    <2> QED BY <1>1, <2>1 DEF Holds
  <1>2. CASE root # NoRoot
    <2>1. root.tree = <<ref, n>> BY <1>2 DEF RootOf
    <2>2. <<ref, n>> \in DOMAIN old BY <1>2, <2>1 DEF Holds
    <2>3. IdsUnder(trees, root) = IdsUnder(old, root) BY <2>1, <2>2 DEF IdsUnder
    <2> QED BY <2>1, <2>2, <2>3 DEF Holds
  <1> QED BY <1>1, <1>2

LEMMA OneMoreFits ==
  ASSUME NEW q, NEW ref, NEW name \in IndexName, NEW key, NEW heap, NEW idx, NEW x, NEW trees,
         name \notin DOMAIN idx, OneMore(q, ref, name, key, heap, idx, x, trees),
         IndexesFit(idx, ref, q.trees, heap)
  PROVE  IndexesFit(x, ref, trees, heap)
  <1>1. DOMAIN x = DOMAIN idx \cup {name} /\ \A n \in DOMAIN idx : x[n] = idx[n] BY DEF OneMore
  <1>2. x[name] = [key |-> key, root |-> x[name].root] BY DEF OneMore
  <1>3. RootOf(x[name].root, ref, name) /\ Holds(trees, x[name].root, heap) BY DEF OneMore
  <1>4. \A t \in DOMAIN q.trees : t # <<ref, name>> => t \in DOMAIN trees /\ trees[t] = q.trees[t]
    BY DEF OneMore
  <1>5. IsSeq(heap) /\ IsFiniteSet(DOMAIN idx) /\ DOMAIN idx \subseteq IndexName BY DEF IndexesFit
  <1>6. IsFiniteSet(DOMAIN x) /\ DOMAIN x \subseteq IndexName BY <1>1, <1>5, FS_AddElement
  <1>7. \A n \in DOMAIN idx : idx[n] = [key |-> idx[n].key, root |-> idx[n].root] BY DEF IndexesFit
  <1>8. \A n \in DOMAIN idx : RootOf(idx[n].root, ref, n) /\ Holds(q.trees, idx[n].root, heap)
    BY DEF IndexesFit
  <1>9. ASSUME NEW n \in DOMAIN x PROVE x[n] = [key |-> x[n].key, root |-> x[n].root]
    <2>1. CASE n = name
      <3>1. x[name].key = key BY <1>2
      <3> QED BY <1>2, <2>1, <3>1
    <2>2. CASE n \in DOMAIN idx
      <3>1. x[n] = idx[n] BY <1>1, <2>2
      <3> QED BY <1>7, <2>2, <3>1
    <2> QED BY <1>1, <2>1, <2>2
  <1>10. ASSUME NEW n \in DOMAIN x PROVE RootOf(x[n].root, ref, n) /\ Holds(trees, x[n].root, heap)
    <2>1. CASE n = name BY <1>3, <2>1
    <2>2. CASE n \in DOMAIN idx
      <3>1. PICK root : root = idx[n].root OBVIOUS
      <3>2. RootOf(root, ref, n) /\ Holds(q.trees, root, heap) BY <1>8, <2>2, <3>1
      <3>3. <<ref, n>> # <<ref, name>> BY <2>2
      <3>4. <<ref, n>> \in DOMAIN q.trees =>
              <<ref, n>> \in DOMAIN trees /\ trees[<<ref, n>>] = q.trees[<<ref, n>>]
        BY <1>4, <3>3
      <3>5. Holds(trees, root, heap) BY <3>2, <3>4, HoldsStill
      <3>6. x[n].root = root BY <1>1, <2>2, <3>1
      <3> QED BY <3>2, <3>5, <3>6
    <2> QED BY <1>1, <2>1, <2>2
  <1> QED BY <1>5, <1>6, <1>9, <1>10 DEF IndexesFit

(* Names that come back from their text one by one come back from a list. *)
Flattens(f, seqs, n) == f = [i \in 1..n |-> IF i = 1 THEN seqs[i] ELSE f[i - 1] \o seqs[i]]

LEMMA KeyVarcharPlain ==
  ASSUME NEW key \in Seq(STRING) \ {<<>>}, \A i \in DOMAIN key : Pieces(key[i]) = <<key[i]>>
  PROVE  KeyVarchar(key) = key
  <1>n. PICK n : n = Len(key) OBVIOUS
  <1>s. PICK ss : ss = [i \in DOMAIN key |-> Pieces(key[i])] OBVIOUS
  <1>1. n \in Nat /\ DOMAIN key = 1..n /\ n # 0 BY <1>n
  <1>2. Len(ss) = n
    <2>1. ss = [i \in 1..n |-> ss[i]] BY <1>s, <1>1
    <2> QED BY <1>1, <2>1, FunctionIsSeq
  <1>3. \A i \in 1..n : ss[i] = <<key[i]>> BY <1>s, <1>1
  <1>4. SubSeq(key, 1, 1) = <<key[1]>>
    <2>1. SubSeq(key, 1, 1) = <<key[1]>> \o SubSeq(key, 1 + 1, 1) BY <1>n, <1>1, SubSeqRecursiveFirst
    <2>2. SubSeq(key, 1 + 1, 1) = <<>> BY SubSeqEmpty
    <2>3. <<key[1]>> \in Seq({key[1]}) OBVIOUS
    <2>4. <<key[1]>> \o <<>> = <<key[1]>> BY <2>3, ConcatEmptySeq
    <2> QED BY <2>1, <2>2, <2>4
  <1>5. ASSUME NEW i \in 1..n, i # 1
        PROVE  SubSeq(key, 1, i) = SubSeq(key, 1, i - 1) \o <<key[i]>>
    <2>1. i - 1 \in 0..(Len(key) - 1) /\ (i - 1) + 1 = i BY <1>n, <1>1, <1>5
    <2> QED BY <1>n, <1>1, <1>5, <2>1
  <1>h. PICK h : h = CHOOSE f : Flattens(f, ss, n) OBVIOUS
  <1>6. KeyVarchar(key) = h[n]
    <2>1. KeyVarchar(key) = FlattenSeq(ss) BY <1>s DEF KeyVarchar
    <2>2. FlattenSeq(ss) = (CHOOSE f : f = [i \in 1..Len(ss) |->
                              IF i = 1 THEN ss[i] ELSE f[i - 1] \o ss[i]])[Len(ss)]
      BY <1>1, <1>2 DEF FlattenSeq
    <2> QED BY <1>2, <1>h, <2>1, <2>2 DEF Flattens
  <1>7. Flattens(h, ss, n)
    <2>1. PICK f : f = [i \in 1..n |-> SubSeq(key, 1, i)] OBVIOUS
    <2>2. ASSUME NEW i \in 1..n PROVE f[i] = IF i = 1 THEN ss[i] ELSE f[i - 1] \o ss[i]
      <3>1. CASE i = 1 BY <1>3, <1>4, <2>1, <3>1
      <3>2. CASE i # 1
        <4>1. i - 1 \in 1..n BY <1>1, <3>2
        <4>2. f[i] = SubSeq(key, 1, i) /\ f[i - 1] = SubSeq(key, 1, i - 1) BY <2>1, <4>1
        <4> QED BY <1>3, <1>5, <3>2, <4>2
      <3> QED BY <3>1, <3>2
    <2>3. Flattens(f, ss, n) BY <2>1, <2>2 DEF Flattens
    <2> QED BY <1>h, <2>3
  <1>8. \A i \in 1..n : h[i] = IF i = 1 THEN ss[i] ELSE h[i - 1] \o ss[i] BY <1>7 DEF Flattens
  <1>9. h[n] = SubSeq(key, 1, n)
    <2> DEFINE Bad == {i \in 1..n : h[i] # SubSeq(key, 1, i)}
    <2> SUFFICES ASSUME Bad # {} PROVE FALSE
      <3>1. n \in 1..n BY <1>1
      <3> QED BY <3>1
    <2>1. Bad \subseteq Nat OBVIOUS
    <2>2. PICK i \in Bad : \A y \in Bad : i <= y BY <2>1, NatMin
    <2>3. i \in 1..n /\ h[i] # SubSeq(key, 1, i) OBVIOUS
    <2>4. i # 1 BY <1>3, <1>4, <1>8, <2>3
    <2>5. i - 1 \in 1..n /\ ~(i <= i - 1) BY <1>1, <2>3, <2>4
    <2>6. h[i - 1] = SubSeq(key, 1, i - 1) BY <2>2, <2>5
    <2>7. h[i] = h[i - 1] \o <<key[i]>> BY <1>3, <1>8, <2>3, <2>4
    <2> QED BY <1>5, <2>3, <2>4, <2>6, <2>7
  <1>10. SubSeq(key, 1, n) = key BY <1>n, SubSeqFull
  <1> QED BY <1>6, <1>9, <1>10

(* The row of a new index has its key, if the names come back. *)
LEMMA NewRowKey ==
  ASSUME NEW cols, IsSeq(cols), NEW key \in KeyLists, Distinct(key), NEW K, Keyed(cols, key, K)
  PROVE  RowKeyOK(cols, KeyVarchar(key), K)
  <1>1. \A k \in ToSet(K) : IndexOf(cols, k.rel, k.name) # 0 BY KeyResolves
  <1>2. ASSUME PlainNames(cols) PROVE KeyVarchar(key) = key
    <2>1. key \in Seq(STRING) \ {<<>>} BY CatalogAssumption
    <2>2. ASSUME NEW i \in DOMAIN key PROVE Pieces(key[i]) = <<key[i]>>
      <3>1. PICK p : p = IndexOf(cols, NoRelation, key[i]) OBVIOUS
      <3>2. p # 0 BY <3>1 DEF Keyed
      <3>3. p \in Matching(cols, NoRelation, key[i]) BY <3>1, <3>2, IndexOfFinds
      <3>4. p \in 1..Len(cols) /\ cols[p].name = key[i] BY <3>3 DEF Matching
      <3>5. cols[p] \in ToSet(cols) BY <3>4, SeqFacts
      <3> QED BY <1>2, <3>4, <3>5 DEF PlainNames
    <2> QED BY <2>1, <2>2, KeyVarcharPlain
  <1> QED BY <1>1, <1>2 DEF RowKeyOK

(* The rows of the table are in the index when CREATE INDEX has ended. *)
LEMMA IndexCreatedOK ==
  ASSUME NEW d, DbOK(d), NEW ref \in DOMAIN d.tables, NEW name \in IndexName,
         name \notin DOMAIN d.tables[ref].indexes, NEW key \in KeyLists, NEW moves \in Nat,
         Distinct(key),
         \A j \in DOMAIN key : IndexOf(d.tables[ref].cols, NoRelation, key[j]) # 0
  PROVE  DbOK(IndexCreated(d, ref, name, key, moves, TRUE))
  <1>q. PICK q : q = d.pages OBVIOUS
  <1>o. PICK old : old = d.tables OBVIOUS
  <1>r. ref \in DOMAIN old BY <1>o
  <1>a. PICK at : at = old[ref].heap OBVIOUS
  <1>h. PICK heap : heap = q.heaps[at] OBVIOUS
  <1>c. PICK cols : cols = old[ref].cols OBVIOUS
  <1>i. PICK idx : idx = old[ref].indexes OBVIOUS
  <1>k. PICK K : K = [i \in DOMAIN key |-> cols[IndexOf(cols, NoRelation, key[i])]] OBVIOUS
  <1>n. PICK x1 : x1 = EmptyIndex(idx, name, K) OBVIOUS
  <1>s. PICK ids : ids = [k \in DOMAIN heap |-> k] OBVIOUS
  <1>b. PICK built : built = IndexInsert(PutIndexesAt(d, ref, x1), ref, name, ids, moves) OBVIOUS
  <1>w. PICK row : row = [ref |-> ref, index |-> name, key |-> KeyVarchar(key),
                          root |-> TableIndexes(built, ref)[name].root]
    OBVIOUS
  <1>1. IndexCreated(d, ref, name, key, moves, TRUE)
          = PutPages(built, PutIndexes(built.pages, Append(built.pages.indexes, row)))
    BY <1>q, <1>o, <1>a, <1>h, <1>c, <1>i, <1>k, <1>n, <1>s, <1>b, <1>w
    DEF IndexCreated, TableHeap, PutIndexesAt, PutPages, PutIndexes, EmptyIndex
  <1>2. name \notin DOMAIN idx BY <1>o, <1>i
  <1>3. PICK x, trees :
           /\ built = DbOf(d.schemas, SetIndexes(old, ref, x),
                           PagesOf(q.heaps, trees, q.schemas, q.tables, q.columns, q.indexes))
           /\ OneMore(q, ref, name, K, heap, idx, x, trees)
    <2>1. IsSeq(heap) BY <1>q, <1>o, <1>r, <1>a, <1>h, TableFacts DEF IndexesFit
    <2>2. Covers(ids, heap) BY <1>s, <2>1, FirstIds
    <2>3. name \notin DOMAIN old[ref].indexes /\ x1 = EmptyIndex(old[ref].indexes, name, K)
          /\ Covers(ids, q.heaps[old[ref].heap])
      BY <1>a, <1>h, <1>i, <1>n, <1>2, <2>2
    <2>4. \E x, trees :
            /\ IndexInsert(PutIndexesAt(d, ref, x1), ref, name, ids, moves) =
                 DbOf(d.schemas, SetIndexes(old, ref, x),
                      PagesOf(q.heaps, trees, q.schemas, q.tables, q.columns, q.indexes))
            /\ OneMore(q, ref, name, K, q.heaps[old[ref].heap], old[ref].indexes, x, trees)
      BY <1>q, <1>o, <1>r, <2>3, IndexBuilt
    <2> QED BY <1>a, <1>h, <1>i, <1>b, <2>4
  <1>v. PICK rows : rows = Append(q.indexes, row) OBVIOUS
  <1>p. PICK p : p = PagesOf(q.heaps, trees, q.schemas, q.tables, q.columns, q.indexes) OBVIOUS
  <1>4. built.pages = p BY <1>3, <1>p, DbOfIs
  <1>5. p.indexes = q.indexes BY <1>p, PagesOfIs
  <1>6. PutIndexes(p, rows) = PagesOf(q.heaps, trees, q.schemas, q.tables, q.columns, rows)
    BY <1>p, PutField
  <1>7. PutPages(built, PutIndexes(p, rows)) = DbOf(d.schemas, SetIndexes(old, ref, x), PutIndexes(p, rows))
    BY <1>3, PutDb
  <1>8. IndexCreated(d, ref, name, key, moves, TRUE) =
          DbOf(d.schemas, SetIndexes(old, ref, x),
               PagesOf(q.heaps, trees, q.schemas, q.tables, q.columns, rows))
    BY <1>v, <1>1, <1>4, <1>5, <1>6, <1>7
  <1>9. /\ IsSeq(q.heaps) /\ IsSeq(q.indexes) /\ ref \in TableRef /\ at \in 1..Len(q.heaps)
        /\ IndexesFit(idx, ref, q.trees, heap)
    BY <1>q, <1>o, <1>r, <1>a, <1>h, <1>i, TableFacts
  <1>10. KeepsOthers(q, ref, at, q.heaps, trees)
    <2>1. ASSUME NEW r \in TableRef, NEW n \in IndexName, r # ref, <<r, n>> \in DOMAIN q.trees
          PROVE  <<r, n>> \in DOMAIN trees /\ trees[<<r, n>>] = q.trees[<<r, n>>]
      <3>1. <<r, n>> # <<ref, name>> BY <2>1
      <3> QED BY <1>3, <2>1, <3>1 DEF OneMore
    <2> QED BY <1>9, <2>1 DEF KeepsOthers
  <1>11. IndexesFit(x, ref, trees, heap) BY <1>2, <1>3, <1>9, OneMoreFits
  <1>12. Recorded(q, rows, cols, ref, idx, x)
    <2>1. IsSeq(rows) /\ ToSet(rows) = ToSet(q.indexes) \cup {row} BY <1>9, <1>v, AppendIsSeq
    <2>2. /\ row.ref = ref /\ row.index = name /\ row.key = KeyVarchar(key)
          /\ row = [ref |-> row.ref, index |-> row.index, key |-> row.key, root |-> row.root]
      <3>1. PICK rt : rt = TableIndexes(built, ref)[name].root OBVIOUS
      <3>v. PICK text : text = KeyVarchar(key) OBVIOUS
      <3>2. row = [ref |-> ref, index |-> name, key |-> text, root |-> rt] BY <1>w, <3>1, <3>v
      <3>3. row.ref = ref /\ row.index = name /\ row.key = text /\ row.root = rt BY <3>2
      <3> QED BY <3>2, <3>3, <3>v
    <2>3. DOMAIN x = DOMAIN idx \cup {name} /\ \A n \in DOMAIN idx : x[n] = idx[n]
      BY <1>3 DEF OneMore
    <2>4. x[name] = [key |-> K, root |-> x[name].root] BY <1>3 DEF OneMore
    <2>5. x[name].key = K BY <2>4
    <2>6. \A j \in DOMAIN key : IndexOf(cols, NoRelation, key[j]) # 0 BY <1>o, <1>c
    <2>a. Keyed(cols, key, K) BY <1>k, <2>6 DEF Keyed
    <2>b. IsSeq(cols) BY <1>o, <1>r, <1>c DEF DbOK, ColumnsOK, ColumnsOf
    <2>7. RowKeyOK(cols, row.key, x[name].key) BY <2>2, <2>5, <2>a, <2>b, NewRowKey
    <2>c. ASSUME NEW r \in ToSet(q.indexes) PROVE ~(r.ref = ref /\ r.index = name)
      <3>1. IndexRowOK(old, r) BY <1>q, <1>o DEF DbOK, IndexesOK
      <3>2. r.ref = ref => r.index \in DOMAIN idx BY <1>i, <3>1 DEF IndexRowOK
      <3> QED BY <1>2, <3>2
    <2>d. OneKey(q.indexes) BY <1>q DEF DbOK, IndexesOK
    <2>e. OneKey(rows) BY <2>1, <2>2, <2>c, <2>d DEF OneKey
    <2>8. \A n \in DOMAIN x : n \in DOMAIN idx \/ \E s \in ToSet(rows) : s.ref = ref /\ s.index = n
      BY <2>1, <2>2, <2>3
    <2>9. \A n \in DOMAIN idx : n \in DOMAIN x /\ x[n].key = idx[n].key BY <2>3
    <2>10. ASSUME NEW s \in ToSet(rows)
           PROVE  \/ s \in ToSet(q.indexes)
                  \/ /\ s = [ref |-> s.ref, index |-> s.index, key |-> s.key, root |-> s.root]
                     /\ s.ref = ref /\ s.index \in DOMAIN x /\ RowKeyOK(cols, s.key, x[s.index].key)
      <3>1. CASE s = row
        <4>1. name \in DOMAIN x BY <2>3
        <4> QED BY <2>2, <2>7, <3>1, <4>1
      <3> QED BY <2>1, <3>1
    <2> QED BY <2>1, <2>e, <2>8, <2>9, <2>10 DEF Recorded
  <1>13. DbOK(DbOf(d.schemas, SetIndexes(old, ref, x),
               PagesOf(q.heaps, trees, q.schemas, q.tables, q.columns, rows)))
    BY <1>q, <1>o, <1>r, <1>a, <1>h, <1>c, <1>i, <1>10, <1>11, <1>12, ChangedOK
  <1> QED BY <1>8, <1>13

(***************************************************************************)
(* INSERT: the indexes of the table, one after another.                    *)
(***************************************************************************)

NewIds(first, rows, missing, name) ==
  [k \in 1..(Len(rows) - (IF name \in missing THEN 1 ELSE 0)) |-> first + k]

(* The database after the indexes of s, when g[t] is the one after those of t. *)
Visit(g, s, start, ref, first, rows, moves) ==
  IF s = {} THEN start
  ELSE IndexInsert(g[s \ {CHOOSE n \in s : TRUE}], ref, CHOOSE n \in s : TRUE,
                   NewIds(first, rows, {}, CHOOSE n \in s : TRUE), moves[CHOOSE n \in s : TRUE])

Visits(g, S, start, ref, first, rows, moves) ==
  g = [s \in SUBSET S |-> Visit(g, s, start, ref, first, rows, moves)]

Visited(S, start, ref, first, rows, moves) ==
  (CHOOSE g : Visits(g, S, start, ref, first, rows, moves))[S]

(* The indexes whose keys resolve in the table. *)
Resolved(d, ref) ==
  {n \in DOMAIN TableIndexes(d, ref) :
     \A k \in ToSet(TableIndexes(d, ref)[n].key) : IndexOf(d.tables[ref].cols, k.rel, k.name) # 0}

LEMMA InsertedIs ==
  ASSUME NEW d, NEW ref, NEW rows, NEW moves
  PROVE  Inserted(d, ref, rows, {}, moves) =
           Visited(Resolved(d, ref), HeapInsert(d, ref, rows), ref, Len(TableHeap(d, ref)), rows, moves)
  BY DEF Inserted, FoldSet, MapThenFoldSet, Visits, Visit, NewIds, Visited, Resolved

(* w[s] is the database after the indexes of s, in whatever order. *)
AnyOrder(w, S, start, ref, ids, moves) ==
  /\ w = [s \in SUBSET S |-> w[s]]
  /\ w[{}] = start
  /\ \A s \in SUBSET S : \A n \in s : w[s] = IndexInsert(w[s \ {n}], ref, n, ids, moves[n])

LEMMA VisitIs ==
  ASSUME NEW g, NEW s, NEW start, NEW ref, NEW first, NEW rows, NEW moves,
         NEW ids, ids = [k \in 1..Len(rows) |-> first + k], Len(rows) \in Nat, s # {}
  PROVE  \E n \in s : Visit(g, s, start, ref, first, rows, moves)
                        = IndexInsert(g[s \ {n}], ref, n, ids, moves[n])
  <1>1. PICK n : n = CHOOSE m \in s : TRUE OBVIOUS
  <1>2. n \in s BY <1>1
  <1>3. NewIds(first, rows, {}, n) = ids BY DEF NewIds
  <1>4. Visit(g, s, start, ref, first, rows, moves) = IndexInsert(g[s \ {n}], ref, n, ids, moves[n])
    BY <1>1, <1>3 DEF Visit
  <1> QED BY <1>2, <1>4

LEMMA InAnyOrder ==
  ASSUME NEW S, IsFiniteSet(S), NEW start, NEW ref, NEW first, NEW rows, NEW moves, NEW w,
         NEW ids, ids = [k \in 1..Len(rows) |-> first + k], Len(rows) \in Nat,
         AnyOrder(w, S, start, ref, ids, moves)
  PROVE  Visited(S, start, ref, first, rows, moves) = w[S]
  <1>1. ASSUME NEW s \in SUBSET S PROVE w[s] = Visit(w, s, start, ref, first, rows, moves)
    <2>1. CASE s = {} BY <2>1 DEF Visit, AnyOrder
    <2>2. CASE s # {}
      <3>1. PICK n \in s : Visit(w, s, start, ref, first, rows, moves)
                             = IndexInsert(w[s \ {n}], ref, n, ids, moves[n])
        BY <2>2, VisitIs, SMTT(30)
      <3> QED BY <3>1 DEF AnyOrder
    <2> QED BY <2>1, <2>2
  <1>2. w = [s \in SUBSET S |-> w[s]] BY DEF AnyOrder
  <1>3. [s \in SUBSET S |-> w[s]] = [s \in SUBSET S |-> Visit(w, s, start, ref, first, rows, moves)]
    BY <1>1
  <1>4. Visits(w, S, start, ref, first, rows, moves) BY <1>2, <1>3 DEF Visits
  <1>5. PICK f : f = CHOOSE g : Visits(g, S, start, ref, first, rows, moves) OBVIOUS
  <1>6. Visits(f, S, start, ref, first, rows, moves) BY <1>4, <1>5
  <1>7. \A s \in SUBSET S : f[s] = Visit(f, s, start, ref, first, rows, moves)
    BY <1>6 DEF Visits
  <1>8. SUFFICES ASSUME f[S] # w[S] PROVE FALSE BY <1>5 DEF Visited
  <1>9. PICK Wrong : Wrong = {s \in SUBSET S : f[s] # w[s]} OBVIOUS
  <1>10. PICK Sizes : Sizes = {Cardinality(s) : s \in Wrong} OBVIOUS
  <1>11. \A s \in SUBSET S : IsFiniteSet(s) /\ Cardinality(s) \in Nat BY FS_Subset, FS_CardinalityType
  <1>12. Sizes \subseteq Nat /\ Sizes # {}
    <2>1. Wrong # {} BY <1>8, <1>9
    <2> QED BY <1>9, <1>10, <1>11, <2>1
  <1>13. PICK c \in Sizes : \A e \in Sizes : c <= e BY <1>12, NatMin
  <1>14. PICK s \in Wrong : c = Cardinality(s) BY <1>10
  <1>15. s \in SUBSET S /\ f[s] # w[s] BY <1>9
  <1>16. s # {}
    <2>1. Visit(f, {}, start, ref, first, rows, moves) = w[{}] BY DEF Visit, AnyOrder
    <2> QED BY <1>7, <1>15, <2>1
  <1>17. PICK n \in s : Visit(f, s, start, ref, first, rows, moves)
                          = IndexInsert(f[s \ {n}], ref, n, ids, moves[n])
    <2>1. PICK r : r = s OBVIOUS
    <2>2. r # {} BY <1>16, <2>1
    <2>3. \E n \in r : Visit(f, r, start, ref, first, rows, moves)
                         = IndexInsert(f[r \ {n}], ref, n, ids, moves[n])
      BY <2>2, VisitIs, SMTT(30)
    <2> QED BY <2>1, <2>3
  <1>18. f[s \ {n}] = w[s \ {n}]
    <2>1. PICK r : r = s \ {n} OBVIOUS
    <2>2. r \in SUBSET S BY <1>15, <2>1
    <2>3. Cardinality(r) = Cardinality(s) - 1 BY <1>11, <1>15, <2>1, FS_RemoveElement
    <2>4. Cardinality(r) \in Nat /\ Cardinality(s) \in Nat BY <1>11, <1>15, <2>2
    <2>5. ~ (c <= Cardinality(r)) BY <1>14, <2>3, <2>4
    <2>6. Cardinality(r) \notin Sizes BY <1>13, <2>5
    <2>7. r \notin Wrong BY <1>10, <2>6
    <2> QED BY <1>9, <2>1, <2>2, <2>7
  <1>19. w[s] = IndexInsert(w[s \ {n}], ref, n, ids, moves[n]) BY <1>15 DEF AnyOrder
  <1> QED BY <1>7, <1>15, <1>17, <1>18, <1>19

(* The indexes x of a table, and all trees, after ids went into those of s. *)
Filled(x, ref, s, moves) ==
  IF s = {} THEN x
  ELSE [n \in DOMAIN x |->
          IF n \in s THEN [key |-> x[n].key, root |-> RootAfter(x[n].root, <<ref, n>>, moves[n])]
          ELSE x[n]]

FilledTrees(trees, x, ref, s, ids) ==
  IF s = {} THEN trees
  ELSE [t \in DOMAIN trees \cup {<<ref, n>> : n \in s} |->
          IF t \in {<<ref, n>> : n \in s} THEN IdsUnder(trees, x[t[2]].root) \o ids ELSE trees[t]]

LEMMA FilledIs ==
  ASSUME NEW x, NEW ref, NEW s, NEW moves, NEW y, y = Filled(x, ref, s, moves)
  PROVE  /\ DOMAIN y = DOMAIN x
         /\ \A n \in DOMAIN x : n \notin s => y[n] = x[n]
         /\ \A n \in DOMAIN x : n \in s =>
              y[n] = [key |-> x[n].key, root |-> RootAfter(x[n].root, <<ref, n>>, moves[n])]
  <1>1. CASE s = {} BY <1>1 DEF Filled
  <1>2. CASE s # {}
    <2>1. y = [n \in DOMAIN x |->
          IF n \in s THEN [key |-> x[n].key, root |-> RootAfter(x[n].root, <<ref, n>>, moves[n])]
          ELSE x[n]]
      BY <1>2 DEF Filled
    <2> QED BY <2>1
  <1> QED BY <1>1, <1>2

(* What the trees u are. *)
Grown(u, trees, x, ref, s, ids) ==
  /\ DOMAIN u = DOMAIN trees \cup {<<ref, n>> : n \in s}
  /\ \A n \in s : u[<<ref, n>>] = IdsUnder(trees, x[n].root) \o ids
  /\ \A t \in DOMAIN trees : t \notin {<<ref, n>> : n \in s} => u[t] = trees[t]

LEMMA FilledTreesIs ==
  ASSUME NEW trees, NEW x, NEW ref, NEW s, NEW ids, NEW u, u = FilledTrees(trees, x, ref, s, ids)
  PROVE  Grown(u, trees, x, ref, s, ids)
  <1>1. CASE s = {} BY <1>1 DEF FilledTrees, Grown
  <1>2. CASE s # {}
    <2>1. u = [t \in DOMAIN trees \cup {<<ref, n>> : n \in s} |->
          IF t \in {<<ref, n>> : n \in s} THEN IdsUnder(trees, x[t[2]].root) \o ids ELSE trees[t]]
      BY <1>2 DEF FilledTrees
    <2>2. DOMAIN u = DOMAIN trees \cup {<<ref, n>> : n \in s} BY <2>1
    <2>3. \A t \in DOMAIN trees : t \notin {<<ref, n>> : n \in s} => u[t] = trees[t] BY <2>1
    <2>4. ASSUME NEW n \in s PROVE u[<<ref, n>>] = IdsUnder(trees, x[n].root) \o ids
      <3>1. PICK t : t = <<ref, n>> OBVIOUS
      <3>2. t \in {<<ref, m>> : m \in s} BY <3>1
      <3>3. u[t] = IdsUnder(trees, x[t[2]].root) \o ids BY <2>1, <3>2
      <3>4. t[2] = n BY <3>1
      <3> QED BY <3>1, <3>3, <3>4
    <2> QED BY <2>2, <2>3, <2>4 DEF Grown
  <1> QED BY <1>1, <1>2

(* One index more. *)
LEMMA FilledStep ==
  ASSUME NEW x, NEW ref, NEW s, NEW n \in s, n \in DOMAIN x, NEW moves
  PROVE  NewRoot(ref, Filled(x, ref, s \ {n}, moves), n, moves[n]) = Filled(x, ref, s, moves)
  <1>y. PICK y : y = Filled(x, ref, s \ {n}, moves) OBVIOUS
  <1>z. PICK z : z = Filled(x, ref, s, moves) OBVIOUS
  <1>1. /\ DOMAIN y = DOMAIN x /\ y[n] = x[n]
        /\ \A m \in DOMAIN x : m \notin s \ {n} => y[m] = x[m]
        /\ \A m \in DOMAIN x : m \in s \ {n} =>
              y[m] = [key |-> x[m].key, root |-> RootAfter(x[m].root, <<ref, m>>, moves[m])]
    <2>1. n \notin s \ {n} OBVIOUS
    <2> QED BY <1>y, <2>1, FilledIs
  <1>2. z = [m \in DOMAIN x |->
          IF m \in s THEN [key |-> x[m].key, root |-> RootAfter(x[m].root, <<ref, m>>, moves[m])]
          ELSE x[m]]
    BY <1>z DEF Filled
  <1>3. NewRoot(ref, y, n, moves[n]) =
          [m \in DOMAIN x |->
             IF m = n THEN [key |-> x[n].key, root |-> RootAfter(x[n].root, <<ref, n>>, moves[n])]
             ELSE y[m]]
    BY <1>1 DEF NewRoot, Rooted
  <1>4. PICK v : v = NewRoot(ref, y, n, moves[n]) OBVIOUS
  <1>5. \A m \in DOMAIN x : v[m] = z[m]
    <2> SUFFICES ASSUME NEW m \in DOMAIN x PROVE v[m] = z[m] OBVIOUS
    <2>1. CASE m = n BY <1>2, <1>3, <1>4, <2>1
    <2>2. CASE m # n /\ m \in s BY <1>1, <1>2, <1>3, <1>4, <2>2
    <2>3. CASE m \notin s BY <1>1, <1>2, <1>3, <1>4, <2>3
    <2> QED BY <2>1, <2>2, <2>3
  <1>6. v = [m \in DOMAIN x |-> v[m]] BY <1>3, <1>4
  <1>7. z = [m \in DOMAIN x |-> z[m]] BY <1>2
  <1> QED BY <1>y, <1>z, <1>4, <1>5, <1>6, <1>7

(* The root of an index is that of its own tree, if it has one. *)
Planted(x, ref, n, trees) ==
  RootOf(x[n].root, ref, n) /\ (x[n].root # NoRoot => x[n].root.tree \in DOMAIN trees)

LEMMA FilledTreesStep ==
  ASSUME NEW trees, NEW x, NEW ref \in TableRef, NEW s, NEW n \in s, n \in DOMAIN x, n \in IndexName,
         NEW moves, moves[n] \in Nat, NEW ids, Planted(x, ref, n, trees)
  PROVE  NewTree(ref, FilledTrees(trees, x, ref, s \ {n}, ids), Filled(x, ref, s \ {n}, moves),
                 n, ids, moves[n]) = FilledTrees(trees, x, ref, s, ids)
  <1>y. PICK y : y = Filled(x, ref, s \ {n}, moves) OBVIOUS
  <1>r. PICK r : r = s \ {n} OBVIOUS
  <1>u. PICK u : u = FilledTrees(trees, x, ref, r, ids) OBVIOUS
  <1>z. PICK z : z = FilledTrees(trees, x, ref, s, ids) OBVIOUS
  <1>t. PICK root : root = x[n].root OBVIOUS
  <1>m. PICK k : k = moves[n] OBVIOUS
  <1>1. y[n] = x[n]
    <2>1. n \notin s \ {n} OBVIOUS
    <2> QED BY <1>y, <2>1, FilledIs
  <1>2. /\ DOMAIN u = DOMAIN trees \cup {<<ref, m>> : m \in r}
        /\ \A m \in r : u[<<ref, m>>] = IdsUnder(trees, x[m].root) \o ids
        /\ \A t \in DOMAIN trees : t \notin {<<ref, m>> : m \in r} => u[t] = trees[t]
    <2>1. Grown(u, trees, x, ref, r, ids) BY <1>u, FilledTreesIs
    <2> QED BY <2>1 DEF Grown
  <1>3. /\ DOMAIN z = DOMAIN trees \cup {<<ref, m>> : m \in s}
        /\ \A m \in s : z[<<ref, m>>] = IdsUnder(trees, x[m].root) \o ids
        /\ \A t \in DOMAIN trees : t \notin {<<ref, m>> : m \in s} => z[t] = trees[t]
    <2>1. Grown(z, trees, x, ref, s, ids) BY <1>z, FilledTreesIs
    <2> QED BY <2>1 DEF Grown
  <1>4. z = [t \in DOMAIN z |-> z[t]] BY <1>z DEF FilledTrees
  <1>5. RootAfter(root, <<ref, n>>, k).tree = <<ref, n>>
    <2>1. RootOf(root, ref, n) BY <1>t DEF Planted
    <2> QED BY <1>m, <2>1, RootAfterIs
  <1>6. <<ref, n>> \notin {<<ref, m>> : m \in r} BY <1>r
  <1>7. IdsUnder(u, root) = IdsUnder(trees, root)
    <2>1. CASE root = NoRoot BY <2>1 DEF IdsUnder
    <2>2. CASE root # NoRoot
      <3>1. root.tree = <<ref, n>> BY <1>t, <2>2 DEF RootOf, Planted
      <3>2. root.tree \in DOMAIN trees BY <1>t, <2>2 DEF Planted
      <3>3. u[root.tree] = trees[root.tree] BY <1>2, <1>6, <3>1, <3>2
      <3> QED BY <2>2, <3>3 DEF IdsUnder
    <2> QED BY <2>1, <2>2
  <1>v. PICK v : v = IdsUnder(trees, root) \o ids OBVIOUS
  <1>8. NewTree(ref, u, y, n, ids, k) = With(u, <<ref, n>>, v)
    BY <1>t, <1>v, <1>1, <1>5, <1>7 DEF NewTree
  <1>9. PICK w : w = With(u, <<ref, n>>, v) OBVIOUS
  <1>10. DOMAIN w = DOMAIN z
    <2>1. DOMAIN w = DOMAIN u \cup {<<ref, n>>} BY <1>9 DEF With
    <2>2. {<<ref, m>> : m \in s} = {<<ref, m>> : m \in r} \cup {<<ref, n>>} BY <1>r
    <2> QED BY <1>2, <1>3, <2>1, <2>2
  <1>11. w = [t \in DOMAIN z |-> w[t]] BY <1>9, <1>10 DEF With
  <1>12. ASSUME NEW t \in DOMAIN z PROVE w[t] = z[t]
    <2>1. CASE t = <<ref, n>>
      <3>1. w[t] = v BY <1>9, <2>1 DEF With
      <3>2. z[t] = v BY <1>3, <1>t, <1>v, <2>1
      <3> QED BY <3>1, <3>2
    <2>2. CASE t # <<ref, n>>
      <3>1. w[t] = u[t] BY <1>9, <1>10, <2>2 DEF With
      <3>2. CASE \E m \in r : t = <<ref, m>>
        <4>1. PICK m \in r : t = <<ref, m>> BY <3>2
        <4>2. m \in s BY <1>r
        <4>3. u[<<ref, m>>] = IdsUnder(trees, x[m].root) \o ids BY <1>2
        <4>4. z[<<ref, m>>] = IdsUnder(trees, x[m].root) \o ids BY <1>3, <4>2
        <4> QED BY <3>1, <4>1, <4>3, <4>4
      <3>3. CASE ~ \E m \in r : t = <<ref, m>>
        <4>1. t \notin {<<ref, m>> : m \in r} BY <3>3
        <4>2. t \notin {<<ref, m>> : m \in s} BY <1>r, <2>2, <3>3
        <4>3. t \in DOMAIN trees BY <1>3, <4>2
        <4> QED BY <1>2, <1>3, <3>1, <4>1, <4>2, <4>3
      <3> QED BY <3>2, <3>3
    <2> QED BY <2>1, <2>2
  <1>13. w = z BY <1>4, <1>11, <1>12
  <1> QED BY <1>y, <1>r, <1>u, <1>z, <1>m, <1>8, <1>9, <1>13

(* The ids of the rows that are appended to a heap. *)
LEMMA MoreCovered ==
  ASSUME NEW a, NEW heap, Covers(a, heap), NEW rows, IsSeq(rows),
         NEW ids, ids = [k \in 1..Len(rows) |-> Len(heap) + k]
  PROVE  Covers(a \o ids, heap \o rows) /\ IsSeq(ids) /\ Len(ids) = Len(rows)
  <1>1. IsSeq(a) /\ IsSeq(heap) /\ Len(a) = Len(heap) /\ ToSet(a) = DOMAIN heap BY DEF Covers
  <1>2. Len(heap) \in Nat /\ DOMAIN heap = 1..Len(heap) /\ Len(rows) \in Nat /\ Len(a) \in Nat
    BY <1>1, SeqFacts
  <1>3. ids = [k \in 1..Len(rows) |-> ids[k]] OBVIOUS
  <1>4. IsSeq(ids) /\ Len(ids) = Len(rows) BY <1>2, <1>3, FunctionIsSeq
  <1>5. IsSeq(a \o ids) /\ Len(a \o ids) = Len(a) + Len(ids) /\ ToSet(a \o ids) = ToSet(a) \cup ToSet(ids)
    BY <1>1, <1>4, ConcatIsSeq
  <1>6. IsSeq(heap \o rows) /\ Len(heap \o rows) = Len(heap) + Len(rows) BY <1>1, ConcatIsSeq
  <1>7. PICK m \in Nat : m = Len(heap) BY <1>2
  <1>8. PICK n \in Nat : n = Len(rows) BY <1>2
  <1>9. ToSet(ids) = {m + k : k \in 1..n} BY <1>7, <1>8 DEF ToSet
  <1>10. {m + k : k \in 1..n} = (m + 1)..(m + n)
    <2>1. ASSUME NEW i \in (m + 1)..(m + n) PROVE i \in {m + k : k \in 1..n}
      <3>1. (i - m) \in 1..n /\ m + (i - m) = i OBVIOUS
      <3> QED BY <3>1
    <2> QED BY <2>1
  <1>11. 1..m \cup (m + 1)..(m + n) = 1..(m + n) OBVIOUS
  <1>12. ToSet(a \o ids) = 1..(m + n) BY <1>1, <1>2, <1>5, <1>7, <1>9, <1>10, <1>11
  <1>13. DOMAIN (heap \o rows) = 1..(m + n)
    <2>1. DOMAIN (heap \o rows) = 1..Len(heap \o rows) BY <1>6, SeqFacts
    <2> QED BY <1>6, <1>7, <1>8, <2>1
  <1> QED BY <1>1, <1>4, <1>5, <1>6, <1>12, <1>13 DEF Covers

LEMMA GrownFits ==
  ASSUME NEW idx, NEW ref \in TableRef, NEW old, NEW heap, IndexesFit(idx, ref, old, heap),
         NEW rows, IsSeq(rows), NEW ids, ids = [k \in 1..Len(rows) |-> Len(heap) + k],
         NEW moves, \A n \in DOMAIN idx : moves[n] \in Nat,
         NEW x, x = Filled(idx, ref, DOMAIN idx, moves),
         NEW trees, trees = FilledTrees(old, idx, ref, DOMAIN idx, ids)
  PROVE  IndexesFit(x, ref, trees, heap \o rows)
  <1>1. IsSeq(heap) /\ IsFiniteSet(DOMAIN idx) /\ DOMAIN idx \subseteq IndexName BY DEF IndexesFit
  <1>2. \A n \in DOMAIN idx : RootOf(idx[n].root, ref, n) /\ Holds(old, idx[n].root, heap)
    BY DEF IndexesFit
  <1>3. DOMAIN x = DOMAIN idx
        /\ \A n \in DOMAIN idx :
             x[n] = [key |-> idx[n].key, root |-> RootAfter(idx[n].root, <<ref, n>>, moves[n])]
    BY FilledIs
  <1>4. Grown(trees, old, idx, ref, DOMAIN idx, ids) BY FilledTreesIs
  <1>5. ASSUME NEW n \in DOMAIN idx
        PROVE  /\ x[n] = [key |-> x[n].key, root |-> x[n].root]
               /\ RootOf(x[n].root, ref, n) /\ Holds(trees, x[n].root, heap \o rows)
    <2>k. PICK k \in Nat : k = moves[n] OBVIOUS
    <2>r. PICK root : root = idx[n].root OBVIOUS
    <2>n. PICK new : new = RootAfter(root, <<ref, n>>, k) OBVIOUS
    <2>1. x[n] = [key |-> idx[n].key, root |-> new] BY <1>3, <2>k, <2>r, <2>n
    <2>2. x[n].key = idx[n].key /\ x[n].root = new BY <2>1
    <2>3. n \in IndexName /\ RootOf(root, ref, n) /\ Holds(old, root, heap) BY <1>1, <1>2, <2>r
    <2>4. RootOf(new, ref, n) /\ new # NoRoot /\ new.tree = <<ref, n>> BY <2>3, <2>n, RootAfterIs
    <2>5. Covers(IdsUnder(old, root), heap) BY <2>3 DEF Holds
    <2>6. Covers(IdsUnder(old, root) \o ids, heap \o rows) BY <2>5, MoreCovered
    <2>7. <<ref, n>> \in DOMAIN trees /\ trees[<<ref, n>>] = IdsUnder(old, root) \o ids
      BY <1>4, <2>r DEF Grown
    <2>8. IdsUnder(trees, new) = IdsUnder(old, root) \o ids BY <2>4, <2>7 DEF IdsUnder
    <2>9. Holds(trees, new, heap \o rows) BY <2>4, <2>6, <2>7, <2>8 DEF Holds
    <2> QED BY <2>1, <2>2, <2>4, <2>9
  <1>6. IsSeq(heap \o rows) BY <1>1, ConcatIsSeq
  <1> QED BY <1>1, <1>3, <1>5, <1>6 DEF IndexesFit

(* The key of every index is found in its table. *)
LEMMA AllResolve ==
  ASSUME NEW d, DbOK(d), NEW old, old = d.tables, NEW ref \in DOMAIN old,
         NEW idx, idx = old[ref].indexes, NEW n \in DOMAIN idx, NEW k \in ToSet(idx[n].key)
  PROVE  IndexOf(old[ref].cols, k.rel, k.name) # 0
  <1>1. IndexesOK(old, d.pages) BY DEF DbOK
  <1>2. PICK row \in ToSet(d.pages.indexes) : row.ref = ref /\ row.index = n BY <1>1 DEF IndexesOK
  <1>3. IndexRowOK(old, row) BY <1>1 DEF IndexesOK
  <1>4. RowKeyOK(old[ref].cols, row.key, idx[n].key) BY <1>2, <1>3 DEF IndexRowOK
  <1> QED BY <1>4 DEF RowKeyOK

(* The database after the indexes of s, when there are ids to insert. *)
AfterIndexes(d, old, q, g, ref, idx, s, ids, moves) ==
  DbOf(d.schemas, SetIndexes(old, ref, Filled(idx, ref, s, moves)),
       PagesOf(g, FilledTrees(q.trees, idx, ref, s, ids), q.schemas, q.tables, q.columns, q.indexes))

MovesOf(idx, moves) == \A n \in DOMAIN idx : moves[n] \in Nat

(* Each index of s may be the last one. *)
AnyLast(d, old, q, g, ref, idx, ids, moves) ==
  \A s \in SUBSET DOMAIN idx : \A n \in s :
    AfterIndexes(d, old, q, g, ref, idx, s, ids, moves) =
      IndexInsert(AfterIndexes(d, old, q, g, ref, idx, s \ {n}, ids, moves), ref, n, ids, moves[n])

LEMMA AfterIndexesStep ==
  ASSUME NEW d, NEW old, NEW q, NEW g, NEW ref \in TableRef, ref \in DOMAIN old,
         NEW idx, NEW heap, IndexesFit(idx, ref, q.trees, heap),
         NEW ids, ids # <<>>, NEW moves, MovesOf(idx, moves)
  PROVE  AnyLast(d, old, q, g, ref, idx, ids, moves)
  <1> SUFFICES ASSUME NEW s \in SUBSET DOMAIN idx, NEW n \in s
               PROVE  AfterIndexes(d, old, q, g, ref, idx, s, ids, moves) =
                        IndexInsert(AfterIndexes(d, old, q, g, ref, idx, s \ {n}, ids, moves),
                                    ref, n, ids, moves[n])
    BY DEF AnyLast
  <1>x. PICK x : x = Filled(idx, ref, s \ {n}, moves) OBVIOUS
  <1>t. PICK t : t = FilledTrees(q.trees, idx, ref, s \ {n}, ids) OBVIOUS
  <1>1. n \in DOMAIN idx /\ n \notin s \ {n} OBVIOUS
  <1>k. PICK k \in Nat : k = moves[n] BY <1>1 DEF MovesOf
  <1>2. DOMAIN x = DOMAIN idx /\ x[n] = idx[n] BY <1>x, <1>1, FilledIs
  <1>3. /\ idx[n] = [key |-> idx[n].key, root |-> idx[n].root] /\ n \in IndexName
        /\ RootOf(idx[n].root, ref, n) /\ Holds(q.trees, idx[n].root, heap)
    BY <1>1 DEF IndexesFit
  <1>4. IndexShape(x[n]) BY <1>2, <1>3 DEF IndexShape
  <1>5. n \in DOMAIN x BY <1>1, <1>2
  <1>6. IndexInsert(DbOf(d.schemas, SetIndexes(old, ref, x),
                         PagesOf(g, t, q.schemas, q.tables, q.columns, q.indexes)), ref, n, ids, k)
          = DbOf(d.schemas, SetIndexes(old, ref, NewRoot(ref, x, n, k)),
                 PagesOf(g, NewTree(ref, t, x, n, ids, k), q.schemas, q.tables, q.columns, q.indexes))
    BY <1>4, <1>5, IndexInsertIs
  <1>7. NewRoot(ref, x, n, k) = Filled(idx, ref, s, moves) BY <1>x, <1>k, <1>1, FilledStep
  <1>8. Planted(idx, ref, n, q.trees) BY <1>3 DEF Holds, Planted
  <1>9. NewTree(ref, t, x, n, ids, k) = FilledTrees(q.trees, idx, ref, s, ids)
    <2>1. n \in IndexName /\ moves[n] \in Nat BY <1>3, <1>k
    <2>2. NewTree(ref, FilledTrees(q.trees, idx, ref, s \ {n}, ids), Filled(idx, ref, s \ {n}, moves),
                  n, ids, moves[n]) = FilledTrees(q.trees, idx, ref, s, ids)
      BY <1>1, <1>8, <2>1, FilledTreesStep
    <2> QED BY <1>x, <1>t, <1>k, <2>2
  <1> QED BY <1>x, <1>t, <1>k, <1>6, <1>7, <1>9 DEF AfterIndexes

LEMMA FilledInAnyOrder ==
  ASSUME NEW d, NEW old, NEW q, NEW g, NEW ref \in TableRef, ref \in DOMAIN old,
         NEW idx, NEW heap, IndexesFit(idx, ref, q.trees, heap), NEW S, S = DOMAIN idx,
         NEW ids, ids # <<>>, NEW moves, MovesOf(idx, moves), NEW start,
         start = DbOf(d.schemas, SetIndexes(old, ref, idx),
                      PagesOf(g, q.trees, q.schemas, q.tables, q.columns, q.indexes))
  PROVE  AnyOrder([s \in SUBSET S |-> AfterIndexes(d, old, q, g, ref, idx, s, ids, moves)],
                  S, start, ref, ids, moves)
  <1>w. PICK w : w = [s \in SUBSET S |-> AfterIndexes(d, old, q, g, ref, idx, s, ids, moves)] OBVIOUS
  <1>1. AnyLast(d, old, q, g, ref, idx, ids, moves) BY AfterIndexesStep
  <1>2. \A s \in SUBSET S : w[s] = AfterIndexes(d, old, q, g, ref, idx, s, ids, moves) BY <1>w
  <1>3. w[{}] = start
    <2>1. Filled(idx, ref, {}, moves) = idx /\ FilledTrees(q.trees, idx, ref, {}, ids) = q.trees
      BY DEF Filled, FilledTrees
    <2> QED BY <1>2, <2>1 DEF AfterIndexes
  <1>4. ASSUME NEW s \in SUBSET S, NEW n \in s
        PROVE  w[s] = IndexInsert(w[s \ {n}], ref, n, ids, moves[n])
    <2>1. w[s] = AfterIndexes(d, old, q, g, ref, idx, s, ids, moves) BY <1>2
    <2>2. w[s \ {n}] = AfterIndexes(d, old, q, g, ref, idx, s \ {n}, ids, moves) BY <1>2
    <2> QED BY <1>1, <2>1, <2>2 DEF AnyLast
  <1>5. w = [s \in SUBSET S |-> w[s]] BY <1>w
  <1>6. AnyOrder(w, S, start, ref, ids, moves) BY <1>3, <1>4, <1>5 DEF AnyOrder
  <1> QED BY <1>w, <1>6

(* No ids, no change. *)
LEMMA NothingInAnyOrder ==
  ASSUME NEW S, NEW start, NEW ref, NEW moves
  PROVE  AnyOrder([s \in SUBSET S |-> start], S, start, ref, <<>>, moves)
  <1>w. PICK w : w = [s \in SUBSET S |-> start] OBVIOUS
  <1>1. \A s \in SUBSET S : w[s] = start BY <1>w
  <1>2. ASSUME NEW s \in SUBSET S, NEW n \in s
        PROVE  w[s] = IndexInsert(w[s \ {n}], ref, n, <<>>, moves[n])
    <2>1. w[s] = start /\ w[s \ {n}] = start BY <1>1
    <2> QED BY <2>1 DEF IndexInsert
  <1>3. w[{}] = start BY <1>1
  <1>4. w = [s \in SUBSET S |-> w[s]] BY <1>w
  <1>5. AnyOrder(w, S, start, ref, <<>>, moves) BY <1>2, <1>3, <1>4 DEF AnyOrder
  <1> QED BY <1>w, <1>5

(* The heaps with rows appended to one of them. *)
MoreRows(q, at, rows) == [q.heaps EXCEPT ![at] = q.heaps[at] \o rows]

LEMMA HeapInsertIs ==
  ASSUME NEW d, DbOK(d), NEW q, q = d.pages, NEW old, old = d.tables, NEW ref \in DOMAIN old, NEW rows
  PROVE  HeapInsert(d, ref, rows) =
           DbOf(d.schemas, SetIndexes(old, ref, old[ref].indexes),
                PagesOf(MoreRows(q, old[ref].heap, rows), q.trees, q.schemas,
                        q.tables, q.columns, q.indexes))
  <1>a. PICK at : at = old[ref].heap OBVIOUS
  <1>v. PICK v : v = q.heaps[at] \o rows OBVIOUS
  <1>g. PICK g : g = [q.heaps EXCEPT ![at] = v] OBVIOUS
  <1>1. HeapInsert(d, ref, rows) = PutHeapAt(d, at, v) BY <1>a, <1>v DEF HeapInsert, PutHeapAt
  <1>2. PutHeapAt(d, at, v) = DbOf(d.schemas, old, PagesOf(g, q.trees, q.schemas, q.tables, q.columns, q.indexes))
    BY <1>g, PutHeapAtIs
  <1>3. SetIndexes(old, ref, old[ref].indexes) = old BY SameIndexes
  <1>4. g = MoreRows(q, at, rows) BY <1>v, <1>g DEF MoreRows
  <1> QED BY <1>a, <1>1, <1>2, <1>3, <1>4

LEMMA AllIndexesResolve ==
  ASSUME NEW d, DbOK(d), NEW ref \in DOMAIN d.tables
  PROVE  Resolved(d, ref) = DOMAIN TableIndexes(d, ref)
  <1>o. PICK old : old = d.tables OBVIOUS
  <1>i. PICK idx : idx = old[ref].indexes OBVIOUS
  <1>1. ref \in DOMAIN old BY <1>o
  <1>2. ASSUME NEW n \in DOMAIN idx, NEW k \in ToSet(idx[n].key)
        PROVE  IndexOf(old[ref].cols, k.rel, k.name) # 0
    BY <1>o, <1>i, <1>1, AllResolve
  <1>3. TableIndexes(d, ref) = idx BY <1>o, <1>i DEF TableIndexes
  <1> QED BY <1>o, <1>2, <1>3 DEF Resolved

LEMMA InsertedInAnyOrder ==
  ASSUME NEW d, DbOK(d), NEW ref \in DOMAIN d.tables, NEW rows, Len(rows) \in Nat, NEW moves,
         NEW S, S = DOMAIN TableIndexes(d, ref), IsFiniteSet(S),
         NEW ids, ids = [k \in 1..Len(rows) |-> Len(TableHeap(d, ref)) + k],
         NEW w, AnyOrder(w, S, HeapInsert(d, ref, rows), ref, ids, moves)
  PROVE  Inserted(d, ref, rows, {}, moves) = w[S]
  <1>s. PICK start : start = HeapInsert(d, ref, rows) OBVIOUS
  <1>h. PICK first : first = Len(TableHeap(d, ref)) OBVIOUS
  <1>1. S = Resolved(d, ref) BY AllIndexesResolve
  <1>2. Inserted(d, ref, rows, {}, moves) = Visited(S, start, ref, first, rows, moves)
    BY <1>s, <1>h, <1>1, InsertedIs
  <1>3. Visited(S, start, ref, first, rows, moves) = w[S]
    <2>1. ids = [k \in 1..Len(rows) |-> first + k] BY <1>h
    <2>2. AnyOrder(w, S, start, ref, ids, moves) BY <1>s
    <2> QED BY <2>1, <2>2, InAnyOrder
  <1> QED BY <1>2, <1>3

(* The indexes of a table have the rows of the new heap, and other trees are as before. *)
GrownTo(q, ref, heap, idx, x, trees) ==
  /\ IndexesFit(x, ref, trees, heap)
  /\ DOMAIN x = DOMAIN idx /\ \A n \in DOMAIN idx : x[n].key = idx[n].key
  /\ \A t \in DOMAIN q.trees :
       t \notin {<<ref, n>> : n \in DOMAIN idx} => t \in DOMAIN trees /\ trees[t] = q.trees[t]

LEMMA FilledGrows ==
  ASSUME NEW q, NEW ref \in TableRef, NEW heap, NEW idx, IndexesFit(idx, ref, q.trees, heap),
         NEW rows, IsSeq(rows), NEW ids, ids = [k \in 1..Len(rows) |-> Len(heap) + k],
         NEW moves, MovesOf(idx, moves), NEW S, S = DOMAIN idx
  PROVE  GrownTo(q, ref, heap \o rows, idx, Filled(idx, ref, S, moves),
                 FilledTrees(q.trees, idx, ref, S, ids))
  <1>x. PICK x : x = Filled(idx, ref, S, moves) OBVIOUS
  <1>o. PICK old : old = q.trees OBVIOUS
  <1>t. PICK trees : trees = FilledTrees(old, idx, ref, S, ids) OBVIOUS
  <1>1. IndexesFit(x, ref, trees, heap \o rows)
    <2>1. IndexesFit(idx, ref, old, heap) BY <1>o
    <2>2. \A n \in DOMAIN idx : moves[n] \in Nat BY DEF MovesOf
    <2>3. x = Filled(idx, ref, DOMAIN idx, moves) BY <1>x
    <2>4. trees = FilledTrees(old, idx, ref, DOMAIN idx, ids) BY <1>t
    <2> QED BY <2>1, <2>2, <2>3, <2>4, GrownFits
  <1>2. DOMAIN x = DOMAIN idx BY <1>x, FilledIs
  <1>3. ASSUME NEW n \in DOMAIN idx PROVE x[n].key = idx[n].key
    <2>1. x[n] = [key |-> idx[n].key, root |-> RootAfter(idx[n].root, <<ref, n>>, moves[n])]
      BY <1>x, FilledIs
    <2> QED BY <2>1
  <1>4. Grown(trees, old, idx, ref, S, ids) BY <1>t, FilledTreesIs
  <1>5. \A t \in DOMAIN old :
          t \notin {<<ref, n>> : n \in DOMAIN idx} => t \in DOMAIN trees /\ trees[t] = old[t]
    BY <1>4 DEF Grown
  <1>6. GrownTo(q, ref, heap \o rows, idx, x, trees) BY <1>o, <1>1, <1>2, <1>3, <1>5 DEF GrownTo
  <1> QED BY <1>x, <1>o, <1>t, <1>6

(* The ids of no rows, and of some. *)
LEMMA IdsOfRows ==
  ASSUME NEW rows, IsSeq(rows), NEW first
  PROVE  /\ rows = <<>> => [k \in 1..Len(rows) |-> first + k] = <<>>
         /\ rows # <<>> => [k \in 1..Len(rows) |-> first + k] # <<>>
  <1>i. PICK ids : ids = [k \in 1..Len(rows) |-> first + k] OBVIOUS
  <1>1. CASE rows = <<>>
    <2>1. Len(rows) = 0 BY <1>1
    <2>2. 1..Len(rows) = {} BY <2>1
    <2>3. ids = <<>> BY <1>i, <2>2
    <2> QED BY <1>i, <1>1, <2>3
  <1>2. CASE rows # <<>>
    <2>1. rows \in Seq(ToSet(rows)) BY DEF IsSeq
    <2>2. Len(rows) \in Nat /\ Len(rows) # 0 BY <1>2, <2>1
    <2>3. DOMAIN ids = 1..Len(rows) BY <1>i
    <2>4. 1 \in DOMAIN ids BY <2>2, <2>3
    <2>5. DOMAIN <<>> = {} BY EmptyIsSeq
    <2>6. ids # <<>> BY <2>4, <2>5
    <2> QED BY <1>i, <1>2, <2>6
  <1> QED BY <1>1, <1>2

LEMMA InsertedGrows ==
  ASSUME NEW d, DbOK(d), NEW q, q = d.pages, NEW old, old = d.tables, NEW ref \in DOMAIN old,
         NEW rows, IsSeq(rows), NEW moves, MovesOf(old[ref].indexes, moves)
  PROVE  \E x, trees :
           /\ Inserted(d, ref, rows, {}, moves) =
                DbOf(d.schemas, SetIndexes(old, ref, x),
                     PagesOf(MoreRows(q, old[ref].heap, rows), trees,
                             q.schemas, q.tables, q.columns, q.indexes))
           /\ GrownTo(q, ref, q.heaps[old[ref].heap] \o rows, old[ref].indexes, x, trees)
  <1>r. ref \in DOMAIN d.tables OBVIOUS
  <1>a. PICK at : at = old[ref].heap OBVIOUS
  <1>h. PICK heap : heap = q.heaps[at] OBVIOUS
  <1>g. PICK g : g = MoreRows(q, at, rows) OBVIOUS
  <1>i. PICK idx : idx = old[ref].indexes OBVIOUS
  <1>S. PICK S : S = DOMAIN idx OBVIOUS
  <1>k. PICK ids : ids = [k \in 1..Len(rows) |-> Len(heap) + k] OBVIOUS
  <1>s. PICK start : start = HeapInsert(d, ref, rows) OBVIOUS
  <1>1. start = DbOf(d.schemas, SetIndexes(old, ref, idx),
                     PagesOf(g, q.trees, q.schemas, q.tables, q.columns, q.indexes))
    BY <1>a, <1>g, <1>i, <1>s, HeapInsertIs
  <1>2. ref \in TableRef /\ IndexesFit(idx, ref, q.trees, heap) BY <1>a, <1>h, <1>i, TableFacts
  <1>3. IsFiniteSet(S) /\ IsSeq(heap) BY <1>S, <1>2 DEF IndexesFit
  <1>4. Len(rows) \in Nat BY SeqFacts
  <1>5. TableIndexes(d, ref) = idx /\ TableHeap(d, ref) = heap
    BY <1>a, <1>h, <1>i DEF TableIndexes, TableHeap
  <1>6. ASSUME NEW w, AnyOrder(w, S, start, ref, ids, moves)
        PROVE  Inserted(d, ref, rows, {}, moves) = w[S]
    <2>1. S = DOMAIN TableIndexes(d, ref) BY <1>S, <1>5
    <2>2. ids = [k \in 1..Len(rows) |-> Len(TableHeap(d, ref)) + k] BY <1>k, <1>5
    <2>3. AnyOrder(w, S, HeapInsert(d, ref, rows), ref, ids, moves) BY <1>6, <1>s
    <2> QED BY <1>r, <1>3, <1>4, <2>1, <2>2, <2>3, InsertedInAnyOrder
  <1>7. CASE rows = <<>>
    <2>1. ids = <<>> BY <1>k, <1>7, IdsOfRows
    <2>w. PICK w : w = [s \in SUBSET S |-> start] OBVIOUS
    <2>2. AnyOrder(w, S, start, ref, ids, moves) BY <2>1, <2>w, NothingInAnyOrder
    <2>3. Inserted(d, ref, rows, {}, moves) = w[S] BY <1>6, <2>2
    <2>4. w[S] = start BY <2>w
    <2>5. heap \o rows = heap
      <3>1. heap \in Seq(ToSet(heap)) BY <1>3 DEF IsSeq
      <3> QED BY <1>7, <3>1
    <2>6. GrownTo(q, ref, heap, idx, idx, q.trees) BY <1>2 DEF GrownTo
    <2>7. GrownTo(q, ref, heap \o rows, idx, idx, q.trees) BY <2>5, <2>6
    <2> QED BY <1>a, <1>h, <1>g, <1>i, <1>1, <2>3, <2>4, <2>7
  <1>8. CASE rows # <<>>
    <2>1. ids # <<>> BY <1>k, <1>8, IdsOfRows
    <2>m. MovesOf(idx, moves) BY <1>i
    <2>w. PICK w : w = [s \in SUBSET S |-> AfterIndexes(d, old, q, g, ref, idx, s, ids, moves)] OBVIOUS
    <2>2. AnyOrder(w, S, start, ref, ids, moves)
      BY <1>S, <1>1, <1>2, <2>1, <2>m, <2>w, FilledInAnyOrder
    <2>3. Inserted(d, ref, rows, {}, moves) = w[S] BY <1>6, <2>2
    <2>4. w[S] = AfterIndexes(d, old, q, g, ref, idx, S, ids, moves) BY <2>w
    <2>x. PICK x : x = Filled(idx, ref, S, moves) OBVIOUS
    <2>t. PICK trees : trees = FilledTrees(q.trees, idx, ref, S, ids) OBVIOUS
    <2>5. GrownTo(q, ref, heap \o rows, idx, x, trees)
      BY <1>S, <1>k, <1>2, <2>m, <2>x, <2>t, FilledGrows
    <2>6. Inserted(d, ref, rows, {}, moves) =
            DbOf(d.schemas, SetIndexes(old, ref, x),
                 PagesOf(g, trees, q.schemas, q.tables, q.columns, q.indexes))
      BY <2>3, <2>4, <2>x, <2>t DEF AfterIndexes
    <2> QED BY <1>a, <1>h, <1>g, <1>i, <2>5, <2>6
  <1> QED BY <1>7, <1>8

(* The rows of an INSERT that has ended are in the heap and in every index. *)
LEMMA InsertedOK ==
  ASSUME NEW d, DbOK(d), NEW ref \in DOMAIN d.tables, NEW rows, IsSeq(rows),
         NEW moves, MovesOf(d.tables[ref].indexes, moves)
  PROVE  DbOK(Inserted(d, ref, rows, {}, moves))
  <1>q. PICK q : q = d.pages OBVIOUS
  <1>o. PICK old : old = d.tables OBVIOUS
  <1>r. ref \in DOMAIN old BY <1>o
  <1>a. PICK at : at = old[ref].heap OBVIOUS
  <1>h. PICK heap : heap = q.heaps[at] OBVIOUS
  <1>v. PICK v : v = heap \o rows OBVIOUS
  <1>g. PICK g : g = MoreRows(q, at, rows) OBVIOUS
  <1>i. PICK idx : idx = old[ref].indexes OBVIOUS
  <1>m. MovesOf(old[ref].indexes, moves) BY <1>o
  <1>1. PICK x, trees :
             /\ Inserted(d, ref, rows, {}, moves) =
                  DbOf(d.schemas, SetIndexes(old, ref, x),
                       PagesOf(g, trees, q.schemas, q.tables, q.columns, q.indexes))
             /\ GrownTo(q, ref, v, idx, x, trees)
    BY <1>q, <1>o, <1>r, <1>a, <1>h, <1>v, <1>g, <1>i, <1>m, InsertedGrows
  <1>2. /\ IsSeq(q.heaps) /\ at \in 1..Len(q.heaps) /\ IsSeq(q.indexes) /\ ref \in TableRef
        /\ Recorded(q, q.indexes, old[ref].cols, ref, idx, idx)
    BY <1>q, <1>o, <1>r, <1>a, <1>i, TableFacts
  <1>3. IsSeq(g) /\ Len(g) = Len(q.heaps) /\ g[at] = v /\ \A j \in 1..Len(g) : j # at => g[j] = q.heaps[j]
    <2>1. g = [q.heaps EXCEPT ![at] = v] BY <1>h, <1>v, <1>g DEF MoreRows
    <2>2. PICK h : h = q.heaps OBVIOUS
    <2>3. IsSeq(h) /\ at \in 1..Len(h) BY <1>2, <2>2
    <2>4. g = [h EXCEPT ![at] = v] BY <2>1, <2>2
    <2>5. IsSeq(g) /\ Len(g) = Len(h)
      <3>1. Len(h) \in Nat /\ DOMAIN h = 1..Len(h) BY <2>3, SeqFacts
      <3>2. g = [i \in 1..Len(h) |-> g[i]] BY <2>4, <3>1
      <3> QED BY <3>1, <3>2, FunctionIsSeq
    <2>6. g[at] = v BY <2>3, <2>4, HeapPut
    <2>7. ASSUME NEW i \in 1..Len(g), i # at PROVE g[i] = h[i] BY <2>3, <2>4, <2>7, HeapPut
    <2> QED BY <2>2, <2>5, <2>6, <2>7
  <1>4. KeepsOthers(q, ref, at, g, trees)
    <2>1. ASSUME NEW r \in TableRef, NEW n \in IndexName, r # ref, <<r, n>> \in DOMAIN q.trees
          PROVE  <<r, n>> \in DOMAIN trees /\ trees[<<r, n>>] = q.trees[<<r, n>>]
      <3>1. <<r, n>> \notin {<<ref, m>> : m \in DOMAIN idx} BY <2>1
      <3> QED BY <1>1, <2>1, <3>1 DEF GrownTo
    <2> QED BY <1>3, <2>1 DEF KeepsOthers
  <1>5. IndexesFit(x, ref, trees, g[at]) BY <1>1, <1>3 DEF GrownTo
  <1>6. Recorded(q, q.indexes, old[ref].cols, ref, idx, x)
    <2>1. DOMAIN x = DOMAIN idx /\ \A n \in DOMAIN idx : x[n].key = idx[n].key BY <1>1 DEF GrownTo
    <2> QED BY <1>2, <2>1 DEF Recorded
  <1>7. DbOK(DbOf(d.schemas, SetIndexes(old, ref, x),
                  PagesOf(g, trees, q.schemas, q.tables, q.columns, q.indexes)))
    BY <1>q, <1>o, <1>r, <1>a, <1>i, <1>4, <1>5, <1>6, ChangedOK
  <1> QED BY <1>1, <1>7

(***************************************************************************)
(* Steps.                                                                  *)
(***************************************************************************)

LEMMA Initially == Init => IInv
  BY EmptyOK DEF Init, IInv

(* A statement that succeeds must leave a good database; one that fails leaves none. *)
LEMMA FinishOK ==
  ASSUME IInv, NEW d, NEW ok \in BOOLEAN, Finish(d, ok), ok => DbOK(d)
  PROVE  IInv'
  <1>1. base' = base /\ durable' = durable BY DEF Finish, build
  <1>2. DbOK(base)' /\ (durable => Synced(base))' BY <1>1 DEF IInv
  <1>3. (txn # NoDatabase => DbOK(txn))'
    <2>1. CASE ok
      <3>1. txn' = d BY <2>1 DEF Finish
      <3> QED BY <2>1, <3>1
    <2>2. CASE ~ok
      <3>1. txn' = NoDatabase BY <2>2 DEF Finish
      <3> QED BY <3>1
    <2> QED BY <2>1, <2>2
  <1> QED BY <1>2, <1>3 DEF IInv

(* A copy of the flushed pages. *)
LEMMA BeginStep == IInv /\ Begin => IInv'
  <1> SUFFICES ASSUME IInv, Begin PROVE IInv' OBVIOUS
  <1>1. DbOK(base) BY DEF IInv
  <1>d. PICK d : d = SyncIndexRoots(base) OBVIOUS
  <1>2. DbOK(d) /\ Synced(d) BY <1>d, <1>1, SyncOK
  <1>3. LoadSchemas(d.pages) = d.pages BY <1>2, LoadIs
  <1>4. /\ base' = d
        /\ txn' = IF Loads(LoadSchemas(d.pages)) THEN Load(d.pages) ELSE NoDatabase
    BY <1>d DEF Begin, SnapshotBytes
  <1>5. DbOK(base)' /\ Synced(base)' BY <1>2, <1>4
  <1>6. (txn # NoDatabase => DbOK(txn))'
    <2>1. CASE Loads(d.pages)
      <3>1. DbOK(Load(d.pages)) BY <1>2, <2>1, LoadOK
      <3> QED BY <1>3, <1>4, <2>1, <3>1
    <2>2. CASE ~Loads(d.pages)
      <3>1. txn' = NoDatabase BY <1>3, <1>4, <2>2
      <3> QED BY <3>1
    <2> QED BY <2>1, <2>2
  <1> QED BY <1>5, <1>6 DEF IInv

LEMMA CreateTableStep == IInv /\ CreateTable => IInv'
  <1> SUFFICES ASSUME IInv, CreateTable PROVE IInv' OBVIOUS
  <1>1. PICK ref \in TableRef, defs \in ColumnDefs :
          LET valid == /\ Distinct(Names(defs))
                       /\ ref[1] \in txn.schemas /\ ref \notin DOMAIN txn.tables
          IN  IF ~valid THEN Finish(txn, FALSE)
              ELSE \E n \in 0..(Len(defs) + 1) :
                     Finish(TableCreated(txn, ref, defs, n), n = Len(defs) + 1)
    BY DEF CreateTable
  <1>2. CASE Finish(txn, FALSE) BY <1>2, FinishOK
  <1>3. CASE ~ Finish(txn, FALSE)
    <2>1. Distinct(Names(defs)) /\ ref[1] \in txn.schemas /\ ref \notin DOMAIN txn.tables
      BY <1>1, <1>3
    <2>2. PICK n \in 0..(Len(defs) + 1) : Finish(TableCreated(txn, ref, defs, n), n = Len(defs) + 1)
      BY <1>1, <1>3
    <2>3. DbOK(txn) BY DEF IInv, CreateTable
    <2>4. DbOK(TableCreated(txn, ref, defs, Len(defs) + 1)) BY <2>1, <2>3, TableCreatedOK
    <2>5. PICK ok \in BOOLEAN : ok = (n = Len(defs) + 1) OBVIOUS
    <2>6. ok => DbOK(TableCreated(txn, ref, defs, n)) BY <2>4, <2>5
    <2>7. Finish(TableCreated(txn, ref, defs, n), ok) BY <2>2, <2>5
    <2> QED BY <2>6, <2>7, FinishOK
  <1> QED BY <1>2, <1>3

LEMMA CreateIndexStep == IInv /\ CreateIndex => IInv'
  <1> SUFFICES ASSUME IInv, CreateIndex PROVE IInv' OBVIOUS
  <1>1. PICK ref \in TableRef, name \in IndexName, key \in KeyLists :
          LET valid == /\ Known(txn, ref) /\ name \notin DOMAIN TableIndexes(txn, ref)
                       /\ \A i \in DOMAIN key :
                            IndexOf(txn.tables[ref].cols, NoRelation, key[i]) # 0
                       /\ Distinct(key)
          IN  IF ~valid THEN Finish(txn, FALSE)
              ELSE \E moves \in 0..MaxMoves, recorded \in BOOLEAN :
                     Finish(IndexCreated(txn, ref, name, key, moves, recorded), recorded)
    BY DEF CreateIndex
  <1>2. CASE Finish(txn, FALSE) BY <1>2, FinishOK
  <1>3. CASE ~ Finish(txn, FALSE)
    <2>1. /\ Known(txn, ref) /\ name \notin DOMAIN TableIndexes(txn, ref)
          /\ \A i \in DOMAIN key : IndexOf(txn.tables[ref].cols, NoRelation, key[i]) # 0
          /\ Distinct(key)
      BY <1>1, <1>3
    <2>2. PICK moves \in 0..MaxMoves, recorded \in BOOLEAN :
            Finish(IndexCreated(txn, ref, name, key, moves, recorded), recorded)
      BY <1>1, <1>3
    <2>3. DbOK(txn) BY DEF IInv, CreateIndex
    <2>4. ref \in DOMAIN txn.tables /\ name \notin DOMAIN txn.tables[ref].indexes
      BY <2>1 DEF Known, TableIndexes
    <2>5. moves \in Nat BY <2>2
    <2>6. DbOK(IndexCreated(txn, ref, name, key, moves, TRUE)) BY <2>1, <2>3, <2>4, <2>5, IndexCreatedOK
    <2>7. recorded => DbOK(IndexCreated(txn, ref, name, key, moves, recorded)) BY <2>6
    <2> QED BY <2>2, <2>7, FinishOK
  <1> QED BY <1>2, <1>3

LEMMA InsertStep == IInv /\ Insert => IInv'
  <1> SUFFICES ASSUME IInv, Insert PROVE IInv' OBVIOUS
  <1>0. CASE Finish(txn, FALSE) BY <1>0, FinishOK
  <1>1. CASE ~ Finish(txn, FALSE)
    <2>1. PICK ref \in TableRef, list \in ColumnLists :
       IF ~(Known(txn, ref) /\ ListOK(txn.tables[ref].cols, ref, list)) THEN Finish(txn, FALSE)
       ELSE LET cols  == txn.tables[ref].cols
                types == ListedTypes(cols, ref, list)
                idx   == TableIndexes(txn, ref)
                Moves(i) == IF idx[i].root = NoRoot THEN 0 ELSE idx[i].root.moves
            IN  \E rows \in BoundedSeq(Literals, MaxBatch) : \E n \in 0..Len(rows) :
                  LET tuples == [k \in 1..n |-> Cast(types, rows[k])]
                  IN  /\ Len(FlattenSeq(txn.pages.heaps)) + Len(rows) <= MaxRows
                      /\ \A k \in 1..n : /\ Castable(types, rows[k])
                                         /\ assertions => Fits(tuples[k], cols)
                      /\ \E missing \in SUBSET (IF n = 0 THEN {} ELSE DOMAIN idx),
                            moves \in [DOMAIN idx -> 0..MaxMoves] :
                           /\ \A i \in DOMAIN idx : Moves(i) + moves[i] <= MaxMoves
                           /\ \A i \in DOMAIN idx, k \in 1..n :
                                HasKey(cols, idx[i], tuples[k]) \/ (k = n /\ i \in missing)
                           /\ Finish(Inserted(txn, ref, tuples, missing, moves),
                                     n = Len(rows) /\ missing = {})
      BY DEF Insert
    <2>2. Known(txn, ref) BY <1>1, <2>1
    <2>t. PICK types : types = ListedTypes(txn.tables[ref].cols, ref, list) OBVIOUS
    <2>i. PICK idx : idx = TableIndexes(txn, ref) OBVIOUS
    <2>r. PICK rows \in BoundedSeq(Literals, MaxBatch) : \E n \in 0..Len(rows) :
            \E missing, moves :
              /\ moves \in [DOMAIN idx -> 0..MaxMoves]
              /\ Finish(Inserted(txn, ref, [k \in 1..n |-> Cast(types, rows[k])], missing, moves),
                        n = Len(rows) /\ missing = {})
      BY <1>1, <2>1, <2>2, <2>t, <2>i
    <2>3. PICK n \in 0..Len(rows) :
            \E missing, moves :
              /\ moves \in [DOMAIN idx -> 0..MaxMoves]
              /\ Finish(Inserted(txn, ref, [k \in 1..n |-> Cast(types, rows[k])], missing, moves),
                        n = Len(rows) /\ missing = {})
      BY <2>r
    <2>4. PICK missing, moves :
              /\ moves \in [DOMAIN idx -> 0..MaxMoves]
              /\ Finish(Inserted(txn, ref, [k \in 1..n |-> Cast(types, rows[k])], missing, moves),
                        n = Len(rows) /\ missing = {})
      BY <2>3
    <2>v. PICK v : v = [k \in 1..n |-> Cast(types, rows[k])] OBVIOUS
    <2>5. PICK ok \in BOOLEAN : ok = (n = Len(rows) /\ missing = {}) OBVIOUS
    <2>6. Finish(Inserted(txn, ref, v, missing, moves), ok) BY <2>4, <2>5, <2>v
    <2>7. DbOK(txn) BY DEF IInv, Insert
    <2>8. ref \in DOMAIN txn.tables BY <2>2 DEF Known
    <2>9. MovesOf(txn.tables[ref].indexes, moves)
      <3>1. txn.tables[ref].indexes = idx BY <2>i DEF TableIndexes
      <3>2. \A i \in DOMAIN idx : moves[i] \in 0..MaxMoves BY <2>4
      <3>3. \A i \in DOMAIN idx : moves[i] \in Nat BY <3>2
      <3> QED BY <3>1, <3>3 DEF MovesOf
    <2>10. IsSeq(v)
      <3>1. n \in Nat OBVIOUS
      <3>2. v = [k \in 1..n |-> v[k]] BY <2>v
      <3> QED BY <3>1, <3>2, FunctionIsSeq
    <2>11. DbOK(Inserted(txn, ref, v, {}, moves)) BY <2>7, <2>8, <2>9, <2>10, InsertedOK
    <2>12. ok => DbOK(Inserted(txn, ref, v, missing, moves))
      <3>1. ok => missing = {} BY <2>5
      <3> QED BY <2>11, <3>1
    <2> QED BY <2>6, <2>12, FinishOK
  <1> QED BY <1>0, <1>1

LEMMA UpdateStep == IInv /\ Update => IInv'
  <1> SUFFICES ASSUME IInv, Update PROVE IInv' OBVIOUS
  <1>d. DbOK(txn) BY DEF IInv, Update
  <1>0. ASSUME NEW ok \in BOOLEAN, Finish(txn, ok) PROVE IInv' BY <1>d, <1>0, FinishOK
  <1>1. CASE \A ok \in BOOLEAN : ~Finish(txn, ok)
    <2>1. PICK ref \in TableRef :
            Known(txn, ref) /\ \E results, ok : Finish(Updated(txn, ref, results), ok) /\ ok \in BOOLEAN
      BY <1>1 DEF Update
    <2>2. PICK results, ok : Finish(Updated(txn, ref, results), ok) /\ ok \in BOOLEAN BY <2>1
    <2>4. ref \in DOMAIN txn.tables BY <2>1 DEF Known
    <2>5. DbOK(Updated(txn, ref, results)) BY <1>d, <2>4, UpdatedOK
    <2> QED BY <2>2, <2>5, FinishOK
  <1> QED BY <1>0, <1>1

(* With a journal the pages are flushed before they are the committed ones. *)
LEMMA CommitStep == IInv /\ Commit => IInv'
  <1> SUFFICES ASSUME IInv, Commit PROVE IInv' OBVIOUS
  <1>1. DbOK(txn) BY DEF IInv, Commit
  <1>2. txn' = NoDatabase /\ durable' = durable BY DEF Commit, build
  <1>3. DbOK(base') /\ (durable => Synced(base'))
    <2>1. CASE ~ dirty
      <3>1. base' = base BY <2>1 DEF Commit
      <3> QED BY <3>1 DEF IInv
    <2>2. CASE dirty /\ durable
      <3>1. base' = SyncIndexRoots(txn) BY <2>2 DEF Commit
      <3> QED BY <1>1, <3>1, SyncOK
    <2>3. CASE dirty /\ ~ durable
      <3>1. base' = txn BY <2>3 DEF Commit
      <3> QED BY <1>1, <2>3, <3>1
    <2> QED BY <2>1, <2>2, <2>3
  <1> QED BY <1>2, <1>3 DEF IInv

LEMMA AbortStep == IInv /\ Abort => IInv'
  BY DEF IInv, Abort, build

LEMMA ReopenStep == IInv /\ Reopen => IInv'
  <1> SUFFICES ASSUME IInv, Reopen PROVE IInv' OBVIOUS
  <1>1. DbOK(base) /\ Synced(base) BY DEF IInv, Reopen
  <1>2. LoadSchemas(base.pages) = base.pages BY <1>1, LoadIs
  <1>3. /\ base' = IF Loads(LoadSchemas(base.pages)) THEN Load(base.pages) ELSE base
        /\ txn' = NoDatabase
    BY DEF Reopen
  <1>4. DbOK(base)' /\ Synced(base)'
    <2>1. CASE Loads(base.pages)
      <3>1. DbOK(Load(base.pages)) /\ Synced(Load(base.pages)) BY <1>1, <2>1, LoadOK
      <3> QED BY <1>2, <1>3, <2>1, <3>1
    <2>2. CASE ~Loads(base.pages)
      <3>1. base' = base BY <1>2, <1>3, <2>2
      <3> QED BY <1>1, <3>1
    <2> QED BY <2>1, <2>2
  <1> QED BY <1>3, <1>4 DEF IInv

(* Every reachable committed database and every open copy satisfy the      *)
(* invariant: the system tables say what the memory says, and every tree   *)
(* has the ids of its heap.                                                *)
THEOREM CatalogInvariant == Spec => []IInv
  <1>1. IInv /\ [Next]_vars => IInv'
    <2> SUFFICES ASSUME IInv, [Next]_vars PROVE IInv' OBVIOUS
    <2>1. CASE Begin BY <2>1, BeginStep
    <2>2. CASE CreateTable BY <2>2, CreateTableStep
    <2>3. CASE CreateIndex BY <2>3, CreateIndexStep
    <2>4. CASE Insert BY <2>4, InsertStep
    <2>5. CASE Update BY <2>5, UpdateStep
    <2>6. CASE Commit BY <2>6, CommitStep
    <2>7. CASE Abort BY <2>7, AbortStep
    <2>8. CASE Reopen BY <2>8, ReopenStep
    <2>9. CASE UNCHANGED vars BY <2>9 DEF vars, build, IInv
    <2> QED BY <2>1, <2>2, <2>3, <2>4, <2>5, <2>6, <2>7, <2>8, <2>9 DEF Next
  <1> QED BY <1>1, Initially, PTL DEF Spec

(* A full scan of an index finds every row of its table once, in the       *)
(* committed database and in the copy of a transaction, through CREATE     *)
(* INDEX, INSERT, UPDATE, commits, copies and restarts, for any number of  *)
(* tables, indexes and rows.                                               *)
THEOREM IndexesAreExact == Spec => []IndexExact
  BY CatalogInvariant, InvariantGivesExact, PTL

(* A copy of a reachable database has the schemas and tables that it has   *)
(* in memory, whatever their names and columns are; and a table with plain *)
(* names and types has its heap, its columns and its indexes there, with   *)
(* their keys and current roots.  If all tables are plain, the copy can be *)
(* made: the database can be loaded from its pages.                        *)
THEOREM CopiesAreFaithful == Spec => []CopyFaithful
  BY CatalogInvariant, InvariantGivesCopies, PTL
=============================================================================
