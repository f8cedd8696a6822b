----------------------------- MODULE BPlusTree ------------------------------
(***************************************************************************)
(* The B+ tree index: insert with splits up to the root, point and range   *)
(* look-ups, full scans along the leaf chain, delete with borrow and merge.*)
(*                                                                         *)
(* A tree is its root page and its pages.  The statements of a database    *)
(* run one at a time, so each operation is one step; which page of which   *)
(* sibling each write goes to is kept.  Keys are numbers; 0 is the empty   *)
(* key of Tuple::empty, which is below all others.                         *)
(***************************************************************************)
EXTENDS Integers, FiniteSets, Sequences, SequencesExt

(* What a behaviour does to its index: "first" is inserted in this order   *)
(* before the first step; then keys of "keys" are inserted up to "rows" in *)
(* all, each once at a time if "unique", and deleted if "deletes".         *)
CONSTANTS
  Workloads  \* the workloads, each with the page sizes of its index

ASSUME TreeAssumption ==
  \A w \in Workloads :
    /\ w.keys \subseteq Nat \ {0} /\ w.first \in Seq(Nat \ {0}) /\ w.rows \in Nat
    /\ w.unique \in BOOLEAN /\ w.deletes \in BOOLEAN
    /\ w.internal_max_size \in Nat /\ w.internal_max_size >= 3
    /\ w.leaf_max_size \in Nat /\ w.leaf_max_size >= 2

INVALID == 0  \* INVALID_PAGE_ID
NoKey   == 0  \* the key of Tuple::empty
None    == 0  \* no record

VARIABLES
  work,     \* the workload: one of Workloads, for good
  tree,     \* root page, pages, and the number of the next new page
  entries,  \* history: the <<key, record>> pairs that are in the index
  inserted  \* the number of inserts so far; it names the next record

vars == <<work, tree, entries, inserted>>

Leaf(kv, next) == [leaf |-> TRUE, kv |-> kv, next |-> next]
Internal(kv)   == [leaf |-> FALSE, kv |-> kv, next |-> INVALID]
KV(k, v)       == [k |-> k, v |-> v]

EmptyTree == [root |-> INVALID, pages |-> <<>>, new |-> 1]

MaxSize(node) == IF node.leaf THEN work.leaf_max_size ELSE work.internal_max_size
MinSize(node) == MaxSize(node) \div 2

(* A mutant of IsFull: a page is split one pair too late. *)
IsFullLate(node) == Len(node.kv) > MaxSize(node) + 1
IsFull(node)  == Len(node.kv) > MaxSize(node)

(* Page p of tree t is (over)written, or added. *)
SetPage(t, p, node) ==
  [t EXCEPT !.pages = [q \in DOMAIN t.pages \cup {p} |->
                         IF q = p THEN node ELSE t.pages[q]]]
-----------------------------------------------------------------------------
(* Pages.                                                                  *)

(* push and stable sort: the new pair goes behind the pairs of its key. *)
SortedInsert(kv, e) ==
  SelectSeq(kv, LAMBDA x : x.k <= e.k) \o <<e>> \o SelectSeq(kv, LAMBDA x : x.k > e.k)

(* An internal page keeps its first pair in front, whatever its key. *)
InternalInsert(kv, e) ==
  IF kv = <<>> THEN <<e>> ELSE <<Head(kv)>> \o SortedInsert(Tail(kv), e)

(* batch_insert: extend, and a stable sort of the whole array. *)
BatchInsert(kv, more) == FoldLeft(SortedInsert, FoldLeft(SortedInsert, <<>>, kv), more)

(* The binary search that key_index and look_up share: the position where  *)
(* it stops between lo and hi.                                             *)
Search(kv, key, lo, hi) ==
  LET go[s \in 0..(hi + 1), e \in -1..hi] ==
        LET mid == (s + e) \div 2
        IN  IF s >= e \/ kv[mid].k = key THEN IF s >= e THEN s ELSE mid
            ELSE IF key < kv[mid].k THEN go[s, mid - 1] ELSE go[mid + 1, e]
  IN go[lo, hi]

(* A mutant of ChildFor: a key equal to a separator goes to the left. *)
ChildForLeft(kv, key) ==
  LET at == Search(kv, key, 2, Len(kv)) IN IF key <= kv[at].k THEN kv[at - 1].v ELSE kv[at].v

(* look_up of an internal page: its first key does not count. *)
ChildFor(kv, key) ==
  LET at == Search(kv, key, 2, Len(kv)) IN IF key < kv[at].k THEN kv[at - 1].v ELSE kv[at].v

(* key_index of a leaf page, and of an internal page from its second key;  *)
(* 0 if there is none.                                                     *)
KeyIndex(kv, key, from) ==
  IF kv = <<>> THEN 0
  ELSE LET at == Search(kv, key, from, Len(kv)) IN IF kv[at].k = key THEN at ELSE 0

RemoveIndex(kv, i) == IF i = 0 THEN kv ELSE RemoveAt(kv, i)
-----------------------------------------------------------------------------
(* Descending the tree.                                                    *)

(* find_leaf_page: the pages from the root to the leaf for the key. *)
RECURSIVE PathFrom(_, _, _)
PathFrom(t, p, key) ==
  IF t.pages[p].leaf THEN <<p>> ELSE <<p>> \o PathFrom(t, ChildFor(t.pages[p].kv, key), key)
FindLeaf(t, key) == PathFrom(t, t.root, key)

(* find_subtree_min_leafkv, get_first_leaf_page. *)
RECURSIVE FirstLeaf(_, _)
FirstLeaf(t, p) == IF t.pages[p].leaf THEN p ELSE FirstLeaf(t, t.pages[p].kv[1].v)
MinKey(t, p) == t.pages[FirstLeaf(t, p)].kv[1].k
-----------------------------------------------------------------------------
(* insert                                                                  *)

StartNewTree(t, e) ==
  [SetPage(t, t.new, Leaf(<<e>>, INVALID)) EXCEPT !.root = t.new, !.new = t.new + 1]

(* A mutant of LinkAfterSplit: the new leaf is the last of the chain. *)
LinkAfterSplitEnds(node) == INVALID
LinkAfterSplit(node) == node.next

(* A mutant of Upper: split_off begins one pair too early. *)
UpperOverlap(kv) == SubSeq(kv, Len(kv) \div 2, Len(kv))

Lower(kv) == SubSeq(kv, 1, Len(kv) \div 2)
Upper(kv) == SubSeq(kv, Len(kv) \div 2 + 1, Len(kv))

(* split: the upper half of page p moves to a new page on its right. *)
Split(t, p) ==
  LET node == t.pages[p]
      low  == [node EXCEPT !.kv = Lower(@), !.next = IF node.leaf THEN t.new ELSE @]
      high == [node EXCEPT !.kv = BatchInsert(<<>>, Upper(@)), !.next = LinkAfterSplit(node)]
      t2   == SetPage(SetPage(t, p, low), t.new, high)
  IN [t2 EXCEPT !.new = t.new + 1]

(* The loop of insert: a full page is split, and its new sibling is put    *)
(* into the parent, or into a new root.                                    *)
RECURSIVE SplitUp(_, _)
SplitUp(t, path) ==
  LET p == Last(path)
      s == Split(t, p)
      e == KV(MinKey(s, t.new), t.new)
  IN  IF ~IsFull(t.pages[p]) THEN t
      ELSE IF Len(path) > 1
      THEN LET parent == path[Len(path) - 1]
           IN  SplitUp(SetPage(s, parent,
                               [s.pages[parent] EXCEPT !.kv = InternalInsert(@, e)]),
                       Front(path))
      ELSE [SetPage(s, s.new, Internal(<<KV(NoKey, p), e>>))
              EXCEPT !.root = s.new, !.new = s.new + 1]

InsertInto(t, key, rid) ==
  IF t.root = INVALID THEN StartNewTree(t, KV(key, rid))
  ELSE LET path == FindLeaf(t, key)
           leaf == t.pages[Last(path)]
       IN  SplitUp(SetPage(t, Last(path), [leaf EXCEPT !.kv = SortedInsert(@, KV(key, rid))]),
                   path)
-----------------------------------------------------------------------------
(* get, and the range iterator.                                            *)

Get(t, key) ==
  IF t.root = INVALID THEN None
  ELSE LET kv == t.pages[Last(FindLeaf(t, key))].kv
           at == KeyIndex(kv, key, 1)
       IN  IF at = 0 THEN None ELSE kv[at].v

(* The pairs from position i of leaf page p along the chain.  The iterator *)
(* takes the first pair of a page that it moves on to without a look, so a *)
(* page must not be empty.                                                 *)
RECURSIVE ChainFrom(_, _, _)
ChainFrom(t, p, i) ==
  LET node == t.pages[p]
  IN  SubSeq(node.kv, i, Len(node.kv)) \o
      (IF node.next = INVALID THEN <<>> ELSE ChainFrom(t, node.next, 1))

Scan(t) == IF t.root = INVALID THEN <<>> ELSE ChainFrom(t, FirstLeaf(t, t.root), 1)

(* A bound of a range: a key with or without the key itself, or none. *)
Bounds    == {[kind |-> "unbounded", k |-> NoKey]} \cup
             [kind : {"included", "excluded"}, k : work.keys]
After(lo, k)  == lo.kind = "unbounded" \/ k > lo.k \/ (lo.kind = "included" /\ k = lo.k)
Before(k, hi) == hi.kind = "unbounded" \/ k < hi.k \/ (hi.kind = "included" /\ k = hi.k)

(* The first next(): where next_closest says in the leaf for the bound, or *)
(* else the first pair of the next leaf.                                   *)
Started(t, lo) ==
  IF lo.kind = "unbounded" THEN Scan(t)
  ELSE LET p    == Last(FindLeaf(t, lo.k))
           leaf == t.pages[p]
           i    == SelectInSeq(leaf.kv, LAMBDA e : After(lo, e.k))
       IN  IF i # 0 THEN ChainFrom(t, p, i)
           ELSE IF leaf.next = INVALID THEN <<>> ELSE ChainFrom(t, leaf.next, 1)

(* All calls of next() up to the first None: the first one does not look   *)
(* at the end bound.                                                       *)
RangeScan(t, lo, hi) ==
  IF t.root = INVALID THEN <<>>
  ELSE LET found == Started(t, lo)
           stop  == SelectInSubSeq(found, 2, Len(found), LAMBDA e : ~Before(e.k, hi))
       IN  IF stop = 0 THEN found ELSE SubSeq(found, 1, stop - 1)
-----------------------------------------------------------------------------
(* delete                                                                  *)

CanBorrow(t, p)   == p # INVALID /\ Len(t.pages[p].kv) > MinSize(t.pages[p])
Underflow(t, p)   == p # t.root /\ Len(t.pages[p].kv) < MinSize(t.pages[p])
AddTo(node, e)    == [node EXCEPT !.kv = IF node.leaf THEN SortedInsert(@, e)
                                         ELSE InternalInsert(@, e)]
ReplaceKey(kv, old, new) ==
  LET i == KeyIndex(kv, old, 2) IN IF i = 0 THEN kv ELSE [kv EXCEPT ![i].k = new]

(* sibling_page_ids: the neighbours of child p in its parent. *)
Siblings(parent, p) ==
  LET i == SelectInSeq(parent.kv, LAMBDA e : e.v = p)
  IN  [left  |-> IF i <= 1 THEN INVALID ELSE parent.kv[i - 1].v,
       right |-> IF i \in {0, Len(parent.kv)} THEN INVALID ELSE parent.kv[i + 1].v]

(* The writes of borrow: a pair moves, and the parent's key is replaced. *)
Moved(t, parent, p, node, from, kv, old, new) ==
  LET t1 == SetPage(SetPage(t, p, node), from, [t.pages[from] EXCEPT !.kv = kv])
  IN  SetPage(t1, parent, [t.pages[parent] EXCEPT !.kv = ReplaceKey(@, old, new)])

(* borrow_max_kv: the last pair of the left sibling comes over. *)
BorrowMax(t, parent, p, left) ==
  LET from == t.pages[left].kv
      node == AddTo(t.pages[p], Last(from))
      old  == IF node.leaf THEN node.kv[2].k ELSE t.pages[p].kv[1].k
      new  == IF node.leaf THEN node.kv[1].k ELSE MinKey(t, from[1].v)
  IN  Moved(t, parent, p, node, left, Front(from), old, new)

(* borrow_min_kv: the first pair of the right sibling comes over. *)
BorrowMin(t, parent, p, right) ==
  LET from == t.pages[right].kv
      node == AddTo(t.pages[p], Head(from))
      new  == IF node.leaf THEN from[2].k ELSE MinKey(t, from[2].v)
  IN  Moved(t, parent, p, node, right, Tail(from), Head(from).k, new)

(* The buffer pool does not delete a page that is in use. *)
DeletePage(t, p, held) ==
  IF p \in held THEN t ELSE [t EXCEPT !.pages = [q \in DOMAIN @ \ {p} |-> @[q]]]

(* A mutant of Joined: the link of the right page is lost. *)
JoinedUnlinked(l, r) == [l EXCEPT !.kv = BatchInsert(l.kv, r.kv), !.next = INVALID]

(* The left page with the pairs, and for a leaf the link, of the right. *)
Joined(l, r) == [l EXCEPT !.kv = BatchInsert(l.kv, r.kv), !.next = r.next]

(* merge: the right page goes into the left one and out of the parent; a   *)
(* root with one child gives way to it.  The old root is in use here.      *)
Merge(t, parent, left, right, held) ==
  LET r    == t.pages[right]
      from == IF r.leaf THEN r ELSE [r EXCEPT !.kv[1].k = MinKey(t, r.kv[1].v)]
      t1   == DeletePage(SetPage(t, left, Joined(t.pages[left], from)), right, held)
      kv   == SelectSeq(t1.pages[parent].kv, LAMBDA e : e.v # right)
  IN  IF parent = t.root /\ Len(kv) = 1
      THEN DeletePage([t1 EXCEPT !.root = left], parent, {parent})
      ELSE SetPage(t1, parent, [t.pages[parent] EXCEPT !.kv = kv])

(* The loop of delete. *)
RECURSIVE Rebalance(_, _, _)
Rebalance(t, path, held) ==
  IF ~Underflow(t, Last(path)) THEN t
  ELSE LET p      == Last(path)
           parent == path[Len(path) - 1]
           sib    == Siblings(t.pages[parent], p)
           merged == IF sib.left # INVALID THEN Merge(t, parent, sib.left, p, held)
                     ELSE Merge(t, parent, p, sib.right, held)
       IN  IF CanBorrow(t, sib.left) THEN BorrowMax(t, parent, p, sib.left)
           ELSE IF CanBorrow(t, sib.right) THEN BorrowMin(t, parent, p, sib.right)
           ELSE IF merged.root # t.root THEN merged
           ELSE Rebalance(merged, Front(path), held)

(* The leaf for the key is in use until delete returns. *)
DeleteFrom(t, key) ==
  IF t.root = INVALID THEN t
  ELSE LET path == FindLeaf(t, key)
           leaf == t.pages[Last(path)]
           kv   == RemoveIndex(leaf.kv, KeyIndex(leaf.kv, key, 1))
       IN  Rebalance(SetPage(t, Last(path), [leaf EXCEPT !.kv = kv]), path, {Last(path)})
-----------------------------------------------------------------------------
(* The index.  Statements only insert into it; delete is called by tests.  *)

Filled(keys) == FoldLeftDomain(LAMBDA t, i : InsertInto(t, keys[i], i), EmptyTree, keys)

Init ==
  /\ work \in Workloads
  /\ tree = Filled(work.first)
  /\ entries = {KV(work.first[i], i) : i \in DOMAIN work.first}
  /\ inserted = Len(work.first)

Insert(key) ==
  /\ inserted < work.rows
  /\ work.unique => \A e \in entries : e.k # key
  /\ inserted' = inserted + 1
  /\ tree' = InsertInto(tree, key, inserted')
  /\ entries' = entries \cup {KV(key, inserted')}
  /\ UNCHANGED work

Delete(key) ==
  /\ work.deletes
  /\ tree' = DeleteFrom(tree, key)
  /\ entries' = {e \in entries : e.k # key}
  /\ UNCHANGED <<work, inserted>>

Next ==
  \/ \E key \in work.keys : Insert(key)
  \/ \E key \in work.keys : Delete(key)

Spec == Init /\ [][Next]_vars
-----------------------------------------------------------------------------
(* Properties.                                                             *)

Children(t, p) == IF t.pages[p].leaf THEN {} ELSE {e.v : e \in ToSet(t.pages[p].kv)}

(* The pages below and at p, with their distance from it. *)
RECURSIVE Below(_, _, _)
Below(t, p, depth) ==
  {<<p, depth>>} \cup UNION {Below(t, c, depth + 1) : c \in Children(t, p)}
Reached(t) == IF t.root = INVALID THEN {} ELSE {x[1] : x \in Below(t, t.root, 0)}

SortedBy(s, Op(_, _)) == \A i, j \in DOMAIN s : i < j => Op(s[i].k, s[j].k)

(* Every page of the tree is filled within its limits and, behind the      *)
(* first key of an internal page, in order.                                *)
TypeOK ==
  /\ inserted \in Nat
  /\ \A e \in entries : e.k \in Nat \ {0} /\ e.v \in 1..inserted
  /\ \A p \in Reached(tree) :
       LET node == tree.pages[p]
       IN  /\ Len(node.kv) \in (IF p = tree.root THEN 0 ELSE 1)..MaxSize(node)
           /\ SortedBy(IF node.leaf THEN node.kv ELSE Tail(node.kv), <=)

(* All leaves are equally far from the root, and every page but the root   *)
(* is the child of one page: splits up to a new root keep the tree a tree. *)
Balanced ==
  tree.root # INVALID =>
    LET below  == Below(tree, tree.root, 0)
        leaves == {x \in below : tree.pages[x[1]].leaf}
    IN  /\ Cardinality({x[2] : x \in leaves}) = 1
        /\ \A c \in Reached(tree) \ {tree.root} :
             Cardinality({p \in Reached(tree) : c \in Children(tree, p)}) = 1

(* get finds a record of every key, and none for any other key. *)
GetExact ==
  \A key \in work.keys :
    LET found == {e.v : e \in {x \in entries : x.k = key}}
    IN  IF found = {} THEN Get(tree, key) = None ELSE Get(tree, key) \in found

(* While keys are distinct and nothing is deleted, get is exact: the       *)
(* separators that splits leave in the internal pages lead every search to *)
(* the leaf that has the key.                                              *)
GetExactOnDistinct == work.unique /\ ~work.deletes => GetExact

(* While nothing is deleted, a full scan, which a query on an indexed      *)
(* table runs instead of a scan of the table, returns every record exactly *)
(* once, keys repeated or not.                                             *)
ScanComplete ==
  ~work.deletes => ToSet(Scan(tree)) = entries /\ Len(Scan(tree)) = Cardinality(entries)

(* A range scan of distinct keys returns the records of the range in key   *)
(* order.  When the range has none, it returns the first record behind its *)
(* start, if any: the first call of next() does not look at the end.       *)
RangeExact ==
  work.unique /\ ~work.deletes =>
    \A lo, hi \in Bounds :
      LET found  == RangeScan(tree, lo, hi)
          later  == {e \in entries : After(lo, e.k)}
          inside == {e \in later : Before(e.k, hi)}
      IN  /\ SortedBy(found, <)
          /\ ToSet(found) = IF inside # {} THEN inside
                            ELSE {e \in later : \A x \in later : e.k <= x.k}

(* A delete takes at most one pair of its key out of what a scan returns,  *)
(* and no pair of another key: what borrow and merge move stays on the     *)
(* chain of leaves.  (It holds while no internal page borrows from its     *)
(* left sibling: such a page puts the borrowed child behind its first one, *)
(* and the next merge or borrow takes pages out of order.)                 *)
DeleteKeepsOthers ==
  [][\A key \in work.keys : Delete(key) =>
       LET before == ToSet(Scan(tree))
       IN  \/ ToSet(Scan(tree')) = before
           \/ \E e \in before : e.k = key /\ ToSet(Scan(tree')) = before \ {e}]_vars
=============================================================================
