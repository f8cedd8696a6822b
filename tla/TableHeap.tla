----------------------------- MODULE TableHeap ------------------------------
(***************************************************************************)
(* A table heap: a chain of slotted pages, byte by byte.  The header with  *)
(* one info per tuple grows from the front of a page, the tuples from its  *)
(* end, and encoding a page writes the header over whatever is there.      *)
(*                                                                         *)
(* The statements of a database run one at a time, so each call is one     *)
(* step.  A byte is free, part of a header, or a byte of a tuple.          *)
(***************************************************************************)
EXTENDS Naturals, FiniteSets, Sequences, SequencesExt

CONSTANTS
  Tuple,       \* the tuples
  Size,        \* the length of their encoding
  PageSize,    \* BUSTUBX_PAGE_SIZE
  HeaderSize,  \* the bytes of a page header without infos
  InfoSize,    \* the bytes of a tuple info
  MaxPages,    \* bound on the pages of the heap
  MaxDeleted,  \* bound on the number of deletions in a page
  Garbage      \* what bytes that are no tuple decode to, if at all

ASSUME HeapAssumption ==
  /\ Size \in [Tuple -> Nat \ {0}] /\ Garbage \notin Tuple
  /\ PageSize \in Nat /\ HeaderSize \in Nat /\ InfoSize \in Nat \ {0}
  /\ HeaderSize < PageSize /\ MaxPages \in Nat \ {0} /\ MaxDeleted \in Nat

INVALID == 0  \* INVALID_PAGE_ID

VARIABLES
  pages,  \* the pages of the heap, in the order of their allocation
  last,   \* last_page_id
  rows    \* history: the rows in insertion order, as <<rid, tuple>>

vars == <<pages, last, rows>>

First == 1    \* first_page_id
Free  == <<>>
Header == <<"header">>

EmptyPage == [next |-> INVALID, infos |-> <<>>, num_deleted |-> 0,
              bytes |-> [b \in 1..PageSize |-> Free]]

Init == pages = <<EmptyPage>> /\ last = First /\ rows = <<>>
-----------------------------------------------------------------------------
(* TablePage.  Offsets count from 0.                                       *)

HeaderLen(infos) == HeaderSize + InfoSize * Len(infos)

(* TablePageCodec::encode: the header goes over the front of the data. *)
Encode(page) ==
  [page EXCEPT !.bytes = [b \in 1..PageSize |-> IF b <= HeaderLen(page.infos) THEN Header
                                                ELSE page.bytes[b]]]

(* TupleCodec::decode of the bytes that an info names. *)
Decode(page, info) ==
  LET whole(t) == /\ Size[t] = info.size
                  /\ \A i \in 1..Size[t] : page.bytes[info.offset + i] = <<t, i>>
  IN  IF \E t \in Tuple : whole(t) THEN CHOOSE t \in Tuple : whole(t) ELSE Garbage

(* The bytes with the encoding of t at an offset. *)
Put(bytes, offset, t) ==
  [b \in 1..PageSize |-> IF b \in (offset + 1)..(offset + Size[t]) THEN <<t, b - offset>>
                         ELSE bytes[b]]

SlotEnd(page) == IF page.infos = <<>> THEN PageSize ELSE Last(page.infos).offset

(* A mutant of Fits: the info of the new tuple is not counted. *)
FitsWithoutInfo(page, t) == SlotEnd(page) >= Size[t] + HeaderLen(page.infos)

(* next_tuple_offset: there is room for the tuple and for its info. *)
Fits(page, t) == SlotEnd(page) >= Size[t] + HeaderLen(page.infos) + InfoSize

PageInsert(page, t, deleted) ==
  LET offset == SlotEnd(page) - Size[t]
      info   == [offset |-> offset, size |-> Size[t], deleted |-> deleted]
  IN  [page EXCEPT !.infos = Append(@, info), !.bytes = Put(@, offset, t),
                   !.num_deleted = IF deleted THEN @ + 1 ELSE @]

(* A page with tuples ts, built anew from the first slot on; an error when *)
(* they do not fit (no page is without bytes).                             *)
Overflow == [EmptyPage EXCEPT !.bytes = <<>>]
Rebuilt(page, ts) ==
  LET built[n \in 0..Len(ts)] ==
        IF n = 0 THEN [EmptyPage EXCEPT !.next = page.next]
        ELSE LET b == built[n - 1]
             IN  IF b = Overflow \/ ~Fits(b, ts[n]) THEN Overflow
                 ELSE PageInsert(b, ts[n], page.infos[n].deleted)
  IN  built[Len(ts)]

InPlace(info, t) == Size[t] = info.size

Tuples(page) == [n \in DOMAIN page.infos |-> Decode(page, page.infos[n])]
-----------------------------------------------------------------------------
(* TableHeap.  A record id is a page and a slot, which counts from 1.      *)

Rids == UNION {{<<p, s>> : s \in 1..(Len(pages[p].infos) + 1)} : p \in DOMAIN pages}
Exists(rid) == rid[1] \in DOMAIN pages /\ rid[2] \in DOMAIN pages[rid[1]].infos
TupleAt(rid) == Decode(pages[rid[1]], pages[rid[1]].infos[rid[2]])

(* insert_tuple, into the last page. *)
Insert(t) ==
  /\ Fits(pages[last], t)
  /\ pages' = [pages EXCEPT ![last] = Encode(PageInsert(@, t, FALSE))]
  /\ rows' = Append(rows, <<<<last, Len(pages'[last].infos)>>, t>>)
  /\ UNCHANGED last

(* A mutant of Linked: the full page is not written back with its link. *)
LinkedNot(page, p) == page
Linked(page, p) == [page EXCEPT !.next = p]

(* The last page is full: a new page is written and linked behind it. *)
Grown(ps, p) ==
  [q \in DOMAIN ps \cup {p} |->
     IF q = p THEN Encode(EmptyPage)
     ELSE IF q = last THEN Encode(Linked(ps[q], p)) ELSE ps[q]]

InsertGrow(t) ==
  /\ ~Fits(pages[last], t) /\ pages[last].infos # <<>> /\ Len(pages) < MaxPages
  /\ Fits(EmptyPage, t)
  /\ LET p == Len(pages) + 1
     IN  /\ last' = p
         /\ pages' = [Grown(pages, p) EXCEPT ![p] = Encode(PageInsert(EmptyPage, t, FALSE))]
         /\ rows' = Append(rows, <<<<p, 1>>, t>>)

(* The tuple does not fit into an empty page: the assertion fails, after a *)
(* new page was linked if the last one had tuples.                         *)
InsertTooLarge(t) ==
  /\ ~Fits(EmptyPage, t)
  /\ IF pages[last].infos = <<>> THEN UNCHANGED <<pages, last>>
     ELSE /\ Len(pages) < MaxPages
          /\ last' = Len(pages) + 1 /\ pages' = Grown(pages, last')
  /\ UNCHANGED rows

(* update_tuple: in place, or by building the page anew. *)
Updated(page, s, t) ==
  IF InPlace(page.infos[s], t)
  THEN [page EXCEPT !.bytes = Put(@, page.infos[s].offset, t)]
  ELSE Rebuilt(page, [Tuples(page) EXCEPT ![s] = t])

Update(rid, t) ==
  /\ Exists(rid) /\ Updated(pages[rid[1]], rid[2], t) # Overflow
  /\ pages' = [pages EXCEPT ![rid[1]] = Encode(Updated(@, rid[2], t))]
  /\ rows' = [i \in DOMAIN rows |-> IF rows[i][1] = rid THEN <<rid, t>> ELSE rows[i]]
  /\ UNCHANGED last

(* The slot does not exist, or the page overflows: an error, no effect. *)
UpdateFails(rid, t) ==
  /\ Exists(rid) => Updated(pages[rid[1]], rid[2], t) = Overflow
  /\ UNCHANGED vars

(* The number of deletions, with that of slot s if it was not deleted. *)
Deleted(page, s, deleted) ==
  IF deleted /\ ~page.infos[s].deleted THEN page.num_deleted + 1 ELSE page.num_deleted

(* update_tuple_meta: the count of deleted tuples goes up, never down. *)
UpdateMeta(rid, deleted) ==
  /\ Exists(rid)
  /\ LET page  == pages[rid[1]]
         count == Deleted(page, rid[2], deleted)
     IN  /\ count <= MaxDeleted
         /\ pages' = [pages EXCEPT ![rid[1]] =
                        Encode([page EXCEPT !.infos[rid[2]].deleted = deleted,
                                            !.num_deleted = count])]
  /\ UNCHANGED <<last, rows>>

(* The database is loaded again: load_table_last_page_id follows the chain. *)
LastPage ==
  LET from[p \in DOMAIN pages] == IF pages[p].next = INVALID THEN p ELSE from[pages[p].next]
  IN  from[First]
Reload == last' = LastPage /\ UNCHANGED <<pages, rows>>

Next ==
  \/ \E t \in Tuple : Insert(t) \/ InsertGrow(t) \/ InsertTooLarge(t)
  \/ \E rid \in Rids, t \in Tuple : Update(rid, t) \/ UpdateFails(rid, t)
  \/ \E rid \in Rids, d \in BOOLEAN : UpdateMeta(rid, d)
  \/ Reload

Spec == Init /\ [][Next]_vars
-----------------------------------------------------------------------------
(* TableIterator.                                                          *)

None == <<>>

GetFirstRid == IF pages[First].infos = <<>> THEN None ELSE <<First, 1>>

GetNextRid(rid) ==
  LET page == pages[rid[1]]
  IN  IF rid[2] < Len(page.infos) THEN <<rid[1], rid[2] + 1>>
      ELSE IF page.next = INVALID \/ pages[page.next].infos = <<>> THEN None
      ELSE <<page.next, 1>>

Bounds == {[kind |-> "unbounded", rid |-> None]} \cup
          [kind : {"included", "excluded"}, rid : {rows[i][1] : i \in DOMAIN rows}]

(* What next() returns after rid, up to the first None. *)
IterateFrom(rid, hi) ==
  LET from[r \in Rids] ==
        LET n == GetNextRid(r)
        IN  IF n = None \/ (hi.kind = "excluded" /\ n = hi.rid) THEN <<>>
            ELSE IF hi.kind = "included" /\ n = hi.rid THEN <<n>> ELSE <<n>> \o from[n]
  IN  from[rid]

(* All of a range.  The first call of next() does not look at the end. *)
Iterate(lo, hi) ==
  LET start == IF lo.kind = "included" THEN lo.rid
               ELSE IF lo.kind = "excluded" THEN GetNextRid(lo.rid) ELSE GetFirstRid
  IN  IF start = None THEN <<>> ELSE <<start>> \o IterateFrom(start, hi)
-----------------------------------------------------------------------------
(* Correctness.                                                            *)

(* Pages are what TablePage says; no page is lost from the heap's end. *)
TypeOK ==
  /\ last \in DOMAIN pages /\ Len(pages) <= MaxPages
  /\ \A p \in DOMAIN pages :
       /\ pages[p].next \in {INVALID} \cup DOMAIN pages
       /\ pages[p].num_deleted \in 0..MaxDeleted
       /\ Cardinality({s \in DOMAIN pages[p].infos : pages[p].infos[s].deleted})
            <= pages[p].num_deleted

(* A full scan returns every row under the record id that its insert       *)
(* returned, with the tuple last written to it, in insertion order: no     *)
(* header grows into a tuple, no update moves or damages another row, and  *)
(* no page falls off the chain.                                            *)
Scan == LET rids == Iterate([kind |-> "unbounded", rid |-> None],
                            [kind |-> "unbounded", rid |-> None])
        IN  [i \in DOMAIN rids |-> <<rids[i], TupleAt(rids[i])>>]
ScanExact == Scan = rows

(* Every range of the iterator starts at the row of its start bound, or    *)
(* behind it, and takes rows in order up to its end, which is looked at    *)
(* from the second row on: an end behind the first row ends the range      *)
(* there, included or excluded; any other one (of a single included row,   *)
(* of no row, or in front of the start) leaves the rest of the table in.   *)
RangeExact ==
  LET at(b, none) == IF b.kind = "unbounded" THEN none
                     ELSE CHOOSE i \in DOMAIN rows : rows[i][1] = b.rid
      rids == [i \in DOMAIN rows |-> rows[i][1]]
  IN  \A lo, hi \in Bounds :
        LET first == at(lo, 1) + (IF lo.kind = "excluded" THEN 1 ELSE 0)
            end   == at(hi, Len(rows) + 1)
            final == IF end <= first THEN Len(rows)
                     ELSE IF hi.kind = "included" THEN end ELSE end - 1
        IN  Iterate(lo, hi) = SubSeq(rids, first, final)
=============================================================================
