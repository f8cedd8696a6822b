---------------------------- MODULE DiskManager -----------------------------
(***************************************************************************)
(* Page allocation in the database file.  Deallocated page numbers are     *)
(* kept in a chain of freelist pages inside the file; the rest of the file *)
(* is only known by its length.  A step is one write of one page, so that  *)
(* the process may die, or a write may fail, between any two of them.      *)
(*                                                                         *)
(* The clients of DiskManager (buffer pool, heap, index) use one at a      *)
(* time.  What they own after a crash is what the file said they owned.    *)
(***************************************************************************)
EXTENDS Naturals, FiniteSets, Sequences, SequencesExt

CONSTANTS
  MaxPages,    \* bound on the length of the file, in pages
  MaxSize      \* FREELIST_PAGE_MAX_SIZE, the entries of a freelist page

Root    == 1       \* freelist_page_id of the meta page of a new file
Catalog == 2..5    \* the four first pages of the information schema
INVALID == 0       \* INVALID_PAGE_ID

ASSUME DiskAssumption == MaxPages \in Nat /\ MaxPages >= 5 /\ MaxSize \in Nat \ {0}

VARIABLES
  file,   \* the pages of the file
  next,   \* next_page_id
  pc,     \* where the call that is under way has got to
  page,   \* the page that the call is about
  list,   \* the freelist page that it has just allocated
  owned,  \* pages that clients use
  lost    \* history: has a crash or an error interrupted a call?

vars == <<file, next, pc, page, list, owned, lost>>

(* A page is a freelist page, all zeros, or filled by a client. *)
Zeros == [kind |-> "zeros", next |-> INVALID, array |-> <<>>]
Used  == [kind |-> "used", next |-> INVALID, array |-> <<>>]
FreelistPage(n, a) == [kind |-> "list", next |-> n, array |-> a]

Init ==
  /\ file = [p \in 1..5 |-> IF p = Root THEN FreelistPage(INVALID, <<>>) ELSE Zeros]
  /\ next = 6
  /\ pc = "idle" /\ page = INVALID /\ list = INVALID
  /\ owned = {} /\ lost = FALSE

(* write_page_internal: past the end the file grows, with zeros between. *)
WritePage(p, content) ==
  file' = [q \in 1..(IF p > Len(file) THEN p ELSE Len(file)) |->
             IF q = p THEN content ELSE IF q <= Len(file) THEN file[q] ELSE Zeros]

(* The freelist pages in the order in which push and pop visit them. *)
From[p \in 0..Len(file)] == IF p = INVALID THEN <<>> ELSE <<p>> \o From[file[p].next]
Chain == From[Root]

Full(p)  == Len(file[p].array) >= MaxSize
Empty(p) == file[p].array = <<>>

(* Where in the chain is the first freelist page that is not empty (for    *)
(* pop), that is not full (for push)?  0 if there is none.                 *)
PopAt  == SelectInSeq(Chain, LAMBDA p : ~Empty(p))
PushAt == SelectInSeq(Chain, LAMBDA p : ~Full(p))
PopFrom == Chain[PopAt]
PushTo  == Chain[PushAt]
-----------------------------------------------------------------------------
(* allocate_page, for a client ("return") or for a freelist page ("list"): *)
(* a page from the freelist, else a new one at the end of the file.        *)

(* A mutant of Popped: the entry stays in the freelist page. *)
NotPopped(p) == file[p]
Popped(p) == FreelistPage(file[p].next, Front(file[p].array))

(* The number that allocate_page returns, and its one write. *)
Allocated == IF PopAt # 0 THEN Last(file[PopFrom].array) ELSE next
AllocatePage ==
  IF PopAt # 0
  THEN WritePage(PopFrom, Popped(PopFrom)) /\ next' = next
  ELSE next <= MaxPages /\ WritePage(next, Zeros) /\ next' = next + 1

Allocate ==
  /\ pc = "idle" /\ AllocatePage
  /\ page' = Allocated /\ pc' = "return"
  /\ UNCHANGED <<list, owned, lost>>

Return ==
  /\ pc = "return"
  /\ owned' = owned \cup {page} /\ page' = INVALID /\ pc' = "idle"
  /\ UNCHANGED <<file, next, list, lost>>

(* write_page, by a client that owns the page. *)
ClientWrites(p) ==
  /\ pc = "idle" /\ p \in owned
  /\ WritePage(p, Used)
  /\ UNCHANGED <<next, pc, page, list, owned, lost>>

(* The write of allocate_page fails at the end of the file, where the      *)
(* number has been taken already.                                          *)
AllocateFails ==
  /\ pc = "idle" \/ (pc = "push" /\ PushAt = 0)
  /\ PopAt = 0 /\ next <= MaxPages
  /\ next' = next + 1 /\ pc' = "idle" /\ page' = INVALID /\ lost' = TRUE
  /\ UNCHANGED <<file, list, owned>>
-----------------------------------------------------------------------------
(* deallocate_page, then freelist_push.                                    *)

(* A mutant of Cleared: the page keeps its contents. *)
NotCleared(p) == file[p]
Cleared(p) == Zeros

Deallocate(p) ==
  /\ pc = "idle" /\ p \in owned
  /\ WritePage(p, Cleared(p))
  /\ owned' = owned \ {p} /\ page' = p /\ pc' = "push"
  /\ UNCHANGED <<next, list, lost>>

Push ==
  /\ pc = "push" /\ PushAt # 0
  /\ WritePage(PushTo, FreelistPage(file[PushTo].next, Append(file[PushTo].array, page)))
  /\ pc' = "idle" /\ page' = INVALID
  /\ UNCHANGED <<next, list, owned, lost>>

(* All freelist pages are full: a new one is allocated (from the freelist  *)
(* itself), written empty, linked behind the last, and filled.             *)
PushGrow ==
  /\ pc = "push" /\ PushAt = 0
  /\ AllocatePage
  /\ list' = Allocated /\ pc' = "format"
  /\ UNCHANGED <<page, owned, lost>>

Format ==
  /\ pc = "format"
  /\ WritePage(list, FreelistPage(INVALID, <<>>))
  /\ pc' = "link"
  /\ UNCHANGED <<next, page, list, owned, lost>>

Linked(l) == FreelistPage(list, file[l].array)

Link ==
  /\ pc = "link"
  /\ WritePage(Last(Chain), Linked(Last(Chain)))
  /\ pc' = "fill"
  /\ UNCHANGED <<next, page, list, owned, lost>>

(* A mutant of Filled: the new page is written without the page number. *)
FilledEmpty == FreelistPage(INVALID, <<>>)
Filled == FreelistPage(INVALID, <<page>>)

Fill ==
  /\ pc = "fill"
  /\ WritePage(list, Filled)
  /\ pc' = "idle" /\ page' = INVALID /\ list' = INVALID
  /\ UNCHANGED <<next, owned, lost>>

(* A write of deallocate_page or of freelist_push fails. *)
DeallocateFails(p) ==
  /\ pc = "idle" /\ p \in owned
  /\ owned' = owned \ {p} /\ lost' = TRUE
  /\ UNCHANGED <<file, next, pc, page, list>>

PushFails ==
  /\ pc \in {"push", "format", "link", "fill"}
  /\ pc' = "idle" /\ page' = INVALID /\ list' = INVALID /\ lost' = TRUE
  /\ UNCHANGED <<file, next, owned>>

(* The process ends; try_new finds the file as it is and takes the next    *)
(* page number from its length.                                            *)
Restart ==
  /\ next' = Len(file) + 1
  /\ pc' = "idle" /\ page' = INVALID /\ list' = INVALID
  /\ lost' = (lost \/ pc # "idle")
  /\ UNCHANGED <<file, owned>>
-----------------------------------------------------------------------------
Next ==
  \/ Allocate \/ Return \/ AllocateFails
  \/ \E p \in owned : ClientWrites(p) \/ Deallocate(p) \/ DeallocateFails(p)
  \/ Push \/ PushGrow \/ Format \/ Link \/ Fill \/ PushFails
  \/ Restart

Spec == Init /\ [][Next]_vars
-----------------------------------------------------------------------------
(* Correctness.                                                            *)

(* The freelist pages, and the page numbers in them. *)
Lists   == Range(Chain)
Entries == UNION {Range(file[l].array) : l \in Lists}

(* No page number is in two places of the freelist. *)
EntriesDistinct ==
  \A l, m \in Lists : \A i \in 1..Len(file[l].array), j \in 1..Len(file[m].array) :
    file[l].array[i] = file[m].array[j] => l = m /\ i = j

(* The pages that the call under way holds, outside the chain. *)
InHand == ({page} \cup (IF pc \in {"format", "link"} THEN {list} ELSE {})) \ {INVALID}

(* Every variable has its type, and freelist pages do not overflow. *)
TypeOK ==
  /\ next \in 6..(MaxPages + 1) /\ Len(file) < next
  /\ pc \in {"idle", "return", "push", "format", "link", "fill"}
  /\ \A p \in DOMAIN file : Len(file[p].array) <= MaxSize
  /\ {page, list} \subseteq 0..MaxPages /\ owned \subseteq 1..MaxPages
  /\ lost \in BOOLEAN

(* No page number serves two purposes, whichever write was the last that   *)
(* reached the file: a free page is in the freelist once, is owned by      *)
(* nobody, and is neither a catalog page nor a freelist page; and no page  *)
(* in use has a number that the end of the file will hand out again.       *)
NoDoubleUse ==
  /\ EntriesDistinct
  /\ Entries \cap (owned \cup InHand \cup Catalog \cup Lists) = {}
  /\ owned \cap (InHand \cup Catalog \cup Lists) = {}
  /\ InHand \cap (Catalog \cup Lists) = {}
  /\ owned \cup InHand \cup Entries \subseteq DOMAIN file

(* new_page may skip the write of the page it gets: it reads as zeros. *)
HandedOutZeroed == pc = "return" => file[page] = Zeros

(* As long as no crash and no error interrupts a call, no page is lost.    *)
NothingLost ==
  ~lost /\ pc = "idle" =>
    owned \cup Catalog \cup Lists \cup Entries = 1..(next - 1)
=============================================================================
