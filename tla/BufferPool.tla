----------------------------- MODULE BufferPool -----------------------------
(***************************************************************************)
(* The buffer pool: frames, page table, free list, pins of PageRef handles *)
(* and the replacer.  Each action is one call of BufferPoolManager, or one *)
(* use or drop of a PageRef; any number of handles may be outstanding.     *)
(*                                                                         *)
(* The disk below the pool hands out zeroed pages that nobody uses (module *)
(* DiskManager shows that it does).  Its reads and writes may fail when    *)
(* the file is "faulty", which a behaviour settles in its first state.     *)
(*                                                                         *)
(* The pool calls record_access only when it loads a frame that has no     *)
(* node in the replacer, so every history has one entry and evict picks    *)
(* the evictable frame loaded first: "lru" is the frames with a node, in   *)
(* that order.  Module LRUKReplacer has the replacer itself.               *)
(***************************************************************************)
EXTENDS Naturals, FiniteSets, Sequences, SequencesExt

CONSTANTS
  NumFrames,  \* num_pages of BufferPoolManager::new
  PageId,     \* page numbers of the file (bounded)
  Data, Zero, \* page contents; those of an empty page
  Ref,        \* PageRef handles
  None,       \* no frame, no page, no handle
  Faults      \* the values that "faulty" may have

Frame == 1..NumFrames

ASSUME PoolAssumption ==
  /\ NumFrames \in Nat \ {0}
  /\ Zero \in Data
  /\ None \notin PageId \cup Frame
  /\ Faults \subseteq BOOLEAN

VARIABLES
  pid, data, pin, dirty,  \* the Page of each frame
  table,                  \* page_table: the frame of a page, or None
  free,                   \* free_list
  lru, evictable,         \* the replacer: its nodes and their flags
  refFrame, refPage,      \* of each handle: its frame, the page it is for
  disk,                   \* the file
  faulty,                 \* may reads and writes of the file fail?
  live,                   \* pages allocated, and not yet asked to be deleted
  last                    \* history: what each page was last written with

pool   == <<pid, data, pin, dirty>>
lists  == <<table, free, lru, evictable>>
handles == <<refFrame, refPage>>
vars   == <<pool, lists, handles, disk, faulty, live, last>>

(* Every variable has its type, and no frame has two nodes. *)
TypeOK ==
  /\ pid \in [Frame -> PageId \cup {None}] /\ data \in [Frame -> Data]
  /\ pin \in [Frame -> Nat] /\ dirty \in [Frame -> BOOLEAN]
  /\ table \in [PageId -> Frame \cup {None}]
  /\ free \in Seq(Frame) /\ lru \in Seq(Frame) /\ IsInjective(lru)
  /\ evictable \subseteq Range(lru)
  /\ refFrame \in [Ref -> Frame \cup {None}] /\ refPage \in [Ref -> PageId \cup {None}]
  /\ disk \in [PageId -> Data] /\ faulty \in BOOLEAN /\ live \subseteq PageId
  /\ last \in [PageId -> Data]

Init ==
  /\ pid = [f \in Frame |-> None] /\ data = [f \in Frame |-> Zero]
  /\ pin = [f \in Frame |-> 0] /\ dirty = [f \in Frame |-> FALSE]
  /\ table = [p \in PageId |-> None]
  /\ free = [i \in Frame |-> i] /\ lru = <<>> /\ evictable = {}
  /\ refFrame = [r \in Ref |-> None] /\ refPage = [r \in Ref |-> None]
  /\ disk = [p \in PageId |-> Zero] /\ faulty \in Faults /\ live = {}
  /\ last = [p \in PageId |-> Zero]
-----------------------------------------------------------------------------
(* allocate_frame: the free list, then the replacer.                       *)

HasFrame == free # <<>> \/ evictable # {}
Victim == lru[Min({i \in DOMAIN lru : lru[i] \in evictable})]
Claimed == IF free # <<>> THEN Head(free) ELSE Victim

(* A mutant of TableAfter: the page table goes on naming the frame for the *)
(* old page.                                                               *)
TableKept == table

(* What allocate_frame leaves of the lists. *)
FreeAfter  == IF free # <<>> THEN Tail(free) ELSE free
LruAfter   == IF free # <<>> THEN lru ELSE RemoveFirst(lru, Victim)
EvictAfter == IF free # <<>> THEN evictable ELSE evictable \ {Victim}
TableAfter == IF free # <<>> THEN table ELSE [table EXCEPT ![pid[Victim]] = None]

(* A mutant of DiskAfter: an evicted page is never written back. *)
DiskWithoutFlush == disk
DiskAfter ==
  IF free = <<>> /\ dirty[Victim] THEN [disk EXCEPT ![pid[Victim]] = data[Victim]] ELSE disk

(* The frame f gets page p with contents d, pinned once by the handle r. *)
Load(f, p, d, r) ==
  /\ pid' = [pid EXCEPT ![f] = p] /\ data' = [data EXCEPT ![f] = d]
  /\ pin' = [pin EXCEPT ![f] = 1] /\ dirty' = [dirty EXCEPT ![f] = FALSE]
  /\ table' = [TableAfter EXCEPT ![p] = f]
  /\ free' = FreeAfter /\ lru' = Append(LruAfter, f) /\ evictable' = EvictAfter \ {f}
  /\ refFrame' = [refFrame EXCEPT ![r] = f] /\ refPage' = [refPage EXCEPT ![r] = p]

(* Writing the dirty victim back fails.  The victim has left the replacer; *)
(* its page stays in the page table.                                       *)
EvictFails ==
  /\ faulty /\ free = <<>> /\ evictable # {} /\ dirty[Victim]
  /\ lru' = LruAfter /\ evictable' = EvictAfter
  /\ UNCHANGED <<pool, table, free, handles, disk, live, last, faulty>>
-----------------------------------------------------------------------------
(* new_page *)
NewPage(r, p) ==
  /\ refFrame[r] = None /\ p \notin live /\ HasFrame
  /\ Load(Claimed, p, Zero, r)
  /\ disk' = [DiskAfter EXCEPT ![p] = Zero]
  /\ live' = live \cup {p}
  /\ last' = [last EXCEPT ![p] = Zero]
  /\ UNCHANGED faulty

(* new_page and fetch_page without a frame to claim: an error, no effect. *)
NoFrame == ~HasFrame /\ UNCHANGED vars

(* A mutant of PinHit: a hit leaves the frame evictable. *)
PinHitEvictable(f) == pin' = [pin EXCEPT ![f] = @ + 1] /\ evictable' = evictable
PinHit(f) == pin' = [pin EXCEPT ![f] = @ + 1] /\ evictable' = evictable \ {f}

(* fetch_page of a page in the pool. *)
FetchHit(r, p) ==
  /\ refFrame[r] = None /\ p \in live /\ table[p] # None
  /\ table[p] \in Range(lru)
  /\ PinHit(table[p])
  /\ refFrame' = [refFrame EXCEPT ![r] = table[p]] /\ refPage' = [refPage EXCEPT ![r] = p]
  /\ UNCHANGED <<pid, data, dirty, table, free, lru, disk, live, last, faulty>>

(* The frame has no node in the replacer: the pin is taken, then an error. *)
FetchHitFails(p) ==
  /\ p \in live /\ table[p] # None /\ table[p] \notin Range(lru)
  /\ pin[table[p]] < Cardinality(Ref)
  /\ pin' = [pin EXCEPT ![table[p]] = @ + 1]
  /\ UNCHANGED <<pid, data, dirty, lists, handles, disk, live, last, faulty>>

FetchMiss(r, p) ==
  /\ refFrame[r] = None /\ p \in live /\ table[p] = None /\ HasFrame
  /\ Load(Claimed, p, DiskAfter[p], r)
  /\ disk' = DiskAfter
  /\ UNCHANGED <<live, last, faulty>>

(* The read fails: the page table already names the claimed frame, whose   *)
(* old page has been written back.                                         *)
FetchMissFails(p) ==
  /\ faulty /\ p \in live /\ table[p] = None /\ HasFrame
  /\ table' = [TableAfter EXCEPT ![p] = Claimed]
  /\ free' = FreeAfter /\ lru' = LruAfter /\ evictable' = EvictAfter
  /\ disk' = DiskAfter
  /\ dirty' = IF free # <<>> THEN dirty ELSE [dirty EXCEPT ![Victim] = FALSE]
  /\ UNCHANGED <<pid, data, pin, handles, live, last, faulty>>
-----------------------------------------------------------------------------
(* A handle writes its page (set_data), or is dropped.                     *)
Write(r, d) ==
  /\ refFrame[r] # None
  /\ data' = [data EXCEPT ![refFrame[r]] = d]
  /\ dirty' = [dirty EXCEPT ![refFrame[r]] = TRUE]
  /\ last' = [last EXCEPT ![refPage[r]] = d]
  /\ UNCHANGED <<pid, pin, lists, handles, disk, live, faulty>>

(* A mutant of Unpin: any drop makes the frame evictable. *)
UnpinAlways(f) == pin' = [pin EXCEPT ![f] = @ - 1] /\ evictable' = evictable \cup {f}
Unpin(f) ==
  /\ pin' = [pin EXCEPT ![f] = @ - 1]
  /\ evictable' = IF pin[f] = 1 THEN evictable \cup {f} ELSE evictable

Drop(r) ==
  /\ refFrame[r] # None
  /\ LET f == refFrame[r]
     IN  IF pin[f] = 0 \/ table[pid[f]] = None THEN UNCHANGED <<pin, evictable>>
         ELSE Unpin(f)
  /\ refFrame' = [refFrame EXCEPT ![r] = None] /\ refPage' = [refPage EXCEPT ![r] = None]
  /\ UNCHANGED <<pid, data, dirty, table, free, lru, disk, live, last, faulty>>
-----------------------------------------------------------------------------
FlushPage(p) ==
  /\ table[p] # None
  /\ disk' = [disk EXCEPT ![p] = data[table[p]]]
  /\ dirty' = [dirty EXCEPT ![table[p]] = FALSE]
  /\ UNCHANGED <<pid, data, pin, lists, handles, live, last, faulty>>

FlushAllPages ==
  /\ disk' = [p \in PageId |-> IF table[p] # None THEN data[table[p]] ELSE disk[p]]
  /\ dirty' = [f \in Frame |-> dirty[f] /\ \A p \in PageId : table[p] # f]
  /\ UNCHANGED <<pid, data, pin, lists, handles, live, last, faulty>>

(* delete_page of a page in the pool that nobody holds: its frame is free. *)
Discard(p) ==
  /\ p \in live /\ table[p] # None /\ pin[table[p]] = 0
  /\ LET f == table[p]
     IN  /\ pid' = [pid EXCEPT ![f] = None] /\ data' = [data EXCEPT ![f] = Zero]
         /\ dirty' = [dirty EXCEPT ![f] = FALSE]
         /\ free' = Append(free, f)
         /\ lru' = RemoveFirst(lru, f) /\ evictable' = evictable \ {f}
  /\ table' = [table EXCEPT ![p] = None]
  /\ live' = live \ {p}
  /\ UNCHANGED <<pin, handles, last, faulty>>

DeletePage(p) == Discard(p) /\ disk' = [disk EXCEPT ![p] = Zero]

(* deallocate_page fails: the file keeps the page, the pool has lost it.   *)
DeleteFails(p) ==
  faulty /\ Discard(p) /\ disk' \in {disk, [disk EXCEPT ![p] = Zero]}

(* A pinned page is not deleted; a page that is not in the pool is not     *)
(* deleted either, although the answer is Ok(true).                        *)
DeleteNothing(p) ==
  /\ p \in live /\ (table[p] # None => pin[table[p]] > 0)
  /\ UNCHANGED vars
-----------------------------------------------------------------------------
Next ==
  \/ \E r \in Ref, p \in PageId : NewPage(r, p) \/ FetchHit(r, p) \/ FetchMiss(r, p)
  \/ \E r \in Ref : Drop(r) \/ \E d \in Data : Write(r, d)
  \/ \E p \in PageId : \/ FetchHitFails(p) \/ FetchMissFails(p) \/ FlushPage(p)
                       \/ DeletePage(p) \/ DeleteFails(p) \/ DeleteNothing(p)
  \/ NoFrame \/ EvictFails \/ FlushAllPages

Spec == Init /\ [][Next]_vars
-----------------------------------------------------------------------------
(* Correctness.                                                            *)

Cached(p) == table[p] # None

(* On a file that does not fail, every frame is in the free list or holds  *)
(* exactly one page, and the page table finds that page: no frame is lost  *)
(* or used twice, and there is always one to claim unless all are pinned.  *)
FramesAccounted ==
  ~faulty =>
    /\ \A p \in PageId : Cached(p) => pid[table[p]] = p /\ table[p] \notin Range(free)
    /\ \A f \in Frame : f \in Range(free) \/ (pid[f] # None /\ table[pid[f]] = f)
    /\ IsInjective(free)
    /\ HasFrame \/ \A f \in Frame : pin[f] > 0

(* On a file that does not fail, the pin count of a frame is the number of *)
(* handles on it, and a frame is evictable exactly when it is loaded and   *)
(* unpinned, so remove never meets a frame that is not evictable.          *)
PinsExact ==
  ~faulty =>
    /\ \A f \in Frame : pin[f] = Cardinality({r \in Ref : refFrame[r] = f})
    /\ \A f \in Frame : f \in evictable <=> pin[f] = 0 /\ f \notin Range(free)
    /\ Range(lru) = Frame \ Range(free)

(* Whatever fails, the page under a handle is never evicted, replaced or   *)
(* deleted, and it shows what was last written to it through any handle.   *)
HandlesStable ==
  \A r \in Ref : refFrame[r] # None =>
    /\ pid[refFrame[r]] = refPage[r] /\ refPage[r] \in live
    /\ table[refPage[r]] = refFrame[r]
    /\ data[refFrame[r]] = last[refPage[r]]

(* A write of the file writes a page's own latest contents. *)
FlushWritesLatest ==
  [][\A p \in live \cap live' : disk'[p] # disk[p] => disk'[p] = last[p]]_vars

(* On a file that does not fail, pages read back what was last written to  *)
(* them.                                                                   *)
Allocated == IF faulty THEN {} ELSE live
Contents ==
  [p \in PageId |-> IF p \notin Allocated THEN Zero
                    ELSE IF Cached(p) THEN data[table[p]] ELSE disk[p]]
Store == INSTANCE PageStore WITH allocated <- Allocated, contents <- Contents
ImplementsPageStore == Store!Spec
=============================================================================
