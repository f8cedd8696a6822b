---------------------------- MODULE LRUKReplacer ----------------------------
(***************************************************************************)
(* The LRU-K replacer of the buffer pool, with its timestamps and counter. *)
(***************************************************************************)
EXTENDS Integers, Sequences, FiniteSets

CONSTANTS
  Frame,         \* frame ids
  ReplacerSize,  \* replacer_size
  K,             \* k
  MaxU64,        \* u64::MAX
  MaxTime,       \* bound on the accesses
  None           \* the result of an evict that finds nothing

ASSUME ReplacerAssumption ==
  /\ ReplacerSize \in Nat /\ K \in Nat \ {0}
  /\ MaxTime \in Nat /\ MaxU64 \in Nat /\ 2 * MaxTime < MaxU64
  /\ None \notin Frame

VARIABLES
  history,    \* of each frame: the times of its last K accesses; <<>>: no node
  evictable,  \* the frames whose node is evictable
  size,       \* current_size
  now,        \* current_timestamp
  evicted     \* what the last call returned, if it was evict

vars == <<history, evictable, size, now, evicted>>

Node(f) == history[f] # <<>>

(* Every variable has its type. *)
TypeOK ==
  /\ history \in [Frame -> Seq(0..MaxTime)] /\ \A f \in Frame : Len(history[f]) <= K
  /\ evictable \subseteq {f \in Frame : Node(f)}
  /\ size \in Nat /\ now \in 0..MaxTime
  /\ evicted \in Frame \cup {None}

Init ==
  /\ history = [f \in Frame |-> <<>>] /\ evictable = {}
  /\ size = 0 /\ now = 0 /\ evicted = None
-----------------------------------------------------------------------------
(* A mutant of Tick: the clock stands still. *)
NoTick == now' = now
Tick == now' = now + 1

(* record_access of a node, or of a new node when there is room for it. *)
RecordAccess(f) ==
  /\ now < MaxTime
  /\ Node(f) \/ Cardinality({g \in Frame : Node(g)}) < ReplacerSize
  /\ history' = [history EXCEPT ![f] =
                   IF Len(@) < K THEN Append(@, now) ELSE Append(Tail(@), now)]
  /\ Tick /\ evicted' = None
  /\ UNCHANGED <<evictable, size>>

RecordRefused(f) ==
  /\ ~Node(f) /\ Cardinality({g \in Frame : Node(g)}) >= ReplacerSize
  /\ evicted' = None
  /\ UNCHANGED <<history, evictable, size, now>>

(* A mutant of SizeAfterSet: a repeated call counts again. *)
SizeAfterSetAgain(f, b) == IF b THEN size + 1 ELSE size - 1
SizeAfterSet(f, b) ==
  IF b /\ f \notin evictable THEN size + 1
  ELSE IF ~b /\ f \in evictable THEN size - 1 ELSE size

SetEvictable(f, b) ==
  /\ Node(f)
  /\ evictable' = IF b THEN evictable \cup {f} ELSE evictable \ {f}
  /\ size' = SizeAfterSet(f, b)
  /\ evicted' = None
  /\ UNCHANGED <<history, now>>

(* remove, by evict and by delete_page; a frame that is there is evictable *)
(* (the assert of the code; see PinsExact of BufferPool).                  *)
Forget(f) ==
  /\ history' = [history EXCEPT ![f] = <<>>]
  /\ evictable' = evictable \ {f}
  /\ size' = size - 1
  /\ UNCHANGED now

Remove(f) == f \in evictable /\ Forget(f) /\ evicted' = None

(* A mutant of KDistance: short histories are not infinitely distant. *)
KDistanceOfOldest(f) == now - Head(history[f])
KDistance(f) ==
  IF Len(history[f]) < K THEN MaxU64 - Head(history[f]) ELSE now - Head(history[f])

(* The nodes are visited in any order; a larger distance than the largest  *)
(* so far, which starts at 0, is taken.                                    *)
Candidates ==
  {f \in evictable : KDistance(f) > 0 /\ \A g \in evictable : KDistance(g) <= KDistance(f)}

Evict(f) == f \in Candidates /\ Forget(f) /\ evicted' = f

EvictNone ==
  /\ Candidates = {} /\ evicted' = None
  /\ UNCHANGED <<history, evictable, size, now>>
-----------------------------------------------------------------------------
Next ==
  \/ \E f \in Frame : RecordAccess(f) \/ RecordRefused(f) \/ Remove(f) \/ Evict(f)
  \/ \E f \in Frame, b \in BOOLEAN : SetEvictable(f, b)
  \/ EvictNone

Spec == Init /\ [][Next]_vars
-----------------------------------------------------------------------------
(* The counter that new_page reads is the number of evictable frames,      *)
(* after any sequence of repeated and redundant calls: no underflow.       *)
SizeExact == size = Cardinality(evictable)

(* evict finds a frame whenever there is one. *)
EvictTotal == evictable # {} => Candidates # {}

(* The reference: a frame with fewer than K accesses goes first, and among *)
(* equals the one whose oldest recorded access is the earliest.            *)
GoesBefore(f, g) ==
  \/ Len(history[f]) < K /\ Len(history[g]) >= K
  \/ /\ Len(history[f]) < K <=> Len(history[g]) < K
     /\ Head(history[f]) < Head(history[g])

(* The frame that evict returns goes before every other evictable frame. *)
EvictsLruK ==
  [][evicted' # None => \A g \in evictable \ {evicted'} : GoesBefore(evicted', g)]_vars
=============================================================================
