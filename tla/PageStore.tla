----------------------------- MODULE PageStore ------------------------------
(***************************************************************************)
(* What the buffer pool promises to the heap, the index and the catalog: a *)
(* set of allocated pages whose contents change only when their owner      *)
(* writes them, however often the pool evicts, flushes and reloads them.   *)
(***************************************************************************)
CONSTANTS
  PageId,  \* page numbers
  Data,    \* page contents
  Zero     \* the contents of a new page

VARIABLES allocated, contents

Init == allocated = {} /\ contents = [p \in PageId |-> Zero]

(* A page that nobody uses is handed out empty. *)
Allocate(p) ==
  /\ p \notin allocated
  /\ allocated' = allocated \cup {p}
  /\ contents' = [contents EXCEPT ![p] = Zero]

Write(p, d) ==
  /\ p \in allocated
  /\ contents' = [contents EXCEPT ![p] = d]
  /\ UNCHANGED allocated

Free(p) ==
  /\ p \in allocated
  /\ allocated' = allocated \ {p}
  /\ contents' = [contents EXCEPT ![p] = Zero]

Next == \E p \in PageId : Allocate(p) \/ Free(p) \/ \E d \in Data : Write(p, d)

Spec == Init /\ [][Next]_<<allocated, contents>>
=============================================================================
