---------------------------- MODULE MCBufferPool ----------------------------
(* Model-checking instances of BufferPool: fewer frames than pages, so     *)
(* that pages are evicted and reloaded while handles are outstanding.      *)
EXTENDS BufferPool

CONSTANTS a, b, c, r1, r2, r3, z, x

ThreePages == {a, b, c}
TwoRefs    == {r1, r2}
ThreeRefs  == {r1, r2, r3}
TwoData    == {z, x}

(* A file that may fail, and one that may or may not. *)
Failing == {TRUE}
Either  == BOOLEAN

Symmetry == Permutations(PageId) \cup Permutations(Ref)
=============================================================================
