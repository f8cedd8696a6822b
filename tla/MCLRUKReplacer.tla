--------------------------- MODULE MCLRUKReplacer ---------------------------
(* Model-checking instance of LRUKReplacer. *)
EXTENDS LRUKReplacer, TLC

CONSTANTS f1, f2, f3, f4

FourFrames == {f1, f2, f3, f4}
Symmetry == Permutations(Frame)
=============================================================================
