----------------------------- MODULE MCJournal ------------------------------
(* Model-checking instance of Journal: two processes, and two images whose *)
(* payloads differ in length.                                              *)
EXTENDS Journal

CONSTANTS p1, p2, short, long

TwoProcs  == {p1, p2}
TwoImages == {short, long}
Lengths   == [i \in TwoImages |-> IF i = short THEN 1 ELSE 2]

ProcSymmetry == Permutations(Proc)
=============================================================================
