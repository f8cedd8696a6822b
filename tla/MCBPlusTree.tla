---------------------------- MODULE MCBPlusTree -----------------------------
(* Workloads of BPlusTree for model checking. *)
EXTENDS BPlusTree

(* Every order of seven keys, in pages so small that the tree has three    *)
(* levels.                                                                 *)
Distinct ==
  [keys |-> 1..7, first |-> <<>>, rows |-> 7, unique |-> TRUE, deletes |-> FALSE,
   internal_max_size |-> 3, leaf_max_size |-> 2]

(* Every sequence of eight inserts of three keys. *)
Repeated == [Distinct EXCEPT !.keys = 1..3, !.rows = 8, !.unique = FALSE]

(* Deletes from the tree of the tests of index.rs (eleven keys, ascending: *)
(* the left page below the root has two leaves, the right one three) down  *)
(* to a leaf, with one more insert on the way.                             *)
Deleted ==
  [keys |-> {1, 3, 4, 5, 7, 8, 10}, first |-> [i \in 1..11 |-> i], rows |-> 12,
   unique |-> TRUE, deletes |-> TRUE, internal_max_size |-> 4, leaf_max_size |-> 4]

AllWorkloads == {Distinct, Repeated, Deleted}
=============================================================================
