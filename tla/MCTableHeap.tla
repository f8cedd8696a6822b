---------------------------- MODULE MCTableHeap -----------------------------
(* An instance of TableHeap for model checking. *)
EXTENDS TableHeap, TLC

CONSTANTS short, long, huge

Tuples3 == {short, long, huge}

(* One tuple fits into what another leaves, and one into no page. *)
Sizes == short :> 1 @@ long :> 3 @@ huge :> 9
=============================================================================
