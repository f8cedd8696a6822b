------------------------ MODULE MCTransactionManager -----------------------
(* Model-checking instances of TransactionManager: model values for the    *)
(* clients, keys and values of the database.                               *)
EXTENDS TransactionManager

CONSTANTS c1, c2, k1, k2, v0, v1

TwoClients == {c1, c2}
TwoKeys    == {k1, k2}
TwoValues  == {v0, v1}
=============================================================================
