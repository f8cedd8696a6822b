---------------------------- MODULE AtomicStore ----------------------------
(***************************************************************************)
(* What a TransactionManager promises its clients: every transaction takes *)
(* effect at one moment.  A transaction reads the store as it was when it  *)
(* began, together with its own writes; it commits, all of it or nothing,  *)
(* only while the store still is what the transaction saw.  So those that  *)
(* write can be ordered by their commits, and those that only read by      *)
(* their beginnings.  A crash ends all transactions; at most one of them,  *)
(* which was committing, takes effect.                                     *)
(***************************************************************************)
CONSTANTS
  Client,   \* each has at most one transaction at a time
  Key,      \* the items of the store
  Value,    \* what an item may hold
  Null      \* what an item of a fresh store holds

VARIABLES
  store,    \* the committed contents
  open,     \* the clients with a transaction
  seen,     \* the store that each transaction began with
  view      \* what each transaction reads

vars == <<store, open, seen, view>>

Fresh == [k \in Key |-> Null]

Init ==
  /\ store = Fresh /\ open = {}
  /\ seen = [c \in Client |-> Fresh] /\ view = [c \in Client |-> Fresh]

Begin(c) ==
  /\ c \notin open /\ open' = open \cup {c}
  /\ seen' = [seen EXCEPT ![c] = store] /\ view' = [view EXCEPT ![c] = store]
  /\ UNCHANGED store

Write(c) ==
  /\ c \in open
  /\ \E k \in Key, v \in Value : view' = [view EXCEPT ![c][k] = v]
  /\ UNCHANGED <<store, open, seen>>

End(c) ==
  /\ c \in open /\ open' = open \ {c}
  /\ seen' = [seen EXCEPT ![c] = Fresh] /\ view' = [view EXCEPT ![c] = Fresh]

TakesEffect(c) == c \in open /\ seen[c] = store /\ store' = view[c]

Commit(c) == TakesEffect(c) /\ End(c)

Abort(c) == End(c) /\ UNCHANGED store

Crash ==
  /\ open' = {}
  /\ seen' = [c \in Client |-> Fresh] /\ view' = [c \in Client |-> Fresh]
  /\ UNCHANGED store \/ \E c \in Client : TakesEffect(c)

Next == (\E c \in Client : Begin(c) \/ Write(c) \/ Commit(c) \/ Abort(c)) \/ Crash

Spec == Init /\ [][Next]_vars
=============================================================================
