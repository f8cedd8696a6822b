--------------------------- MODULE ParallelFilter ---------------------------
(***************************************************************************)
(* A query whose root is a parallel filter: the execution engine pulls     *)
(* rows until None or an error, the filter pulls batches from its input,   *)
(* and ordered_map evaluates a batch on scoped threads, each with one      *)
(* contiguous chunk, and joins them in order.                              *)
(*                                                                         *)
(* A row is known by what the predicate makes of it: "pass", "drop", "err" *)
(* (an error) or "panic"; "fail" is an error of the input.                 *)
(***************************************************************************)
EXTENDS Naturals, FiniteSets, Sequences, SequencesExt

CONSTANTS
  MaxInput,     \* bound on the rows of the input
  BATCH_SIZE,
  Parallelism   \* the numbers of workers to consider, all above 1

ASSUME FilterAssumption ==
  /\ MaxInput \in Nat /\ BATCH_SIZE \in Nat \ {0} /\ Parallelism \subseteq Nat \ {0, 1}

Row    == {"pass", "drop", "err", "panic", "fail"}
Worker == 1..BATCH_SIZE

VARIABLES
  input, workers,           \* the rows to come, and the parallelism
  pos,                      \* rows pulled so far
  pending, exhausted,       \* FilterState
  phase,                    \* "next", or where ordered_map is: "spawn", "join"
  batch, inputError,        \* locals of next
  todo, state, joined,      \* the chunks, the threads, the threads joined
  failure, output,          \* locals of ordered_map
  emitted, result,          \* the rows of the query, and how it ended
  spawnFailed               \* history: could a thread not be started?

vars == <<input, workers, pos, pending, exhausted, phase, batch, inputError, todo, state,
          joined, failure, output, emitted, result, spawnFailed>>
filter == <<input, workers, pos, pending, exhausted, batch, inputError>>

(* A row is a number, its place in the input; an error is 0. *)
Error == 0

(* The members of a set of numbers, in order. *)
Ascending(S) == CHOOSE s \in SetToSeqs(S) : \A i, j \in DOMAIN s : i < j => s[i] < s[j]

Init ==
  /\ input \in BoundedSeq(Row, MaxInput) /\ workers \in Parallelism
  /\ pos = 0 /\ pending = <<>> /\ exhausted = FALSE
  /\ phase = "next" /\ batch = <<>> /\ inputError = FALSE
  /\ todo = [w \in Worker |-> <<>>] /\ state = [w \in Worker |-> "none"] /\ joined = 0
  /\ failure = FALSE /\ output = <<>>
  /\ emitted = <<>> /\ result = "running" /\ spawnFailed = FALSE
-----------------------------------------------------------------------------
(* The engine calls next, which returns a pending row or the end.          *)

ReturnPending ==
  /\ result = "running" /\ phase = "next" /\ pending # <<>>
  /\ pending' = Tail(pending)
  /\ IF Head(pending) = Error THEN result' = "error" /\ UNCHANGED emitted
     ELSE emitted' = Append(emitted, Head(pending)) /\ UNCHANGED result
  /\ UNCHANGED <<input, workers, pos, exhausted, phase, batch, inputError, todo, state,
                 joined, failure, output, spawnFailed>>

ReturnNone ==
  /\ result = "running" /\ phase = "next" /\ pending = <<>> /\ exhausted
  /\ result' = "ok"
  /\ UNCHANGED <<filter, phase, todo, state, joined, failure, output, emitted, spawnFailed>>

(* The rows of the next batch: up to the end or to an error of the input. *)
Pulled ==
  LET upTo == SelectInSubSeq(input, pos + 1, Len(input), LAMBDA r : r = "fail")
      end  == IF upTo = 0 THEN Len(input) ELSE upTo - 1
  IN  [i \in 1..(IF end - pos < BATCH_SIZE THEN end - pos ELSE BATCH_SIZE) |-> pos + i]

Min2(a, b) == IF a < b THEN a ELSE b

ChunkSize(len) == (len + Min2(workers, len) - 1) \div Min2(workers, len)

(* input.chunks(chunk_size) *)
Chunk(b, w) ==
  LET size == ChunkSize(Len(b)) IN SubSeq(b, (w - 1) * size + 1, Min2(w * size, Len(b)))

(* The batch is pulled and ordered_map begins. *)
Pull ==
  /\ result = "running" /\ phase = "next" /\ pending = <<>> /\ ~exhausted
  /\ batch' = Pulled /\ pos' = pos + Len(Pulled)
  /\ exhausted' = (Len(Pulled) < BATCH_SIZE)
  /\ inputError' = (Len(Pulled) < BATCH_SIZE /\ pos' < Len(input))
  /\ todo' = [w \in Worker |-> IF batch' = <<>> THEN <<>> ELSE Chunk(batch', w)]
  /\ joined' = 0 /\ failure' = FALSE /\ output' = <<>>
  /\ phase' = IF Len(batch') <= 1 THEN "inline" ELSE "spawn"
  /\ UNCHANGED <<input, workers, pending, state, emitted, result, spawnFailed>>

(* What next makes of the decisions on the rows of a batch, each of which  *)
(* is known by the row it was made on: the k-th row has the k-th decision. *)
Decided(decisions) ==
  LET zip  == 1..Min2(Len(batch), Len(decisions))
      kept == Ascending({k \in zip : input[decisions[k]] # "drop"})
  IN  [i \in DOMAIN kept |->
         IF input[decisions[kept[i]]] = "pass" THEN batch[kept[i]] ELSE Error]

Push(decisions) ==
  pending' = Decided(decisions) \o (IF inputError THEN <<Error>> ELSE <<>>)

(* One row, or none, is evaluated by the caller, whose panic ends it. *)
MapInline ==
  /\ phase = "inline" /\ phase' = "next"
  /\ IF \E i \in ToSet(batch) : input[i] = "panic" THEN result' = "panic" /\ UNCHANGED pending
     ELSE Push(batch) /\ UNCHANGED result
  /\ UNCHANGED <<input, workers, pos, exhausted, batch, inputError, todo, state, joined,
                 failure, output, emitted, spawnFailed>>
-----------------------------------------------------------------------------
(* ordered_map: one thread per chunk, then all of them are joined.         *)

Spawned == {w \in Worker : state[w] # "none"}
NextChunk(w) == todo[w] # <<>> /\ state[w] = "none" /\ \A v \in 1..(w - 1) : state[v] # "none"

Spawn(w) ==
  /\ phase = "spawn" /\ NextChunk(w)
  /\ state' = [state EXCEPT ![w] = "running"]
  /\ phase' = IF w = BATCH_SIZE \/ todo[w + 1] = <<>> THEN "join" ELSE "spawn"
  /\ UNCHANGED <<filter, todo, joined, failure, output, emitted, result, spawnFailed>>

SpawnFails(w) ==
  /\ phase = "spawn" /\ NextChunk(w)
  /\ failure' = TRUE /\ spawnFailed' = TRUE /\ phase' = "join"
  /\ UNCHANGED <<filter, todo, state, joined, output, emitted, result>>

(* A thread evaluates the next row of its chunk, or ends. *)
WorkerStep(w) ==
  /\ state[w] = "running"
  /\ IF todo[w] = <<>> THEN state' = [state EXCEPT ![w] = "finished"] /\ UNCHANGED todo
     ELSE /\ todo' = [todo EXCEPT ![w] = Tail(@)]
          /\ state' = IF input[Head(todo[w])] = "panic"
                      THEN [state EXCEPT ![w] = "panicked"] ELSE state
  /\ UNCHANGED <<filter, phase, joined, failure, output, emitted, result, spawnFailed>>

(* A mutant of JoinNext: the threads are joined as they end. *)
JoinAny(w) == state[w] \in {"finished", "panicked"}
(* A mutant of JoinNext: a thread that panicked never answers. *)
JoinFinished(w) == w = joined + 1 /\ state[w] = "finished"
JoinNext(w) == w = joined + 1 /\ state[w] \in {"finished", "panicked"}

Join(w) ==
  /\ phase = "join" /\ JoinNext(w)
  /\ joined' = joined + 1
  /\ state' = [state EXCEPT ![w] = "joined"]
  /\ IF state[w] = "panicked" THEN failure' = TRUE /\ UNCHANGED output
     ELSE output' = output \o Chunk(batch, w) /\ UNCHANGED failure
  /\ UNCHANGED <<filter, phase, todo, emitted, result, spawnFailed>>

(* A mutant of AllJoined: a failure returns before the rest is joined. *)
AllJoinedOrFailed == joined = Cardinality(Spawned) \/ failure
AllJoined == joined = Cardinality(Spawned)

(* ordered_map returns: a failure ends the filter without the batch. *)
MapReturns ==
  /\ phase = "join" /\ AllJoined
  /\ phase' = "next"
  /\ state' = [w \in Worker |-> IF state[w] = "joined" THEN "none" ELSE state[w]]
  /\ IF failure THEN exhausted' = TRUE /\ result' = "error" /\ UNCHANGED pending
     ELSE Push(output) /\ UNCHANGED <<exhausted, result>>
  /\ UNCHANGED <<input, workers, pos, batch, inputError, todo, joined, failure, output,
                 emitted, spawnFailed>>

Main ==
  \/ ReturnPending \/ ReturnNone \/ Pull \/ MapInline \/ MapReturns
  \/ \E w \in Worker : Spawn(w) \/ SpawnFails(w) \/ Join(w)

Next == Main \/ \E w \in Worker : WorkerStep(w)

(* The threads are scheduled by the operating system. *)
Spec == Init /\ [][Next]_vars /\ WF_vars(Main) /\ \A w \in Worker : WF_vars(WorkerStep(w))
-----------------------------------------------------------------------------
(* Correctness.                                                            *)

(* The reference: the loop of next with parallelism 1. *)
Bad(i)     == input[i] \in {"err", "panic", "fail"}
SerialEnd  == IF \E i \in DOMAIN input : Bad(i)
              THEN CHOOSE i \in DOMAIN input : Bad(i) /\ \A j \in 1..(i - 1) : ~Bad(j)
              ELSE Len(input) + 1
SerialRows == Ascending({i \in 1..(SerialEnd - 1) : input[i] = "pass"})

(* Every variable has its type; only rows that were pulled are pending. *)
TypeOK ==
  /\ pos \in 0..Len(input) /\ ToSet(pending) \subseteq 0..pos
  /\ joined \in 0..BATCH_SIZE
  /\ phase \in {"next", "inline", "spawn", "join"}
  /\ state \in [Worker -> {"none", "running", "finished", "panicked", "joined"}]
  /\ result \in {"running", "ok", "error", "panic"}

(* Whatever the threads do, the query returns the rows of the serial       *)
(* filter in its order, and fails exactly if that fails.  Only a thread    *)
(* that panics or does not start ends the query before the row where the   *)
(* serial filter would fail.                                               *)
SameAsSerial ==
  /\ IsPrefix(emitted, SerialRows)
  /\ result = "ok" => emitted = SerialRows /\ SerialEnd > Len(input)
  /\ result \in {"error", "panic"} =>
       \/ emitted = SerialRows /\ SerialEnd <= Len(input)
       \/ spawnFailed
       \/ \E i \in DOMAIN input : input[i] = "panic"

(* No thread outlives the call that started it, failures included. *)
NoWorkerLeft == phase = "next" => \A w \in Worker : state[w] = "none"

(* Every query ends. *)
Terminates == <>(result # "running")
=============================================================================
