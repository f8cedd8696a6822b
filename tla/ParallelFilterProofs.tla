------------------------ MODULE ParallelFilterProofs ------------------------
(***************************************************************************)
(* The safety of ParallelFilter, for inputs of any length, any batch size  *)
(* and any parallelism.                                                    *)
(***************************************************************************)
EXTENDS ParallelFilter, TLAPS, WellFoundedInduction, FiniteSetTheorems, SequenceTheorems

(* s has the members of S in order. *)
Lists(s, S) ==
  /\ s \in Seq(S)
  /\ \A i, j \in 1..Len(s) : i < j => s[i] < s[j]
  /\ \A x \in S : \E i \in 1..Len(s) : s[i] = x

Size == ChunkSize(Len(batch))

(* The rows before p that the predicate does not drop. *)
NotDropped(p) == {i \in 1..p : input[i] # "drop"}

(* Why a query may fail before the serial one. *)
Excused == spawnFailed \/ \E i \in DOMAIN input : input[i] = "panic"

TypeInv ==
  /\ input \in Seq(Row) /\ workers \in Nat \ {0, 1} /\ pos \in 0..Len(input)
  /\ pending \in Seq(Nat) /\ emitted \in Seq(Nat)
  /\ batch \in Seq(1..Len(input)) /\ output \in Seq(1..Len(input))
  /\ todo \in [Worker -> Seq(1..Len(input))]
  /\ state \in [Worker -> {"none", "running", "finished", "panicked", "joined"}]
  /\ joined \in 0..BATCH_SIZE
  /\ phase \in {"next", "inline", "spawn", "join"}
  /\ result \in {"running", "ok", "error", "panic"}
  /\ exhausted \in BOOLEAN /\ inputError \in BOOLEAN
  /\ failure \in BOOLEAN /\ spawnFailed \in BOOLEAN

(* What the input has told. *)
InputInv ==
  /\ \A i \in 1..pos : input[i] # "fail"
  /\ inputError => exhausted /\ pos < Len(input) /\ input[pos + 1] = "fail"
  /\ exhausted /\ ~inputError /\ result = "running" => pos = Len(input)

(* While ordered_map works, its batch is the last rows that were pulled. *)
BatchInv ==
  phase # "next" =>
    /\ result = "running" /\ pending = <<>>
    /\ Len(batch) <= BATCH_SIZE /\ Len(batch) <= pos
    /\ \A i \in 1..Len(batch) : batch[i] = pos - Len(batch) + i
    /\ phase # "inline" => Len(batch) >= 2

(* The threads: the first c chunks have one, of which the first are        *)
(* joined, and their output is the beginning of the batch.                 *)
Mapping == phase \in {"spawn", "join"}

WorkerInv(c) ==
  /\ c \in 0..BATCH_SIZE
  /\ \A w \in Worker : state[w] = "none" <=> w > c
  /\ ~Mapping => c = 0
  /\ Mapping => joined <= c
  /\ Mapping => \A w \in Worker : state[w] = "joined" <=> w <= joined
  /\ Mapping => \A w \in Worker : w > c => todo[w] = Chunk(batch, w)
  /\ phase = "spawn" => ~failure /\ joined = 0
  /\ Mapping /\ failure => Excused
  /\ \A w \in Worker : state[w] = "panicked" => Excused
  /\ phase = "join" /\ ~failure => c * Size >= Len(batch)
  /\ Mapping /\ ~failure =>
       /\ Len(output) = Min2(joined * Size, Len(batch))
       /\ \A i \in 1..Len(output) : output[i] = batch[i]

(* The rows of the input that are dealt with: all that were pulled, but    *)
(* for the batch under way.                                                *)
Base == IF phase = "next" THEN pos ELSE pos - Len(batch)

(* The rows that are not dropped have been returned, all of them passing,  *)
(* or are pending, an error for each that fails; then comes the error of   *)
(* the input.                                                              *)
RowsInv(L) ==
  /\ Lists(L, NotDropped(Base))
  /\ Len(emitted) <= Len(L)
  /\ \A i \in 1..Len(emitted) : input[L[i]] = "pass" /\ emitted[i] = L[i]
  /\ phase # "next" => Len(emitted) = Len(L)
  /\ phase = "next" =>
       /\ Len(pending) = (Len(L) - Len(emitted)) + (IF inputError THEN 1 ELSE 0)
       /\ \A i \in 1..(Len(L) - Len(emitted)) :
            pending[i] = IF input[L[Len(emitted) + i]] = "pass"
                         THEN L[Len(emitted) + i] ELSE Error
       /\ inputError => pending[(Len(L) - Len(emitted)) + 1] = Error

IInv ==
  /\ TypeInv /\ InputInv /\ BatchInv
  /\ \E c \in Nat : WorkerInv(c)
  /\ result = "running" => \E L : RowsInv(L)
  /\ result # "running" => SameAsSerial
-----------------------------------------------------------------------------
(* Sets of numbers in order.                                               *)

(* Natural numbers are well ordered. *)
LEMMA NatMin ==
  ASSUME NEW T, T \subseteq Nat, T # {}
  PROVE  \E x \in T : \A y \in T : x <= y
  <1> DEFINE Less == {ss \in Nat \X Nat : ss[1] < ss[2]}
  <1>1. OpToRel(<, Nat) = Less BY DEF OpToRel
  <1>2. IsWellFoundedOn(Less, Nat) BY <1>1, NatLessThanWellFounded
  <1> HIDE DEF Less
  <1>3. PICK x \in T : \A y \in T : ~ (<<y, x>> \in Less) BY <1>2, WFMin
  <1>4. ASSUME NEW y \in T PROVE x <= y
    <2>1. x \in Nat /\ y \in Nat OBVIOUS
    <2>2. (y < x) => <<y, x>> \in Less BY <2>1 DEF Less
    <2> QED BY <1>3, <2>1, <2>2
  <1> QED BY <1>4

Listed(s, S) ==
  /\ s \in Seq(S) /\ Len(s) \in Nat
  /\ \A i \in 1..Len(s) : s[i] \in S /\ s[i] \in Nat
  /\ \A i, j \in 1..Len(s) : i < j => s[i] < s[j]
  /\ \A x \in S : \E i \in 1..Len(s) : s[i] = x

LEMMA ListFacts ==
  ASSUME NEW S, S \subseteq Nat, NEW s, Lists(s, S)
  PROVE  Listed(s, S)
  <1>1. s \in Seq(S) BY DEF Lists
  <1>2. Len(s) \in Nat /\ \A i \in 1..Len(s) : s[i] \in S BY <1>1, LenProperties, ElementOfSeq
  <1> QED BY <1>1, <1>2 DEF Lists, Listed

Begins(s, t) == Len(s) <= Len(t) /\ \A i \in 1..Len(s) : s[i] = t[i]

(* The list of the members of T up to some member is the beginning of the  *)
(* list of T.                                                              *)
LEMMA ListPrefix ==
  ASSUME NEW T, T \subseteq Nat, NEW S, S \subseteq T,
         \A x \in T, y \in S : x < y => x \in S,
         NEW s, NEW t, Lists(s, S), Lists(t, T)
  PROVE  Begins(s, t)
  <1>1. /\ Len(s) \in Nat /\ Len(t) \in Nat
        /\ \A i \in 1..Len(s) : s[i] \in S /\ s[i] \in Nat
        /\ \A i \in 1..Len(t) : t[i] \in T /\ t[i] \in Nat
    <2>1. S \subseteq Nat OBVIOUS
    <2>2. Listed(s, S) /\ Listed(t, T) BY <2>1, ListFacts
    <2> QED BY <2>2 DEF Listed
  <1>2. /\ \A i, j \in 1..Len(s) : i < j => s[i] < s[j]
        /\ \A i, j \in 1..Len(t) : i < j => t[i] < t[j]
        /\ \A x \in S : \E i \in 1..Len(s) : s[i] = x
        /\ \A x \in T : \E i \in 1..Len(t) : t[i] = x
    BY DEF Lists
  <1> DEFINE bad == {i \in 1..Len(s) : ~(i <= Len(t) /\ s[i] = t[i])}
  <1>3. bad = {}
    <2> SUFFICES ASSUME bad # {} PROVE FALSE
      OBVIOUS
    <2>0. bad \subseteq Nat OBVIOUS
    <2>1. PICK i \in bad : \A j \in bad : i <= j BY <2>0, NatMin
    <2>2. i \in 1..Len(s) /\ i \in Nat /\ ~(i <= Len(t) /\ s[i] = t[i]) BY <1>1
    <2>3. ASSUME NEW j \in 1..Len(s), j < i PROVE j <= Len(t) /\ j \in 1..Len(t) /\ s[j] = t[j]
      <3>1. ~(i <= j) BY <2>2, <2>3
      <3>2. j \notin bad BY <2>1, <3>1
      <3> QED BY <3>2, <1>1
    <2>4. PICK k \in 1..Len(t) : t[k] = s[i] BY <1>1, <1>2, <2>2
    <2>5. ~(k < i)
      <3> SUFFICES ASSUME k < i PROVE FALSE
        OBVIOUS
      <3>1. k \in 1..Len(s) BY <1>1, <2>2
      <3>2. s[k] = s[i] BY <2>3, <2>4, <3>1
      <3>3. s[k] < s[i] BY <1>2, <2>2, <3>1
      <3> QED BY <1>1, <2>2, <3>1, <3>2, <3>3
    <2>6. i \in 1..Len(t) /\ i <= Len(t) BY <1>1, <2>2, <2>5
    <2>7. t[i] <= s[i]
      <3>1. CASE i = k BY <3>1, <2>4, <1>1
      <3>2. CASE i # k
        <4>1. i < k BY <3>2, <2>2, <2>5
        <4>2. t[i] < t[k] BY <4>1, <2>6, <1>2
        <4> QED BY <4>2, <2>4, <2>6, <1>1
      <3> QED BY <3>1, <3>2
    <2>8. t[i] # s[i] BY <2>2, <2>6
    <2>9. t[i] < s[i] BY <2>2, <2>6, <2>7, <2>8, <1>1
    <2>10. t[i] \in S BY <2>2, <2>6, <2>9, <1>1
    <2>11. PICK l \in 1..Len(s) : s[l] = t[i] BY <2>10, <1>2
    <2>12. l < i
      <3> SUFFICES ASSUME ~(l < i) PROVE FALSE
        OBVIOUS
      <3>1. l = i \/ i < l BY <2>2, <1>1
      <3>2. s[i] < s[l] \/ l = i BY <3>1, <2>2, <1>2
      <3> QED BY <3>2, <2>2, <2>9, <2>11, <1>1
    <2>13. l \in 1..Len(t) /\ t[l] = t[i] BY <2>3, <2>11, <2>12
    <2>14. t[l] < t[i] BY <2>6, <2>12, <2>13, <1>2
    <2> QED BY <2>6, <2>13, <2>14, <1>1
  <1>4. \A i \in 1..Len(s) : i <= Len(t) /\ s[i] = t[i] BY <1>3
  <1>5. Len(s) <= Len(t)
    <2>1. CASE Len(s) = 0 BY <2>1, <1>1
    <2>2. CASE Len(s) # 0
      <3>1. Len(s) \in 1..Len(s) BY <2>2, <1>1
      <3> QED BY <3>1, <1>4
    <2> QED BY <2>1, <2>2
  <1> QED BY <1>4, <1>5 DEF Begins

LEMMA ListUnique ==
  ASSUME NEW S, S \subseteq Nat, NEW s, NEW t, Lists(s, S), Lists(t, S)
  PROVE  s = t
  <1>0. \A x \in S, y \in S : x < y => x \in S OBVIOUS
  <1>1. Begins(s, t) /\ Begins(t, s) BY <1>0, ListPrefix
  <1>2. Len(s) <= Len(t) /\ Len(t) <= Len(s) /\ \A i \in 1..Len(s) : s[i] = t[i]
    BY <1>1 DEF Begins
  <1>3. s \in Seq(S) /\ t \in Seq(S) /\ Len(s) \in Nat /\ Len(t) \in Nat
    BY ListFacts DEF Listed
  <1>4. Len(s) = Len(t) BY <1>2, <1>3
  <1> QED BY <1>2, <1>3, <1>4, SeqEqual

(* Every set of numbers with a bound has a list. *)
LEMMA ListExists ==
  ASSUME NEW m \in Nat, NEW S, S \subseteq 1..m
  PROVE  \E s : Lists(s, S)
  <1> DEFINE Below(k) == {x \in S : x <= k}
             bad == {k \in 0..m : ~\E s : Lists(s, Below(k))}
  <1>0. \A x \in S : x \in Nat /\ 1 <= x /\ x <= m OBVIOUS
  <1>1. bad = {}
    <2> SUFFICES ASSUME bad # {} PROVE FALSE
      OBVIOUS
    <2>0. bad \subseteq Nat OBVIOUS
    <2>1. PICK k \in bad : \A j \in bad : k <= j BY <2>0, NatMin
    <2>2. k \in 0..m /\ ~\E s : Lists(s, Below(k)) OBVIOUS
    <2>3. k # 0
      <3> SUFFICES ASSUME k = 0 PROVE FALSE
        OBVIOUS
      <3>0. \A x \in S : ~(x <= 0) BY <1>0
      <3>1. Below(k) = {} BY <3>0
      <3>2. Lists(<<>>, {}) BY DEF Lists
      <3> QED BY <2>2, <3>1, <3>2
    <2>4. k - 1 \in 0..m /\ ~(k <= k - 1) /\ k \in Nat BY <2>2, <2>3
    <2>5. PICK s : Lists(s, Below(k - 1)) BY <2>1, <2>4
    <2>6. CASE k \notin S
      <3>1. \A x \in S : x <= k <=> x <= k - 1 BY <1>0, <2>4, <2>6
      <3>2. Below(k) = Below(k - 1) BY <3>1
      <3> QED BY <2>2, <2>5, <3>2
    <2>7. CASE k \in S
      <3> DEFINE B == Below(k - 1)
                 t == Append(s, k)
      <3>0. \A x \in S : x <= k <=> (x <= k - 1 \/ x = k) BY <1>0, <2>4
      <3>1. Below(k) = B \cup {k} BY <2>7, <3>0
      <3>2. /\ s \in Seq(B) /\ Len(s) \in Nat /\ \A i \in 1..Len(s) : s[i] \in B
            /\ \A i, j \in 1..Len(s) : i < j => s[i] < s[j]
            /\ \A x \in B : \E i \in 1..Len(s) : s[i] = x
        <4>1. B \subseteq Nat BY <1>0
        <4>2. Listed(s, B) BY <2>5, <4>1, ListFacts
        <4> QED BY <4>2 DEF Listed
      <3>3. \A x \in B : x \in Nat /\ x < k BY <1>0, <2>4
      <3> HIDE DEF B
      <3>4. /\ t \in Seq(B \cup {k}) /\ Len(t) = Len(s) + 1 /\ t[Len(s) + 1] = k
            /\ \A i \in 1..Len(s) : t[i] = s[i]
        <4>1. s \in Seq(B \cup {k})
          <5>1. s = [i \in 1..Len(s) |-> s[i]] BY <3>2
          <5> QED BY <3>2, <5>1
        <4> QED BY <4>1, <3>2
      <3> HIDE DEF t
      <3>5. ASSUME NEW i \in 1..Len(t), NEW j \in 1..Len(t), i < j PROVE t[i] < t[j]
        <4>0. i \in 1..Len(s) BY <3>2, <3>4, <3>5
        <4>1. i \in 1..Len(s) /\ t[i] = s[i] /\ s[i] \in B BY <3>2, <3>4, <4>0
        <4>2. CASE j = Len(s) + 1 BY <4>1, <4>2, <3>3, <3>4
        <4>3. CASE j # Len(s) + 1
          <5>1. j \in 1..Len(s) BY <4>3, <3>2, <3>4
          <5> QED BY <5>1, <4>1, <3>2, <3>4, <3>5
        <4> QED BY <4>2, <4>3
      <3>6. ASSUME NEW x \in B \cup {k} PROVE \E i \in 1..Len(t) : t[i] = x
        <4>1. CASE x = k
          <5>1. Len(s) + 1 \in 1..Len(t) BY <3>2, <3>4
          <5> QED BY <4>1, <5>1, <3>4
        <4>2. CASE x \in B
          <5>1. PICK i \in 1..Len(s) : s[i] = x BY <4>2, <3>2
          <5>2. i \in 1..Len(t) BY <3>2, <3>4
          <5> QED BY <5>1, <5>2, <3>4
        <4> QED BY <4>1, <4>2
      <3>7. Lists(t, B \cup {k}) BY <3>4, <3>5, <3>6 DEF Lists
      <3> QED BY <2>2, <3>1, <3>7 DEF B
    <2> QED BY <2>6, <2>7
  <1>2. m \in 0..m OBVIOUS
  <1>3. PICK s : Lists(s, Below(m)) BY <1>1, <1>2
  <1>4. Below(m) = S BY <1>0
  <1> QED BY <1>3, <1>4

(* Ascending is that list. *)
LEMMA AscendingLists ==
  ASSUME NEW m \in Nat, NEW S, S \subseteq 1..m
  PROVE  Lists(Ascending(S), S)
  <1>1. PICK s : Lists(s, S) BY ListExists
  <1>2. /\ s \in Seq(S) /\ Len(s) \in Nat /\ \A i \in 1..Len(s) : s[i] \in S /\ s[i] \in Nat
        /\ \A i, j \in 1..Len(s) : i < j => s[i] < s[j]
        /\ \A x \in S : \E i \in 1..Len(s) : s[i] = x
    <2>1. S \subseteq Nat OBVIOUS
    <2>2. Listed(s, S) BY <1>1, <2>1, ListFacts
    <2> QED BY <2>2 DEF Listed
  <1>3. s \in [1..Len(s) -> S] BY <1>2
  <1>4. \A i, j \in 1..Len(s) : i # j => s[i] # s[j]
    <2> SUFFICES ASSUME NEW i \in 1..Len(s), NEW j \in 1..Len(s), i # j PROVE s[i] # s[j]
      OBVIOUS
    <2>1. i < j \/ j < i BY <1>2
    <2>2. s[i] < s[j] \/ s[j] < s[i] BY <2>1, <1>2
    <2> QED BY <2>2, <1>2
  <1>5. s \in Bijection(1..Len(s), S)
    BY <1>2, <1>3, <1>4 DEF Bijection, Injection, Surjection, IsInjective
  <1>6. Cardinality(S) = Len(s)
    <2>1. ExistsBijection(1..Len(s), S) BY <1>5 DEF ExistsBijection
    <2> QED BY <1>2, <2>1, FS_CountingElements
  <1>7. s \in SetToSeqs(S) BY <1>3, <1>4, <1>6 DEF SetToSeqs
  <1>8. \A i, j \in DOMAIN s : i < j => s[i] < s[j] BY <1>2, <1>3
  <1> DEFINE a == Ascending(S)
  <1>9. a \in SetToSeqs(S) /\ \A i, j \in DOMAIN a : i < j => a[i] < a[j]
    BY <1>7, <1>8 DEF Ascending
  <1>10. a \in [1..Len(s) -> S] /\ \A i, j \in 1..Len(s) : i # j => a[i] # a[j]
    BY <1>6, <1>9 DEF SetToSeqs
  <1>11. a \in Seq(S) /\ Len(a) = Len(s) /\ DOMAIN a = 1..Len(s) BY <1>2, <1>10
  <1> HIDE DEF a
  <1>12. \A x \in S : \E i \in 1..Len(a) : a[i] = x
    <2>1. IsFiniteSet(1..Len(s)) /\ Cardinality(1..Len(s)) = Len(s) BY <1>2, FS_Interval
    <2>2. a \in Injection(1..Len(s), S) BY <1>10 DEF Injection, IsInjective
    <2>3. IsFiniteSet(S) BY <1>5, <2>1, FS_Bijection DEF ExistsBijection
    <2>4. a \in Surjection(1..Len(s), S) BY <1>6, <2>1, <2>2, <2>3, FS_Injection
    <2> QED BY <1>11, <2>4 DEF Surjection
  <1> QED BY <1>9, <1>11, <1>12 DEF Lists, a
-----------------------------------------------------------------------------
(* The chunks of a batch.                                                  *)

LEMMA Times ==
  \A w \in Nat, z \in Nat : w * z \in Nat /\ (w + 1) * z = w * z + z
  OBVIOUS

LEMMA MinFacts ==
  \A a \in Nat, b \in Nat : /\ Min2(a, b) \in Nat /\ Min2(a, b) <= a /\ Min2(a, b) <= b
                            /\ Min2(a, b) = a \/ Min2(a, b) = b
  BY DEF Min2

LEMMA ChunkSizePositive ==
  ASSUME workers \in Nat \ {0, 1}, NEW n \in Nat, n >= 1
  PROVE  ChunkSize(n) \in Nat /\ ChunkSize(n) >= 1
  <1> DEFINE m == Min2(workers, n)
             q == (n + m - 1) \div m
  <1>1. m \in Nat /\ m >= 1 BY DEF Min2
  <1> HIDE DEF m
  <1>2. n + m - 1 \in Nat /\ n + m - 1 >= m BY <1>1
  <1>3. q \in Nat /\ q >= 1 BY <1>1, <1>2
  <1> QED BY <1>3 DEF ChunkSize, m

(* The w-th chunk begins behind the ones before it. *)
ChunkOf(s, b, w, z) ==
  /\ Len(s) = Min2(w * z, Len(b)) - Min2((w - 1) * z, Len(b))
  /\ \A i \in 1..Len(s) : s[i] = b[Min2((w - 1) * z, Len(b)) + i]

LEMMA Chunks ==
  ASSUME workers \in Nat \ {0, 1}, NEW T, NEW b \in Seq(T), Len(b) >= 1,
         NEW w \in Nat, w >= 1
  PROVE  Chunk(b, w) \in Seq(T) /\ ChunkOf(Chunk(b, w), b, w, ChunkSize(Len(b)))
  <1> DEFINE z == ChunkSize(Len(b))
             n == Len(b)
             lo == (w - 1) * z
             hi == Min2(w * z, n)
  <1>1. n \in Nat /\ z \in Nat /\ z >= 1 BY ChunkSizePositive
  <1> HIDE DEF z
  <1>2. w - 1 \in Nat /\ (w - 1) + 1 = w OBVIOUS
  <1>3. lo \in Nat /\ w * z = lo + z /\ w * z \in Nat BY <1>1, <1>2, Times
  <1>4. Chunk(b, w) = SubSeq(b, lo + 1, hi) BY DEF Chunk, z
  <1> HIDE DEF lo
  <1>5. hi \in Nat /\ hi <= n BY <1>1, <1>3 DEF Min2
  <1>6. CASE lo < n
    <2>1. lo < hi /\ Min2(lo, n) = lo BY <1>1, <1>3, <1>6 DEF Min2
    <2>2. lo + 1 \in 1..(Len(b) + 1) /\ hi \in lo..Len(b) BY <1>1, <1>3, <1>5, <1>6, <2>1
    <2> HIDE DEF hi
    <2> DEFINE c == SubSeq(b, lo + 1, hi)
    <2>3. /\ c \in Seq(T) /\ Len(c) = hi - lo
          /\ \A i \in 1..(hi - lo) : c[i] = b[lo + i]
      <3>1. c = [i \in 1..(hi - lo) |-> b[lo + i]] BY <1>3, <1>5, <2>1
      <3>2. \A i \in 1..(hi - lo) : lo + i \in 1..Len(b) BY <1>1, <1>3, <1>5
      <3>3. \A i \in 1..(hi - lo) : b[lo + i] \in T BY <3>2, ElementOfSeq
      <3>4. hi - lo \in Nat BY <1>3, <1>5, <2>1
      <3>5. [i \in 1..(hi - lo) |-> b[lo + i]] \in Seq(T) BY <3>3, <3>4
      <3> HIDE DEF c
      <3>6. c \in Seq(T) /\ DOMAIN c = 1..(hi - lo) BY <3>1, <3>5
      <3>7. Len(c) = hi - lo BY <3>4, <3>6, LenProperties
      <3> QED BY <3>1, <3>6, <3>7
    <2> QED BY <1>4, <2>1, <2>3 DEF ChunkOf, z, hi, lo
  <1>7. CASE ~(lo < n)
    <2>1. hi = n /\ Min2(lo, n) = n /\ hi < lo + 1 BY <1>1, <1>3, <1>7 DEF Min2
    <2>2. SubSeq(b, lo + 1, hi) = <<>> BY <1>3, <1>5, <2>1, SubSeqEmpty
    <2>3. <<>> \in Seq(T) /\ Len(<<>>) = 0 OBVIOUS
    <2>4. hi - Min2(lo, n) = 0 BY <1>1, <2>1
    <2>5. Chunk(b, w) = <<>> BY <1>4, <2>2
    <2>6. ChunkOf(<<>>, b, w, z)
      <3>1. 1..0 = {} OBVIOUS
      <3> QED BY <2>3, <2>4, <3>1 DEF ChunkOf, hi, lo
    <2> QED BY <2>3, <2>5, <2>6 DEF z
  <1> QED BY <1>6, <1>7
-----------------------------------------------------------------------------
(* The steps of the threads and of the loops over them.                    *)

(* They leave the filter alone. *)
LEMMA ThreadStep ==
  ASSUME IInv, UNCHANGED <<filter, emitted, result>>, Mapping, Mapping', TypeInv',
         NEW c \in Nat, WorkerInv(c)'
  PROVE  IInv'
  <1>1. /\ UNCHANGED <<input, pos, pending, exhausted, batch, inputError, emitted, result>>
        /\ phase # "next" /\ phase' # "next" /\ phase # "inline" /\ phase' # "inline"
    BY DEF filter, Mapping
  <1>2. InputInv' BY <1>1 DEF IInv, InputInv
  <1>3. BatchInv' BY <1>1 DEF IInv, BatchInv
  <1>4. result = "running" BY <1>1 DEF IInv, BatchInv
  <1>5. PICK L : RowsInv(L) BY <1>4 DEF IInv
  <1>6. Base' = Base BY <1>1 DEF Base
  <1>7. NotDropped(Base)' = NotDropped(Base) BY <1>1, <1>6 DEF NotDropped
  <1>8. RowsInv(L)' BY <1>1, <1>5, <1>7 DEF RowsInv
  <1> QED BY <1>1, <1>2, <1>3, <1>4, <1>8 DEF IInv

LEMMA SpawnStep ==
  ASSUME IInv, NEW w \in Worker, Spawn(w)
  PROVE  IInv'
  <1>1. TypeInv /\ BatchInv BY DEF IInv
  <1>2. PICK c \in Nat : WorkerInv(c) BY DEF IInv
  <1>3. BATCH_SIZE \in Nat /\ BATCH_SIZE >= 1 BY FilterAssumption
  <1>4. /\ phase = "spawn" /\ todo[w] # <<>> /\ state[w] = "none"
        /\ \A v \in 1..(w - 1) : state[v] # "none"
        /\ state' = [state EXCEPT ![w] = "running"]
        /\ phase' = IF w = BATCH_SIZE \/ todo[w + 1] = <<>> THEN "join" ELSE "spawn"
        /\ UNCHANGED <<filter, todo, joined, failure, output, emitted, result, spawnFailed>>
    BY DEF Spawn, NextChunk
  <1>5. w \in Nat /\ w >= 1 /\ w <= BATCH_SIZE /\ c \in 0..BATCH_SIZE
    BY <1>2, <1>3 DEF Worker, WorkerInv
  <1>6. w = c + 1
    <2>1. w > c BY <1>2, <1>4 DEF WorkerInv
    <2>2. w - 1 <= c
      <3>1. CASE w = 1 BY <3>1, <1>5
      <3>2. CASE w # 1
        <4>1. w - 1 \in Worker /\ w - 1 \in 1..(w - 1) BY <3>2, <1>3, <1>5 DEF Worker
        <4>2. ~(w - 1 > c) BY <4>1, <1>2, <1>4 DEF WorkerInv
        <4> QED BY <4>2, <1>5
      <3> QED BY <3>1, <3>2
    <2> QED BY <2>1, <2>2, <1>5
  <1>7. /\ UNCHANGED <<input, workers, pos, pending, exhausted, batch, inputError>>
        /\ Mapping /\ Mapping' /\ phase # "next"
    BY <1>4 DEF filter, Mapping
  <1>8. TypeInv' BY <1>1, <1>4, <1>7 DEF TypeInv
  <1>9. Len(batch) \in Nat /\ Len(batch) >= 2 /\ Len(batch) <= BATCH_SIZE
    BY <1>1, <1>4 DEF BatchInv, TypeInv
  <1>10. Size \in Nat /\ Size >= 1
    <2>1. workers \in Nat \ {0, 1} /\ Len(batch) >= 1 BY <1>1, <1>9 DEF TypeInv
    <2> QED BY <2>1, <1>9, ChunkSizePositive DEF Size
  <1>11. Size' = Size /\ \A v \in Worker : Chunk(batch, v)' = Chunk(batch, v)
    BY <1>7 DEF Size, Chunk, ChunkSize
  <1>12. phase' = "join" => w * Size >= Len(batch)
    <2> SUFFICES ASSUME phase' = "join" PROVE w * Size >= Len(batch)
      OBVIOUS
    <2>1. CASE w = BATCH_SIZE
      <3>1. w * Size >= w BY <1>5, <1>10
      <3>2. w * Size \in Nat BY <1>5, <1>10, Times
      <3> QED BY <2>1, <3>1, <3>2, <1>3, <1>9
    <2>2. CASE w # BATCH_SIZE
      <3>1. todo[w + 1] = <<>> /\ w + 1 \in Worker /\ w + 1 > c /\ w + 1 \in Nat /\ w + 1 >= 1
        BY <2>2, <1>3, <1>4, <1>5, <1>6 DEF Worker
      <3>2. Chunk(batch, w + 1) = <<>> BY <3>1, <1>2, <1>7 DEF WorkerInv
      <3>3. ChunkOf(<<>>, batch, w + 1, Size)
        <4>1. /\ workers \in Nat \ {0, 1} /\ batch \in Seq(1..Len(input)) /\ Len(batch) >= 1
          BY <1>1, <1>9 DEF TypeInv
        <4> QED BY <4>1, <3>1, <3>2, Chunks DEF Size
      <3>4. (w + 1) - 1 = w /\ (w + 1) * Size = w * Size + Size /\ w * Size \in Nat
        BY <1>5, <1>10, Times
      <3>5. 0 = Min2(w * Size + Size, Len(batch)) - Min2(w * Size, Len(batch))
        BY <3>3, <3>4 DEF ChunkOf
      <3> HIDE DEF Size
      <3> QED BY <3>4, <3>5, <1>9, <1>10 DEF Min2
    <2> QED BY <2>1, <2>2
  <1>13. WorkerInv(c + 1)'
    <2>1. c + 1 \in 0..BATCH_SIZE BY <1>3, <1>5, <1>6
    <2>2. joined = 0 /\ ~failure BY <1>2, <1>4 DEF WorkerInv
    <2>3. \A v \in Worker : state'[v] = IF v = w THEN "running" ELSE state[v]
      BY <1>1, <1>4 DEF TypeInv
    <2>4. \A v \in Worker : (v > c + 1 <=> v > c /\ v # w) /\ ~(v <= 0) /\ v \in Nat
      BY <1>3, <1>5, <1>6 DEF Worker
    <2>5. /\ \A v \in Worker : state[v] = "none" <=> v > c
          /\ \A v \in Worker : state[v] # "joined"
      BY <1>2, <1>7, <2>2, <2>4 DEF WorkerInv
    <2>6. \A v \in Worker : state'[v] = "none" <=> v > c + 1 BY <2>3, <2>4, <2>5
    <2>7. \A v \in Worker : state'[v] = "joined" <=> v <= joined' BY <1>4, <2>2, <2>3, <2>4, <2>5
    <2>8. \A v \in Worker : v > c + 1 => todo'[v] = Chunk(batch, v)'
      BY <1>2, <1>4, <1>7, <1>11, <2>4 DEF WorkerInv
    <2>9. \A v \in Worker : state'[v] = "panicked" => Excused'
      <3>1. Excused' = Excused BY <1>4, <1>7 DEF Excused
      <3> QED BY <1>2, <2>3, <3>1 DEF WorkerInv
    <2>10. /\ Len(output') = Min2(joined' * Size', Len(batch'))
           /\ \A i \in 1..Len(output') : output'[i] = batch'[i]
      BY <1>2, <1>4, <1>7, <1>11, <2>2 DEF WorkerInv
    <2>11. phase' = "join" => (c + 1) * Size' >= Len(batch') BY <1>6, <1>7, <1>11, <1>12
    <2>12. joined' <= c + 1 BY <1>4, <1>5, <2>2
    <2> QED BY <1>4, <1>7, <2>1, <2>2, <2>6, <2>7, <2>8, <2>9, <2>10, <2>11, <2>12 DEF WorkerInv
  <1>14. c + 1 \in Nat OBVIOUS
  <1> QED BY <1>4, <1>7, <1>8, <1>13, <1>14, ThreadStep

LEMMA SpawnFailsStep ==
  ASSUME IInv, NEW w \in Worker, SpawnFails(w)
  PROVE  IInv'
  <1>1. TypeInv BY DEF IInv
  <1>2. PICK c \in Nat : WorkerInv(c) BY DEF IInv
  <1>3. /\ phase = "spawn" /\ phase' = "join" /\ failure' = TRUE /\ spawnFailed' = TRUE
        /\ UNCHANGED <<filter, todo, state, joined, output, emitted, result>>
    BY DEF SpawnFails
  <1>4. /\ UNCHANGED <<input, workers, pos, pending, exhausted, batch, inputError>>
        /\ Mapping /\ Mapping'
    BY <1>3 DEF filter, Mapping
  <1>5. TypeInv' BY <1>1, <1>3, <1>4 DEF TypeInv
  <1>6. Excused' BY <1>3 DEF Excused
  <1>7. \A v \in Worker : Chunk(batch, v)' = Chunk(batch, v) BY <1>4 DEF Chunk, ChunkSize
  <1>8. WorkerInv(c)' BY <1>2, <1>3, <1>4, <1>6, <1>7 DEF WorkerInv
  <1> QED BY <1>3, <1>4, <1>5, <1>8, ThreadStep

LEMMA WorkerStepStep ==
  ASSUME IInv, NEW w \in Worker, WorkerStep(w)
  PROVE  IInv'
  <1>1. TypeInv BY DEF IInv
  <1>2. PICK c \in Nat : WorkerInv(c) BY DEF IInv
  <1>3. w \in Nat /\ w >= 1 /\ w <= BATCH_SIZE BY FilterAssumption DEF Worker
  <1>4. /\ state[w] = "running"
        /\ UNCHANGED <<filter, phase, joined, failure, output, emitted, result, spawnFailed>>
    BY DEF WorkerStep
  <1>5. ~(w > c) /\ Mapping
    <2>1. ~(w > c) BY <1>2, <1>4 DEF WorkerInv
    <2> QED BY <2>1, <1>2, <1>3 DEF WorkerInv
  <1>6. /\ UNCHANGED <<input, workers, pos, pending, exhausted, batch, inputError>> /\ Mapping'
    BY <1>4, <1>5 DEF filter, Mapping
  <1>7. /\ todo' \in [Worker -> Seq(1..Len(input))] /\ state' \in [Worker -> {"none", "running", "finished", "panicked", "joined"}]
        /\ \A v \in Worker : v # w => todo'[v] = todo[v] /\ state'[v] = state[v]
        /\ state'[w] \in {"running", "finished", "panicked"}
        /\ state'[w] = "panicked" => Excused
    <2>1. CASE todo[w] = <<>>
      <3>1. state' = [state EXCEPT ![w] = "finished"] /\ todo' = todo BY <2>1 DEF WorkerStep
      <3> QED BY <1>1, <3>1 DEF TypeInv
    <2>2. CASE todo[w] # <<>>
      <3>1. /\ todo' = [todo EXCEPT ![w] = Tail(todo[w])]
            /\ state' = IF input[Head(todo[w])] = "panic"
                        THEN [state EXCEPT ![w] = "panicked"] ELSE state
        BY <2>2, <1>1 DEF WorkerStep, TypeInv
      <3>2. todo[w] \in Seq(1..Len(input)) BY <1>1 DEF TypeInv
      <3>3. Head(todo[w]) \in 1..Len(input) /\ Tail(todo[w]) \in Seq(1..Len(input))
        BY <2>2, <3>2, HeadTailProperties
      <3>4. Head(todo[w]) \in DOMAIN input BY <1>1, <3>3 DEF TypeInv
      <3>5. state'[w] = "panicked" => Excused BY <1>1, <1>4, <3>1, <3>4 DEF TypeInv, Excused
      <3>6. todo' \in [Worker -> Seq(1..Len(input))] BY <1>1, <3>1, <3>3 DEF TypeInv
      <3> QED BY <1>1, <1>4, <3>1, <3>5, <3>6 DEF TypeInv
    <2> QED BY <2>1, <2>2
  <1>8. TypeInv' BY <1>1, <1>4, <1>6, <1>7 DEF TypeInv
  <1>9. \A v \in Worker : Chunk(batch, v)' = Chunk(batch, v) BY <1>6 DEF Chunk, ChunkSize
  <1>10. Size' = Size /\ Excused' = Excused BY <1>4, <1>6 DEF Size, ChunkSize, Excused
  <1>11. ~(w <= joined)
    BY <1>2, <1>4, <1>5 DEF WorkerInv
  <1>12. WorkerInv(c)'
    <2>1. \A v \in Worker : state'[v] = "none" <=> v > c BY <1>2, <1>5, <1>7 DEF WorkerInv
    <2>2. \A v \in Worker : state'[v] = "joined" <=> v <= joined'
      BY <1>2, <1>4, <1>5, <1>7, <1>11 DEF WorkerInv
    <2>3. \A v \in Worker : v > c => todo'[v] = Chunk(batch, v)'
      BY <1>2, <1>5, <1>7, <1>9 DEF WorkerInv
    <2>4. \A v \in Worker : state'[v] = "panicked" => Excused' BY <1>2, <1>7, <1>10 DEF WorkerInv
    <2> QED BY <1>2, <1>4, <1>5, <1>6, <1>10, <2>1, <2>2, <2>3, <2>4 DEF WorkerInv
  <1> QED BY <1>4, <1>5, <1>6, <1>8, <1>12, ThreadStep

(* A join extends the output by the next chunk. *)
LEMMA JoinStep ==
  ASSUME IInv, NEW w \in Worker, Join(w)
  PROVE  IInv'
  <1>1. TypeInv /\ BatchInv BY DEF IInv
  <1>2. PICK c \in Nat : WorkerInv(c) BY DEF IInv
  <1>3. BATCH_SIZE \in Nat /\ w \in Nat /\ w >= 1 /\ w <= BATCH_SIZE /\ joined \in Nat
    BY <1>1, FilterAssumption DEF Worker, TypeInv
  <1>4. /\ phase = "join" /\ w = joined + 1 /\ state[w] \in {"finished", "panicked"}
        /\ joined' = joined + 1 /\ state' = [state EXCEPT ![w] = "joined"]
        /\ UNCHANGED <<filter, phase, todo, emitted, result, spawnFailed>>
    BY DEF Join, JoinNext
  <1>5. /\ UNCHANGED <<input, workers, pos, pending, exhausted, batch, inputError>>
        /\ Mapping /\ Mapping' /\ phase # "next" /\ phase # "inline"
    BY <1>4 DEF filter, Mapping
  <1>6. w <= c BY <1>2, <1>3, <1>4 DEF WorkerInv
  <1>7. /\ Len(batch) \in Nat /\ Len(batch) >= 2 /\ workers \in Nat \ {0, 1}
        /\ batch \in Seq(1..Len(input)) /\ output \in Seq(1..Len(input)) /\ Len(batch) >= 1
    BY <1>1, <1>5 DEF BatchInv, TypeInv
  <1>8. Size \in Nat /\ Size >= 1 BY <1>7, ChunkSizePositive DEF Size
  <1>9. Chunk(batch, w) \in Seq(1..Len(input)) /\ ChunkOf(Chunk(batch, w), batch, w, Size)
    BY <1>3, <1>7, Chunks DEF Size
  <1>10. /\ failure' \in BOOLEAN /\ output' \in Seq(1..Len(input))
         /\ state[w] = "panicked" => failure' = TRUE
         /\ state[w] # "panicked" => failure' = failure /\ output' = output \o Chunk(batch, w)
    <2>1. CASE state[w] = "panicked" BY <1>7, <2>1 DEF Join
    <2>2. CASE state[w] # "panicked"
      <3>1. output' = output \o Chunk(batch, w) /\ failure' = failure BY <2>2 DEF Join
      <3>2. output \o Chunk(batch, w) \in Seq(1..Len(input)) BY <1>7, <1>9, ConcatProperties
      <3> QED BY <1>1, <2>2, <3>1, <3>2 DEF TypeInv
    <2> QED BY <2>1, <2>2
  <1>11. TypeInv'
    <2>1. joined + 1 \in 0..BATCH_SIZE BY <1>3, <1>4
    <2> QED BY <1>1, <1>4, <1>5, <1>10, <2>1 DEF TypeInv
  <1>12. \A v \in Worker : Chunk(batch, v)' = Chunk(batch, v) BY <1>5 DEF Chunk, ChunkSize
  <1>13. Size' = Size /\ Excused' = Excused BY <1>4, <1>5 DEF Size, ChunkSize, Excused
  <1>14. ASSUME ~failure'
         PROVE  /\ ~failure /\ Len(output') = Min2(joined' * Size, Len(batch))
                /\ \A i \in 1..Len(output') : output'[i] = batch[i]
    <2> DEFINE k == Chunk(batch, w)
               lo == Min2(joined * Size, Len(batch))
               hi == Min2((joined + 1) * Size, Len(batch))
    <2>1. ~failure /\ output' = output \o k BY <1>10, <1>14
    <2>2. Len(output) = lo /\ \A i \in 1..Len(output) : output[i] = batch[i]
      BY <1>2, <1>5, <2>1 DEF WorkerInv
    <2>3. joined * Size \in Nat /\ (joined + 1) * Size = joined * Size + Size BY <1>3, <1>8, Times
    <2>4. lo \in Nat /\ hi \in Nat /\ lo <= hi BY <1>7, <1>8, <2>3 DEF Min2
    <2>5. w - 1 = joined BY <1>3, <1>4
    <2>6. Len(k) = hi - lo /\ \A i \in 1..Len(k) : k[i] = batch[lo + i]
      BY <1>4, <1>9, <2>5 DEF ChunkOf
    <2> HIDE DEF k, lo, hi
    <2>7. k \in Seq(1..Len(input)) BY <1>9 DEF k
    <2>8. /\ Len(output \o k) = Len(output) + Len(k)
          /\ \A i \in 1..(Len(output) + Len(k)) :
               (output \o k)[i] = IF i <= Len(output) THEN output[i] ELSE k[i - Len(output)]
      BY <1>7, <2>7, ConcatProperties
    <2>9. Len(output') = hi BY <2>1, <2>2, <2>4, <2>6, <2>8
    <2>10. ASSUME NEW i \in 1..hi PROVE output'[i] = batch[i]
      <3>1. i \in 1..(Len(output) + Len(k)) BY <2>2, <2>4, <2>6
      <3>2. CASE i <= lo
        <4>1. i \in 1..Len(output) BY <3>2, <2>2, <2>4
        <4> QED BY <3>1, <3>2, <4>1, <2>1, <2>2, <2>8
      <3>3. CASE ~(i <= lo)
        <4>1. i - lo \in 1..Len(k) /\ lo + (i - lo) = i BY <3>3, <2>4, <2>6
        <4>2. output'[i] = k[i - lo] BY <3>1, <3>3, <2>1, <2>2, <2>8
        <4> QED BY <4>1, <4>2, <2>6
      <3> QED BY <3>2, <3>3
    <2> QED BY <1>4, <2>1, <2>9, <2>10 DEF hi
  <1>15. WorkerInv(c)'
    <2>1. \A v \in Worker : state'[v] = IF v = w THEN "joined" ELSE state[v]
      BY <1>1, <1>4 DEF TypeInv
    <2>2. \A v \in Worker : state'[v] = "none" <=> v > c
      <3>1. ~(w > c) BY <1>3, <1>6
      <3> QED BY <1>2, <2>1, <3>1 DEF WorkerInv
    <2>3. \A v \in Worker : state'[v] = "joined" <=> v <= joined'
      <3> SUFFICES ASSUME NEW v \in Worker PROVE state'[v] = "joined" <=> v <= joined'
        OBVIOUS
      <3>1. v \in Nat /\ (state[v] = "joined" <=> v <= joined)
        BY <1>2, <1>3, <1>5 DEF Worker, WorkerInv
      <3>2. v <= joined' <=> (v <= joined \/ v = w) BY <1>3, <1>4, <3>1
      <3> QED BY <2>1, <3>1, <3>2
    <2>4. \A v \in Worker : v > c => todo'[v] = Chunk(batch, v)'
      BY <1>2, <1>4, <1>5, <1>12 DEF WorkerInv
    <2>5. \A v \in Worker : state'[v] = "panicked" => Excused' BY <1>2, <1>13, <2>1 DEF WorkerInv
    <2>6. failure' => Excused'
      <3>1. state[w] = "panicked" => Excused BY <1>2 DEF WorkerInv
      <3>2. failure => Excused BY <1>2, <1>5 DEF WorkerInv
      <3> QED BY <1>10, <1>13, <3>1, <3>2
    <2>7. ~failure' => c * Size' >= Len(batch') BY <1>2, <1>4, <1>5, <1>13, <1>14 DEF WorkerInv
    <2>8. joined' <= c BY <1>4, <1>6
    <2>9. c \in 0..BATCH_SIZE BY <1>2 DEF WorkerInv
    <2> QED BY <1>4, <1>5, <1>13, <1>14, <2>2, <2>3, <2>4, <2>5, <2>6, <2>7, <2>8, <2>9
      DEF WorkerInv
  <1> QED BY <1>4, <1>5, <1>11, <1>15, ThreadStep
-----------------------------------------------------------------------------
(* The rows of the serial filter.                                          *)

LEMMA SerialEndFacts ==
  ASSUME input \in Seq(Row)
  PROVE  /\ SerialEnd \in Nat /\ SerialEnd >= 1 /\ SerialEnd <= Len(input) + 1
         /\ SerialEnd <= Len(input) => Bad(SerialEnd)
         /\ \A j \in 1..(SerialEnd - 1) : ~Bad(j)
  <1>1. Len(input) \in Nat /\ DOMAIN input = 1..Len(input) OBVIOUS
  <1>2. CASE \E i \in DOMAIN input : Bad(i)
    <2> DEFINE T == {i \in DOMAIN input : Bad(i)}
    <2>1. T # {} /\ T \subseteq Nat BY <1>1, <1>2
    <2>2. PICK x \in T : \A y \in T : x <= y BY <2>1, NatMin
    <2>3. x \in DOMAIN input /\ Bad(x) OBVIOUS
    <2>4. \A j \in 1..(x - 1) : ~Bad(j)
      <3> SUFFICES ASSUME NEW j \in 1..(x - 1), Bad(j) PROVE FALSE
        OBVIOUS
      <3>1. j \in DOMAIN input /\ ~(x <= j) BY <1>1, <2>3
      <3> QED BY <2>2, <3>1
    <2>5. SerialEnd \in DOMAIN input /\ Bad(SerialEnd) /\ \A j \in 1..(SerialEnd - 1) : ~Bad(j)
      BY <1>2, <2>3, <2>4 DEF SerialEnd
    <2> QED BY <1>1, <2>5
  <1>3. CASE ~\E i \in DOMAIN input : Bad(i)
    <2>1. SerialEnd = Len(input) + 1 BY <1>3 DEF SerialEnd
    <2>2. \A j \in 1..(SerialEnd - 1) : ~Bad(j) BY <1>1, <1>3, <2>1
    <2>3. ~(SerialEnd <= Len(input)) BY <1>1, <2>1
    <2> QED BY <1>1, <2>1, <2>2, <2>3
  <1> QED BY <1>2, <1>3

LEMMA SerialEndIs ==
  ASSUME input \in Seq(Row), NEW p \in Nat, p >= 1, p <= Len(input) + 1,
         p <= Len(input) => Bad(p), \A j \in 1..(p - 1) : ~Bad(j)
  PROVE  SerialEnd = p
  <1>1. /\ SerialEnd \in Nat /\ SerialEnd >= 1 /\ SerialEnd <= Len(input) + 1
        /\ SerialEnd <= Len(input) => Bad(SerialEnd)
        /\ \A j \in 1..(SerialEnd - 1) : ~Bad(j)
    BY SerialEndFacts
  <1>2. Len(input) \in Nat OBVIOUS
  <1>3. CASE SerialEnd < p
    <2>1. SerialEnd \in 1..(p - 1) /\ SerialEnd <= Len(input) BY <1>1, <1>2, <1>3
    <2> QED BY <1>1, <2>1
  <1>4. CASE p < SerialEnd
    <2>1. p \in 1..(SerialEnd - 1) /\ p <= Len(input) BY <1>1, <1>2, <1>4
    <2> QED BY <1>1, <2>1
  <1> QED BY <1>1, <1>3, <1>4

Serial == {i \in 1..(SerialEnd - 1) : input[i] = "pass"}

LEMMA SerialLists ==
  ASSUME input \in Seq(Row)
  PROVE  Lists(SerialRows, Serial) /\ Serial \subseteq Nat
  <1>1. SerialEnd - 1 \in Nat BY SerialEndFacts
  <1>2. Serial \subseteq 1..(SerialEnd - 1) BY DEF Serial
  <1>3. Lists(Ascending(Serial), Serial) BY <1>1, <1>2, AscendingLists
  <1> QED BY <1>1, <1>2, <1>3 DEF SerialRows, Serial

(* What the rows invariant says of the rows returned so far. *)
Returned == {emitted[i] : i \in 1..Len(emitted)}

RowsMeaning(L) ==
  /\ Len(L) \in Nat /\ Len(emitted) \in Nat /\ Base \in Nat /\ Base <= Len(input)
  /\ \A i \in 1..Len(L) : L[i] \in NotDropped(Base) /\ L[i] \in Nat /\ L[i] \in 1..Base
  /\ \A i, j \in 1..Len(L) : i < j => L[i] < L[j]
  /\ \A x \in NotDropped(Base) : \E i \in 1..Len(L) : L[i] = x
  /\ \A i \in 1..Len(emitted) : i \in 1..Len(L) /\ emitted[i] = L[i] /\ input[L[i]] = "pass"
  /\ Lists(emitted, Returned) /\ Returned \subseteq Serial

LEMMA RowsFacts ==
  ASSUME TypeInv, BatchInv, NEW L, RowsInv(L)
  PROVE  RowsMeaning(L)
  <1>1. /\ Len(emitted) \in Nat /\ Len(input) \in Nat /\ pos \in Nat /\ pos <= Len(input)
        /\ Len(batch) \in Nat /\ input \in Seq(Row) /\ emitted \in Seq(Nat)
    BY DEF TypeInv
  <1>2. Base \in Nat /\ Base <= Len(input) BY <1>1 DEF Base, BatchInv
  <1>3. NotDropped(Base) \subseteq Nat /\ \A x \in NotDropped(Base) : x \in 1..Base
    BY <1>2 DEF NotDropped
  <1>4. Listed(L, NotDropped(Base)) BY <1>3, ListFacts DEF RowsInv
  <1>5. /\ Len(L) \in Nat
        /\ \A i \in 1..Len(L) : L[i] \in NotDropped(Base) /\ L[i] \in Nat /\ L[i] \in 1..Base
        /\ \A i, j \in 1..Len(L) : i < j => L[i] < L[j]
        /\ \A x \in NotDropped(Base) : \E i \in 1..Len(L) : L[i] = x
    BY <1>3, <1>4 DEF Listed
  <1>6. ASSUME NEW i \in 1..Len(emitted)
        PROVE  i \in 1..Len(L) /\ emitted[i] = L[i] /\ input[L[i]] = "pass"
    BY <1>1, <1>5 DEF RowsInv
  <1>7. Lists(emitted, Returned)
    <2>1. emitted = [i \in 1..Len(emitted) |-> emitted[i]] BY <1>1
    <2>2. emitted \in Seq(Returned)
      <3>1. \A i \in 1..Len(emitted) : emitted[i] \in Returned BY DEF Returned
      <3> QED BY <1>1, <2>1, <3>1
    <2>3. \A i, j \in 1..Len(emitted) : i < j => emitted[i] < emitted[j] BY <1>5, <1>6
    <2>4. \A x \in Returned : \E i \in 1..Len(emitted) : emitted[i] = x BY DEF Returned
    <2> QED BY <2>2, <2>3, <2>4 DEF Lists
  <1>8. ASSUME NEW i \in 1..Len(emitted) PROVE emitted[i] \in Serial
    <2>1. i \in 1..Len(L) /\ emitted[i] = L[i] /\ input[L[i]] = "pass" BY <1>6
    <2>2. L[i] \in 1..Base /\ L[i] \in Nat BY <1>5, <2>1
    <2>3. SerialEnd \in Nat /\ SerialEnd >= 1 /\ (SerialEnd <= Len(input) => Bad(SerialEnd))
      BY <1>1, SerialEndFacts
    <2>4. L[i] < SerialEnd
      <3> SUFFICES ASSUME SerialEnd <= L[i] PROVE FALSE
        BY <2>2, <2>3
      <3>1. SerialEnd \in 1..Base /\ SerialEnd <= Len(input) BY <1>1, <1>2, <2>2, <2>3
      <3>2. Bad(SerialEnd) BY <2>3, <3>1
      <3>3. input[SerialEnd] # "drop" /\ input[SerialEnd] # "pass" BY <3>2 DEF Bad
      <3>4. SerialEnd \in NotDropped(Base) BY <3>1, <3>3 DEF NotDropped
      <3>5. PICK k \in 1..Len(L) : L[k] = SerialEnd BY <3>4, <1>5
      <3>6. k <= i
        <4> SUFFICES ASSUME i < k PROVE FALSE
          BY <1>5, <2>1
        <4>1. L[i] < L[k] BY <2>1, <1>5
        <4> QED BY <4>1, <3>5, <2>2, <2>3
      <3>7. k \in 1..Len(emitted) BY <3>6, <1>1, <1>5
      <3>8. input[L[k]] = "pass" BY <3>7, <1>6
      <3> QED BY <3>3, <3>5, <3>8
    <2>5. L[i] \in 1..(SerialEnd - 1) BY <2>2, <2>3, <2>4
    <2> QED BY <2>1, <2>5 DEF Serial
  <1>9. Returned \subseteq Serial BY <1>8 DEF Returned
  <1> QED BY <1>1, <1>2, <1>5, <1>6, <1>7, <1>9 DEF RowsMeaning

(* The rows returned so far are the first ones of the serial filter. *)
LEMMA ReturnedPrefix ==
  ASSUME TypeInv, BatchInv, NEW L, RowsInv(L)
  PROVE  IsPrefix(emitted, SerialRows)
  <1>1. RowsMeaning(L) BY RowsFacts
  <1>2. Lists(SerialRows, Serial) /\ Serial \subseteq Nat BY SerialLists DEF TypeInv
  <1>3. \A x \in Serial, y \in Returned : x < y => x \in Returned
    <2> SUFFICES ASSUME NEW x \in Serial, NEW i \in 1..Len(emitted), x < emitted[i]
                 PROVE  x \in Returned
      BY DEF Returned
    <2>1. i \in 1..Len(L) /\ emitted[i] = L[i] /\ L[i] \in 1..Base /\ L[i] \in Nat
      BY <1>1 DEF RowsMeaning
    <2>2. x \in Nat /\ x >= 1 /\ input[x] = "pass" BY <1>2 DEF Serial
    <2>3. x \in 1..Base BY <1>1, <2>1, <2>2 DEF RowsMeaning
    <2>4. x \in NotDropped(Base) BY <2>2, <2>3 DEF NotDropped
    <2>5. PICK k \in 1..Len(L) : L[k] = x BY <1>1, <2>4 DEF RowsMeaning
    <2>6. k < i
      <3> SUFFICES ASSUME ~(k < i) PROVE FALSE
        OBVIOUS
      <3>1. k = i \/ i < k BY <2>1, <1>1 DEF RowsMeaning
      <3>2. L[i] < L[k] \/ k = i BY <3>1, <2>1, <1>1 DEF RowsMeaning
      <3> QED BY <3>2, <2>1, <2>2, <2>5
    <2>7. k \in 1..Len(emitted) BY <2>1, <2>6, <1>1 DEF RowsMeaning
    <2>8. emitted[k] = x BY <2>5, <2>7, <1>1 DEF RowsMeaning
    <2> QED BY <2>7, <2>8 DEF Returned
  <1>4. Lists(emitted, Returned) /\ Returned \subseteq Serial BY <1>1 DEF RowsMeaning
  <1>5. Begins(emitted, SerialRows) BY <1>2, <1>3, <1>4, ListPrefix
  <1>6. Len(SerialRows) \in Nat /\ SerialRows \in Seq(Serial)
    BY <1>2, ListFacts DEF Listed
  <1>7. Len(emitted) \in Nat BY DEF TypeInv
  <1> DEFINE n == Len(emitted)
  <1>8. SubSeq(emitted, 1, n) = [i \in 1..n |-> emitted[i]]
        /\ SubSeq(SerialRows, 1, n) = [i \in 1..n |-> SerialRows[i]]
    BY <1>5, <1>6, <1>7 DEF TypeInv, Begins
  <1>9. SubSeq(emitted, 1, n) = SubSeq(SerialRows, 1, n) BY <1>5, <1>8 DEF Begins
  <1> QED BY <1>5, <1>9 DEF IsPrefix, Begins

(* They are all of them when no row that passes is left before the end. *)
LEMMA ReturnedAll ==
  ASSUME TypeInv, BatchInv, NEW L, RowsInv(L), Serial \subseteq Returned
  PROVE  emitted = SerialRows
  <1>1. RowsMeaning(L) BY RowsFacts
  <1>2. Lists(SerialRows, Serial) /\ Serial \subseteq Nat BY SerialLists DEF TypeInv
  <1>3. Returned = Serial BY <1>1 DEF RowsMeaning
  <1>4. Lists(emitted, Serial) BY <1>1, <1>3 DEF RowsMeaning
  <1> QED BY <1>2, <1>4, ListUnique
-----------------------------------------------------------------------------
(* The steps of the filter.                                                *)

(* The first pending row that fails is the one where the serial filter     *)
(* fails.                                                                  *)
LEMMA FailsAtPending ==
  ASSUME TypeInv, InputInv, BatchInv, NEW L, RowsInv(L), phase = "next", pending # <<>>,
         Head(pending) = Error
  PROVE  emitted = SerialRows /\ SerialEnd <= Len(input)
  <1> DEFINE e == Len(emitted)
  <1>1. RowsMeaning(L) BY RowsFacts
  <1>2. /\ input \in Seq(Row) /\ Len(input) \in Nat /\ pos \in Nat /\ pos <= Len(input) /\ Base = pos
        /\ pending \in Seq(Nat) /\ Len(pending) \in Nat /\ Len(pending) >= 1
        /\ Head(pending) = pending[1] /\ inputError \in BOOLEAN
    BY DEF TypeInv, Base
  <1>3. /\ e \in Nat /\ Len(L) \in Nat /\ e <= Len(L)
        /\ Len(pending) = (Len(L) - e) + (IF inputError THEN 1 ELSE 0)
        /\ \A i \in 1..(Len(L) - e) :
             pending[i] = IF input[L[e + i]] = "pass" THEN L[e + i] ELSE Error
    BY <1>1 DEF RowsInv, RowsMeaning
  <1>4. ASSUME NEW p \in Nat, p >= 1, p <= Len(input), p <= pos + 1, Bad(p),
               \A k \in 1..Len(L) : L[k] < p => k <= e
        PROVE  emitted = SerialRows /\ SerialEnd <= Len(input)
    <2>1. ASSUME NEW j \in 1..(p - 1), input[j] # "drop"
          PROVE  j \in Returned /\ input[j] = "pass"
      <3>1. j \in 1..pos /\ j < p /\ j \in Nat BY <1>2, <1>4
      <3>2. j \in NotDropped(Base) BY <1>2, <2>1, <3>1 DEF NotDropped
      <3>3. PICK k \in 1..Len(L) : L[k] = j BY <1>1, <3>2 DEF RowsMeaning
      <3>4. k \in 1..e BY <1>3, <1>4, <3>1, <3>3
      <3>5. emitted[k] = j /\ input[j] = "pass" BY <1>1, <3>3, <3>4 DEF RowsMeaning
      <3> QED BY <3>4, <3>5 DEF Returned
    <2>2. \A j \in 1..(p - 1) : ~Bad(j) BY <2>1 DEF Bad
    <2>3. SerialEnd = p
      <3>1. p <= Len(input) + 1 BY <1>2, <1>4
      <3> QED BY <1>2, <1>4, <2>2, <3>1, SerialEndIs
    <2>4. Serial \subseteq Returned BY <2>1, <2>3 DEF Serial
    <2> QED BY <1>4, <2>3, <2>4, ReturnedAll
  <1>5. CASE e < Len(L)
    <2> DEFINE p == L[e + 1]
    <2>1. 1 \in 1..(Len(L) - e) /\ e + 1 \in 1..Len(L) BY <1>3, <1>5
    <2>2. p \in NotDropped(Base) /\ p \in Nat /\ p \in 1..Base BY <1>1, <2>1 DEF RowsMeaning
    <2>3. pending[1] = IF input[p] = "pass" THEN p ELSE Error BY <1>3, <2>1
    <2>4. input[p] # "pass"
      <3> SUFFICES ASSUME input[p] = "pass" PROVE FALSE
        OBVIOUS
      <3>1. p = Error BY <1>2, <2>3
      <3> QED BY <2>2, <3>1, <1>2 DEF Error
    <2>5. p >= 1 /\ p <= Len(input) /\ p <= pos + 1 BY <1>2, <2>2
    <2>6. Bad(p)
      <3>1. input[p] \in Row /\ input[p] # "drop" BY <1>2, <2>2, <2>5 DEF NotDropped
      <3> QED BY <2>4, <3>1 DEF Bad, Row
    <2>7. \A k \in 1..Len(L) : L[k] < p => k <= e
      <3> SUFFICES ASSUME NEW k \in 1..Len(L), L[k] < p, ~(k <= e) PROVE FALSE
        OBVIOUS
      <3>1. k = e + 1 \/ e + 1 < k BY <1>3
      <3>2. L[k] \in Nat BY <1>1 DEF RowsMeaning
      <3>3. k = e + 1 \/ p < L[k] BY <3>1, <2>1, <1>1 DEF RowsMeaning
      <3> QED BY <3>2, <3>3, <2>2
    <2> HIDE DEF p
    <2> QED BY <1>4, <2>2, <2>5, <2>6, <2>7
  <1>6. CASE ~(e < Len(L))
    <2>1. Len(L) = e /\ inputError BY <1>2, <1>3, <1>6
    <2>2. pos < Len(input) /\ input[pos + 1] = "fail" BY <2>1 DEF InputInv
    <2>3. Bad(pos + 1) BY <2>2 DEF Bad
    <2>4. \A k \in 1..Len(L) : L[k] < pos + 1 => k <= e BY <1>3, <2>1
    <2>5. pos + 1 \in Nat /\ pos + 1 >= 1 /\ pos + 1 <= Len(input) /\ pos + 1 <= pos + 1
      BY <1>2, <2>2
    <2> QED BY <1>4, <2>3, <2>4, <2>5
  <1> QED BY <1>5, <1>6

LEMMA ReturnPendingStep ==
  ASSUME IInv, ReturnPending
  PROVE  IInv'
  <1>1. TypeInv /\ InputInv /\ BatchInv BY DEF IInv
  <1>2. /\ result = "running" /\ phase = "next" /\ pending # <<>> /\ pending' = Tail(pending)
        /\ UNCHANGED <<input, workers, pos, exhausted, phase, batch, inputError, todo, state,
                       joined, failure, output, spawnFailed>>
    BY DEF ReturnPending
  <1>3. PICK L : RowsInv(L) BY <1>2 DEF IInv
  <1>4. PICK c \in Nat : WorkerInv(c) BY DEF IInv
  <1>5. RowsMeaning(L) BY <1>1, <1>3, RowsFacts
  <1> DEFINE e == Len(emitted)
  <1>6. /\ pending \in Seq(Nat) /\ Len(pending) \in Nat /\ Len(pending) >= 1
        /\ Head(pending) = pending[1] /\ pending[1] \in Nat /\ Tail(pending) \in Seq(Nat)
        /\ Len(Tail(pending)) = Len(pending) - 1
        /\ \A i \in 1..(Len(pending) - 1) : Tail(pending)[i] = pending[i + 1]
        /\ emitted \in Seq(Nat) /\ e \in Nat /\ inputError \in BOOLEAN
    BY <1>1, <1>2 DEF TypeInv
  <1>7. WorkerInv(c)'
    <2>1. Mapping' = Mapping /\ Size' = Size /\ Excused' = Excused
          /\ \A v \in Worker : Chunk(batch, v)' = Chunk(batch, v)
      BY <1>2 DEF Mapping, Size, ChunkSize, Excused, Chunk
    <2> QED BY <1>2, <1>4, <2>1 DEF WorkerInv
  <1>8. BatchInv' BY <1>2 DEF BatchInv
  <1>9. CASE Head(pending) = Error
    <2>1. result' = "error" /\ emitted' = emitted BY <1>9 DEF ReturnPending
    <2>2. emitted = SerialRows /\ SerialEnd <= Len(input)
      BY <1>1, <1>2, <1>3, <1>9, FailsAtPending
    <2>3. IsPrefix(emitted, SerialRows) BY <1>1, <1>3, ReturnedPrefix
    <2>4. SerialRows' = SerialRows /\ SerialEnd' = SerialEnd
      BY <1>2 DEF SerialRows, SerialEnd, Bad
    <2>5. SameAsSerial' BY <1>2, <2>1, <2>2, <2>3, <2>4 DEF SameAsSerial
    <2>6. TypeInv' BY <1>1, <1>2, <1>6, <2>1 DEF TypeInv
    <2>7. InputInv' BY <1>1, <1>2, <2>1 DEF InputInv
    <2> QED BY <1>7, <1>8, <2>1, <2>5, <2>6, <2>7 DEF IInv
  <1>10. CASE Head(pending) # Error
    <2>1. result' = result /\ emitted' = Append(emitted, pending[1])
      BY <1>6, <1>10 DEF ReturnPending
    <2>2. /\ e <= Len(L) /\ Len(L) \in Nat
          /\ Len(pending) = (Len(L) - e) + (IF inputError THEN 1 ELSE 0)
          /\ \A i \in 1..(Len(L) - e) :
               pending[i] = IF input[L[e + i]] = "pass" THEN L[e + i] ELSE Error
          /\ inputError => pending[(Len(L) - e) + 1] = Error
      BY <1>2, <1>3, <1>5 DEF RowsInv, RowsMeaning
    <2>3. e < Len(L)
      <3> SUFFICES ASSUME ~(e < Len(L)) PROVE FALSE
        OBVIOUS
      <3>1. Len(L) - e = 0 /\ inputError BY <1>6, <2>2
      <3> QED BY <1>6, <1>10, <2>2, <3>1
    <2>4. 1 \in 1..(Len(L) - e) /\ e + 1 \in 1..Len(L) BY <1>6, <2>2, <2>3
    <2>5. pending[1] = IF input[L[e + 1]] = "pass" THEN L[e + 1] ELSE Error BY <2>2, <2>4
    <2>6. input[L[e + 1]] = "pass" /\ pending[1] = L[e + 1] BY <1>6, <1>10, <2>5
    <2>7. /\ emitted' \in Seq(Nat) /\ Len(emitted') = e + 1 /\ emitted'[e + 1] = L[e + 1]
          /\ \A i \in 1..e : emitted'[i] = emitted[i]
      BY <1>6, <2>1, <2>6
    <2>8. TypeInv' BY <1>1, <1>2, <1>6, <2>1, <2>7 DEF TypeInv
    <2>9. InputInv' BY <1>1, <1>2, <2>1 DEF InputInv
    <2>10. RowsInv(L)'
      <3>1. Base' = Base /\ NotDropped(Base)' = NotDropped(Base)
        BY <1>2 DEF Base, NotDropped
      <3>2. Lists(L, NotDropped(Base)') BY <1>3, <3>1 DEF RowsInv
      <3>3. ASSUME NEW i \in 1..Len(emitted') PROVE input[L[i]] = "pass" /\ emitted'[i] = L[i]
        <4>1. CASE i = e + 1 BY <4>1, <2>6, <2>7
        <4>2. CASE i # e + 1
          <5>1. i \in 1..e BY <4>2, <1>6, <2>7
          <5> QED BY <5>1, <2>7, <1>3 DEF RowsInv
        <4> QED BY <4>1, <4>2
      <3>4. Len(emitted') <= Len(L) BY <1>6, <2>2, <2>3, <2>7
      <3>5. Len(pending') = (Len(L) - Len(emitted')) + (IF inputError THEN 1 ELSE 0)
        BY <1>2, <1>6, <2>2, <2>7
      <3>6. ASSUME NEW i \in 1..(Len(L) - Len(emitted'))
            PROVE  pending'[i] = IF input[L[Len(emitted') + i]] = "pass"
                                 THEN L[Len(emitted') + i] ELSE Error
        <4>1. i + 1 \in 1..(Len(L) - e) /\ i \in 1..(Len(pending) - 1)
              /\ e + (i + 1) = Len(emitted') + i
          BY <1>6, <2>2, <2>7
        <4>2. pending'[i] = pending[i + 1] BY <1>2, <1>6, <4>1
        <4> QED BY <2>2, <4>1, <4>2
      <3>7. inputError => pending'[(Len(L) - Len(emitted')) + 1] = Error
        <4> SUFFICES ASSUME inputError PROVE pending'[(Len(L) - Len(emitted')) + 1] = Error
          OBVIOUS
        <4>1. /\ (Len(L) - Len(emitted')) + 1 \in 1..(Len(pending) - 1)
              /\ ((Len(L) - Len(emitted')) + 1) + 1 = (Len(L) - e) + 1
          BY <1>6, <2>2, <2>3, <2>7
        <4> QED BY <1>2, <1>6, <2>2, <4>1
      <3> QED BY <1>2, <3>2, <3>3, <3>4, <3>5, <3>6, <3>7 DEF RowsInv
    <2> QED BY <1>2, <1>7, <1>8, <2>1, <2>8, <2>9, <2>10 DEF IInv
  <1> QED BY <1>9, <1>10

LEMMA ReturnNoneStep ==
  ASSUME IInv, ReturnNone
  PROVE  IInv'
  <1>1. TypeInv /\ InputInv /\ BatchInv BY DEF IInv
  <1>2. /\ result = "running" /\ phase = "next" /\ pending = <<>> /\ exhausted /\ result' = "ok"
        /\ UNCHANGED <<input, workers, pos, pending, exhausted, batch, inputError>>
        /\ UNCHANGED <<phase, todo, state, joined, failure, output, emitted, spawnFailed>>
    BY DEF ReturnNone, filter
  <1>3. PICK L : RowsInv(L) BY <1>2 DEF IInv
  <1>4. PICK c \in Nat : WorkerInv(c) BY DEF IInv
  <1>5. RowsMeaning(L) BY <1>1, <1>3, RowsFacts
  <1>6. /\ Len(emitted) \in Nat /\ Len(L) \in Nat /\ Len(emitted) <= Len(L)
        /\ Len(<<>>) = (Len(L) - Len(emitted)) + (IF inputError THEN 1 ELSE 0)
        /\ inputError \in BOOLEAN
    BY <1>1, <1>2, <1>3, <1>5 DEF RowsInv, RowsMeaning, TypeInv
  <1>7. Len(L) = Len(emitted) /\ ~inputError
    <2>1. Len(<<>>) = 0 OBVIOUS
    <2> QED BY <1>6, <2>1
  <1>8. pos = Len(input) /\ Base = pos /\ input \in Seq(Row) /\ Len(input) \in Nat
    BY <1>1, <1>2, <1>7 DEF InputInv, Base, TypeInv
  <1>9. ASSUME NEW j \in 1..Len(input), input[j] # "drop"
        PROVE  j \in Returned /\ input[j] = "pass"
    <2>1. j \in NotDropped(Base) BY <1>8, <1>9 DEF NotDropped
    <2>2. PICK k \in 1..Len(L) : L[k] = j BY <1>5, <2>1 DEF RowsMeaning
    <2>3. k \in 1..Len(emitted) BY <1>7
    <2>4. emitted[k] = j /\ input[j] = "pass" BY <1>5, <2>2, <2>3 DEF RowsMeaning
    <2> QED BY <2>3, <2>4 DEF Returned
  <1>10. SerialEnd = Len(input) + 1
    <2> DEFINE p == Len(input) + 1
    <2>1. /\ p \in Nat /\ p >= 1 /\ p <= Len(input) + 1 /\ ~(p <= Len(input))
          /\ 1..(p - 1) = 1..Len(input)
      BY <1>8
    <2>2. \A j \in 1..(p - 1) : ~Bad(j) BY <1>9, <2>1 DEF Bad
    <2> HIDE DEF p
    <2>3. SerialEnd = p BY <1>8, <2>1, <2>2, SerialEndIs
    <2> QED BY <2>3 DEF p
  <1>11. Serial \subseteq Returned
    <2>1. SerialEnd - 1 = Len(input) BY <1>8, <1>10
    <2> QED BY <1>9, <2>1 DEF Serial
  <1>12. emitted = SerialRows BY <1>1, <1>3, <1>11, ReturnedAll
  <1>13. IsPrefix(emitted, SerialRows) BY <1>1, <1>3, ReturnedPrefix
  <1>14. SerialRows' = SerialRows /\ SerialEnd' = SerialEnd
    BY <1>2 DEF SerialRows, SerialEnd, Bad
  <1>15. SerialEnd > Len(input) BY <1>8, <1>10
  <1>16. SameAsSerial' BY <1>2, <1>12, <1>13, <1>14, <1>15 DEF SameAsSerial
  <1>17. TypeInv' /\ InputInv' /\ BatchInv' BY <1>1, <1>2 DEF TypeInv, InputInv, BatchInv
  <1>18. WorkerInv(c)'
    <2>1. Mapping' = Mapping /\ Size' = Size /\ Excused' = Excused
          /\ \A v \in Worker : Chunk(batch, v)' = Chunk(batch, v)
      BY <1>2 DEF Mapping, Size, ChunkSize, Excused, Chunk
    <2> QED BY <1>2, <1>4, <2>1 DEF WorkerInv
  <1> QED BY <1>2, <1>16, <1>17, <1>18 DEF IInv

(* The rows of a new batch: up to the first error of the input. *)
LEMMA PulledFacts ==
  ASSUME TypeInv
  PROVE  \E n \in 0..BATCH_SIZE :
           /\ Pulled = [i \in 1..n |-> pos + i] /\ pos + n <= Len(input)
           /\ \A i \in (pos + 1)..(pos + n) : input[i] # "fail"
           /\ n < BATCH_SIZE /\ pos + n < Len(input) => input[pos + n + 1] = "fail"
  <1> DEFINE I == {i \in (pos + 1)..Len(input) : input[i] = "fail"}
             upTo == IF I # {} THEN Min(I) ELSE 0
             end == IF upTo = 0 THEN Len(input) ELSE upTo - 1
             n == IF end - pos < BATCH_SIZE THEN end - pos ELSE BATCH_SIZE
  <1>1. /\ pos \in Nat /\ Len(input) \in Nat /\ pos <= Len(input)
        /\ BATCH_SIZE \in Nat /\ BATCH_SIZE >= 1
    BY FilterAssumption DEF TypeInv
  <1>2. Pulled = [i \in 1..n |-> pos + i] BY DEF Pulled, SelectInSubSeq
  <1>3. /\ end \in Nat /\ pos <= end /\ end <= Len(input)
        /\ \A i \in (pos + 1)..end : input[i] # "fail"
        /\ end < Len(input) => input[end + 1] = "fail"
    <2>1. CASE I = {}
      <3>1. end = Len(input) BY <2>1
      <3> QED BY <1>1, <2>1, <3>1
    <2>2. CASE I # {}
      <3>1. I \subseteq Nat BY <1>1
      <3>2. PICK x \in I : \A y \in I : x <= y BY <2>2, <3>1, NatMin
      <3>3. Min(I) \in I /\ \A y \in I : Min(I) <= y BY <3>2 DEF Min
      <3>4. Min(I) \in (pos + 1)..Len(input) /\ input[Min(I)] = "fail" BY <3>3
      <3> HIDE DEF I
      <3>5. upTo = Min(I) /\ upTo # 0 /\ end = Min(I) - 1 BY <1>1, <2>2, <3>4
      <3>6. \A i \in (pos + 1)..end : input[i] # "fail"
        <4> SUFFICES ASSUME NEW i \in (pos + 1)..end, input[i] = "fail" PROVE FALSE
          OBVIOUS
        <4>1. i \in (pos + 1)..Len(input) /\ ~(Min(I) <= i) BY <1>1, <3>4, <3>5
        <4>2. i \in I BY <4>1 DEF I
        <4> QED BY <3>3, <4>1, <4>2
      <3>7. end + 1 = Min(I) /\ end \in Nat /\ pos <= end /\ end <= Len(input)
        BY <1>1, <3>4, <3>5
      <3> QED BY <3>4, <3>6, <3>7
    <2> QED BY <2>1, <2>2
  <1> HIDE DEF I, upTo, end
  <1>4. n \in 0..BATCH_SIZE /\ pos + n <= end /\ (n < BATCH_SIZE => pos + n = end)
    BY <1>1, <1>3
  <1> HIDE DEF n
  <1>5. n \in Nat /\ pos + n <= Len(input) BY <1>1, <1>3, <1>4
  <1>6. \A i \in (pos + 1)..(pos + n) : input[i] # "fail" BY <1>1, <1>3, <1>4, <1>5
  <1>7. n < BATCH_SIZE /\ pos + n < Len(input) => input[pos + n + 1] = "fail"
    BY <1>3, <1>4
  <1> QED BY <1>2, <1>4, <1>5, <1>6, <1>7

LEMMA PullStep ==
  ASSUME IInv, Pull
  PROVE  IInv'
  <1>1. TypeInv /\ InputInv /\ BatchInv BY DEF IInv
  <1>2. /\ result = "running" /\ phase = "next" /\ pending = <<>> /\ exhausted = FALSE
        /\ batch' = Pulled /\ pos' = pos + Len(Pulled)
        /\ exhausted' = (Len(Pulled) < BATCH_SIZE)
        /\ inputError' = (Len(Pulled) < BATCH_SIZE /\ pos' < Len(input))
        /\ todo' = [w \in Worker |-> IF batch' = <<>> THEN <<>> ELSE Chunk(batch', w)]
        /\ joined' = 0 /\ failure' = FALSE /\ output' = <<>>
        /\ phase' = IF Len(batch') <= 1 THEN "inline" ELSE "spawn"
        /\ UNCHANGED <<input, workers, pending, state, emitted, result, spawnFailed>>
    BY <1>1 DEF Pull, TypeInv
  <1>3. PICK L : RowsInv(L) BY <1>2 DEF IInv
  <1>4. PICK c \in Nat : WorkerInv(c) BY DEF IInv
  <1>5. RowsMeaning(L) BY <1>1, <1>3, RowsFacts
  <1>6. PICK n \in 0..BATCH_SIZE :
          /\ Pulled = [i \in 1..n |-> pos + i] /\ pos + n <= Len(input)
          /\ \A i \in (pos + 1)..(pos + n) : input[i] # "fail"
          /\ n < BATCH_SIZE /\ pos + n < Len(input) => input[pos + n + 1] = "fail"
    BY <1>1, PulledFacts
  <1>7. /\ BATCH_SIZE \in Nat /\ n \in Nat /\ n <= BATCH_SIZE /\ pos \in Nat /\ Len(input) \in Nat
    BY <1>1, FilterAssumption DEF TypeInv
  <1>8. /\ batch' \in Seq(1..Len(input)) /\ Len(batch') = n
        /\ \A i \in 1..n : batch'[i] = pos + i
    <2>1. \A i \in 1..n : pos + i \in 1..Len(input) BY <1>6, <1>7
    <2>2. Pulled \in Seq(1..Len(input)) BY <1>6, <1>7, <2>1
    <2>3. DOMAIN Pulled = 1..n BY <1>6
    <2>4. Len(Pulled) = n BY <1>7, <2>2, <2>3, LenProperties
    <2> QED BY <1>2, <1>6, <2>2, <2>4
  <1>9. pos' = pos + n /\ pos' \in 0..Len(input) /\ Len(Pulled) = n BY <1>2, <1>6, <1>7, <1>8
  <1>10. exhausted' = (n < BATCH_SIZE) /\ inputError' = (n < BATCH_SIZE /\ pos + n < Len(input))
    BY <1>2, <1>9
  <1>11. \A w \in Worker : Chunk(batch, w)' = Chunk(batch', w)
    BY <1>2 DEF Chunk, ChunkSize
  <1>12. TypeInv'
    <2>1. todo' \in [Worker -> Seq(1..Len(input))]
      <3> DEFINE chunk(w) == IF batch' = <<>> THEN <<>> ELSE Chunk(batch', w)
      <3>1. ASSUME NEW w \in Worker PROVE chunk(w) \in Seq(1..Len(input))
        <4>1. CASE batch' = <<>> BY <4>1
        <4>2. CASE batch' # <<>>
          <5>1. Len(batch') >= 1 BY <1>7, <1>8, <4>2
          <5>2. w \in Nat /\ w >= 1 BY <1>7 DEF Worker
          <5>3. workers \in Nat \ {0, 1} BY <1>1 DEF TypeInv
          <5>4. Chunk(batch', w) \in Seq(1..Len(input)) BY <1>8, <5>1, <5>2, <5>3, Chunks
          <5> QED BY <4>2, <5>4
        <4> QED BY <4>1, <4>2
      <3>2. todo' = [w \in Worker |-> chunk(w)] BY <1>2
      <3> HIDE DEF chunk
      <3> QED BY <3>1, <3>2
    <2>2. <<>> \in Seq(1..Len(input)) /\ 0 \in 0..BATCH_SIZE BY <1>7
    <2>3. exhausted' \in BOOLEAN /\ inputError' \in BOOLEAN BY <1>10
    <2>4. phase' \in {"inline", "spawn"} BY <1>2
    <2> QED BY <1>1, <1>2, <1>8, <1>9, <2>1, <2>2, <2>3, <2>4 DEF TypeInv
  <1>13. InputInv'
    <2>1. ASSUME NEW i \in 1..pos' PROVE input[i] # "fail"
      <3>1. CASE i <= pos
        <4>1. i \in 1..pos BY <3>1, <1>7, <1>9
        <4> QED BY <4>1, <1>1 DEF InputInv
      <3>2. CASE ~(i <= pos)
        <4>1. i \in (pos + 1)..(pos + n) BY <3>2, <1>7, <1>9
        <4> QED BY <4>1, <1>6
      <3> QED BY <3>1, <3>2
    <2>2. inputError' => exhausted' /\ pos' < Len(input) /\ input[pos' + 1] = "fail"
      BY <1>6, <1>9, <1>10
    <2>3. exhausted' /\ ~inputError' => pos' = Len(input)
      <3> SUFFICES ASSUME n < BATCH_SIZE, ~(pos + n < Len(input)) PROVE pos' = Len(input)
        BY <1>10
      <3> QED BY <1>6, <1>7, <1>9
    <2> QED BY <1>2, <2>1, <2>2, <2>3 DEF InputInv
  <1>14. BatchInv'
    <2>1. pos' - Len(batch') = pos /\ Len(batch') <= BATCH_SIZE /\ Len(batch') <= pos'
      BY <1>7, <1>8, <1>9
    <2>2. phase' # "inline" => Len(batch') >= 2 BY <1>2, <1>7, <1>8
    <2> QED BY <1>2, <1>8, <2>1, <2>2 DEF BatchInv
  <1>15. WorkerInv(0)'
    <2>1. ~Mapping BY <1>2 DEF Mapping
    <2>2. \A w \in Worker : state'[w] = "none" /\ w > 0 /\ ~(w <= 0)
      <3>1. c = 0 BY <1>4, <2>1 DEF WorkerInv
      <3>2. \A w \in Worker : w > 0 /\ ~(w <= 0) BY <1>7 DEF Worker
      <3> QED BY <1>2, <1>4, <3>1, <3>2 DEF WorkerInv
    <2>3. phase' # "join" /\ 0 \in 0..BATCH_SIZE BY <1>2, <1>7
    <2>4. Mapping' => \A w \in Worker : todo'[w] = Chunk(batch, w)'
      <3> SUFFICES ASSUME Mapping', NEW w \in Worker PROVE todo'[w] = Chunk(batch', w)
        BY <1>11
      <3>1. phase' = "spawn" BY <1>2 DEF Mapping
      <3>2. ~(Len(batch') <= 1) BY <1>2, <3>1
      <3>3. batch' # <<>>
        <4>1. Len(<<>>) = 0 OBVIOUS
        <4> QED BY <3>2, <4>1
      <3> QED BY <1>2, <3>3
    <2>5. Mapping' => Len(output') = Min2(joined' * Size', Len(batch'))
      <3> SUFFICES ASSUME Mapping' PROVE Len(output') = Min2(joined' * Size', Len(batch'))
        OBVIOUS
      <3>1. phase' = "spawn" BY <1>2 DEF Mapping
      <3>2. n >= 1 BY <1>2, <1>7, <1>8, <3>1
      <3>3. Size' \in Nat
        <4>1. workers \in Nat \ {0, 1} BY <1>1 DEF TypeInv
        <4>2. ChunkSize(n) \in Nat BY <1>7, <3>2, <4>1, ChunkSizePositive
        <4>3. Size' = ChunkSize(n) BY <1>2, <1>8 DEF Size, ChunkSize
        <4> QED BY <4>2, <4>3
      <3>4. joined' * Size' = 0
        <4>1. PICK z \in Nat : z = Size' BY <3>3
        <4>2. 0 * z = 0 OBVIOUS
        <4> QED BY <1>2, <4>1, <4>2
      <3>5. Min2(0, n) = 0 BY <1>7, <3>2 DEF Min2
      <3>6. Len(<<>>) = 0 OBVIOUS
      <3> QED BY <1>2, <1>8, <3>4, <3>5, <3>6
    <2>6. \A i \in 1..Len(output') : output'[i] = batch'[i] BY <1>2
    <2> QED BY <1>2, <2>2, <2>3, <2>4, <2>5, <2>6 DEF WorkerInv
  <1>16. RowsInv(L)'
    <2>1. Base' = Base
      <3>1. pos' - Len(batch') = pos BY <1>7, <1>8, <1>9
      <3>2. phase' # "next" BY <1>2
      <3> QED BY <1>2, <3>1, <3>2 DEF Base
    <2>2. NotDropped(Base)' = NotDropped(Base) BY <1>2, <2>1 DEF NotDropped
    <2>3. Len(emitted) = Len(L)
      <3>1. /\ Len(emitted) \in Nat /\ Len(L) \in Nat /\ Len(emitted) <= Len(L)
            /\ Len(<<>>) = (Len(L) - Len(emitted)) + (IF inputError THEN 1 ELSE 0)
        BY <1>2, <1>3, <1>5 DEF RowsInv, RowsMeaning
      <3>2. Len(<<>>) = 0 OBVIOUS
      <3> QED BY <3>1, <3>2
    <2>4. phase' # "next" BY <1>2
    <2> QED BY <1>2, <1>3, <2>2, <2>3, <2>4 DEF RowsInv
  <1> QED BY <1>2, <1>12, <1>13, <1>14, <1>15, <1>16 DEF IInv

(* The places in the batch of the rows that are not dropped. *)
Keep == {k \in 1..Len(batch) : input[batch[k]] # "drop"}

(* What next makes of a batch whose decisions are in the order of its rows. *)
DecidedAs(d, K) ==
  /\ d \in Seq(Nat) /\ Len(d) = Len(K)
  /\ \A i \in 1..Len(K) : d[i] = IF input[batch[K[i]]] = "pass" THEN batch[K[i]] ELSE Error

LEMMA DecidedRows ==
  ASSUME TypeInv
  PROVE  \E K : Lists(K, Keep) /\ DecidedAs(Decided(batch), K)
  <1>1. Len(batch) \in Nat /\ batch \in Seq(1..Len(input)) BY DEF TypeInv
  <1>2. Min2(Len(batch), Len(batch)) = Len(batch) BY <1>1 DEF Min2
  <1>3. PICK K : K = Ascending(Keep) OBVIOUS
  <1>4. Keep \subseteq 1..Len(batch) BY DEF Keep
  <1>5. Lists(K, Keep) BY <1>1, <1>3, <1>4, AscendingLists
  <1>6. Keep \subseteq Nat BY <1>1, <1>4
  <1>7. Listed(K, Keep) BY <1>5, <1>6, ListFacts
  <1>8. K \in Seq(Keep) /\ Len(K) \in Nat /\ \A i \in 1..Len(K) : K[i] \in 1..Len(batch)
    BY <1>4, <1>7 DEF Listed
  <1>9. DOMAIN K = 1..Len(K) BY <1>8, LenProperties
  <1> DEFINE v(i) == IF input[batch[K[i]]] = "pass" THEN batch[K[i]] ELSE Error
             d == [i \in 1..Len(K) |-> v(i)]
  <1>10. Decided(batch) = d BY <1>2, <1>3, <1>9 DEF Decided, Keep
  <1>11. ASSUME NEW i \in 1..Len(K) PROVE v(i) \in Nat
    <2>1. batch[K[i]] \in 1..Len(input) BY <1>1, <1>8, ElementOfSeq
    <2> QED BY <2>1 DEF Error
  <1> HIDE DEF v
  <1>12. d \in Seq(Nat) BY <1>8, <1>11
  <1>13. Len(d) = Len(K) BY <1>8, <1>12, LenProperties
  <1>14. \A i \in 1..Len(K) : d[i] = v(i) OBVIOUS
  <1> QED BY <1>5, <1>10, <1>12, <1>13, <1>14 DEF DecidedAs, v

(* The rows kept of the batch come behind the ones before it. *)
LEMMA RowsBehind ==
  ASSUME TypeInv, BatchInv, phase # "next", NEW L, RowsInv(L), NEW K, Lists(K, Keep)
  PROVE  \E M : /\ Lists(M, NotDropped(pos)) /\ Len(M) = Len(L) + Len(K)
                /\ \A i \in 1..Len(L) : M[i] = L[i]
                /\ \A i \in 1..Len(K) : M[Len(L) + i] = batch[K[i]]
  <1>1. RowsMeaning(L) BY RowsFacts
  <1>2. /\ Len(batch) \in Nat /\ pos \in Nat /\ Len(batch) <= pos /\ Base = pos - Len(batch)
        /\ \A k \in 1..Len(batch) : batch[k] = (pos - Len(batch)) + k
    BY DEF TypeInv, BatchInv, Base
  <1>3. PICK b \in Nat : b = Base BY <1>1 DEF RowsMeaning
  <1>4. Base = b /\ pos = b + Len(batch) /\ \A k \in 1..Len(batch) : batch[k] = b + k
    BY <1>2, <1>3
  <1>5. PICK l \in Nat : l = Len(L) BY <1>1 DEF RowsMeaning
  <1>6. /\ \A i \in 1..l : L[i] \in NotDropped(b) /\ L[i] \in Nat /\ L[i] \in 1..b
        /\ \A i, j \in 1..l : i < j => L[i] < L[j]
        /\ \A x \in NotDropped(b) : \E i \in 1..l : L[i] = x
    BY <1>1, <1>4, <1>5 DEF RowsMeaning
  <1>7. Listed(K, Keep)
    <2>1. Keep \subseteq Nat BY <1>2 DEF Keep
    <2> QED BY <2>1, ListFacts
  <1>8. PICK n \in Nat : n = Len(K) BY <1>7 DEF Listed
  <1>9. /\ \A i \in 1..n : K[i] \in Keep /\ K[i] \in Nat
        /\ \A i, j \in 1..n : i < j => K[i] < K[j]
        /\ \A x \in Keep : \E i \in 1..n : K[i] = x
    BY <1>7, <1>8 DEF Listed
  <1>10. \A i \in 1..n : K[i] \in 1..Len(batch) /\ input[b + K[i]] # "drop" /\ batch[K[i]] = b + K[i]
    BY <1>4, <1>9 DEF Keep
  <1>11. PICK M : M = [i \in 1..(l + n) |-> IF i <= l THEN L[i] ELSE b + K[i - l]] OBVIOUS
  <1>12. ASSUME NEW i \in 1..l PROVE M[i] = L[i] /\ i \in 1..(l + n) BY <1>11
  <1>13. ASSUME NEW i \in 1..n PROVE M[l + i] = b + K[i] /\ l + i \in 1..(l + n)
    <2>1. l + i \in 1..(l + n) /\ ~(l + i <= l) /\ (l + i) - l = i OBVIOUS
    <2> QED BY <1>11, <2>1
  <1>14. ASSUME NEW i \in 1..(l + n) PROVE i \in 1..l \/ \E k \in 1..n : i = l + k
    <2>1. CASE i <= l BY <2>1
    <2>2. CASE ~(i <= l)
      <3>1. i - l \in 1..n /\ i = l + (i - l) BY <2>2
      <3> QED BY <3>1
    <2> QED BY <2>1, <2>2
  <1>15. \A i \in 1..(l + n) : M[i] \in NotDropped(pos)
    <2>1. ASSUME NEW i \in 1..l PROVE M[i] \in NotDropped(pos)
      <3>1. M[i] = L[i] /\ L[i] \in NotDropped(b) /\ L[i] \in 1..b BY <1>6, <1>12
      <3>2. L[i] \in 1..pos BY <1>2, <1>4, <3>1
      <3> QED BY <3>1, <3>2 DEF NotDropped
    <2>2. ASSUME NEW i \in 1..n PROVE M[l + i] \in NotDropped(pos)
      <3>1. K[i] \in 1..Len(batch) /\ input[b + K[i]] # "drop" BY <1>10
      <3>2. b + K[i] \in 1..pos BY <1>2, <1>4, <3>1
      <3> QED BY <1>13, <3>1, <3>2 DEF NotDropped
    <2> QED BY <1>14, <2>1, <2>2
  <1>16. M \in Seq(NotDropped(pos)) /\ Len(M) = l + n
    <2>1. l + n \in Nat /\ DOMAIN M = 1..(l + n) BY <1>11
    <2>2. M = [i \in 1..(l + n) |-> M[i]] BY <1>11
    <2>3. M \in Seq(NotDropped(pos)) BY <1>15, <2>1, <2>2
    <2> QED BY <2>1, <2>3, LenProperties
  <1>17. \A i, j \in 1..(l + n) : i < j => M[i] < M[j]
    <2> SUFFICES ASSUME NEW i \in 1..(l + n), NEW j \in 1..(l + n), i < j PROVE M[i] < M[j]
      OBVIOUS
    <2>1. CASE j \in 1..l
      <3>1. i \in 1..l BY <2>1
      <3> QED BY <1>6, <1>12, <2>1, <3>1
    <2>2. CASE ~(j \in 1..l)
      <3>1. PICK q \in 1..n : j = l + q BY <1>14, <2>2
      <3>2. M[j] = b + K[q] /\ K[q] \in 1..Len(batch) /\ K[q] \in Nat BY <1>9, <1>10, <1>13, <3>1
      <3>3. CASE i \in 1..l
        <4>1. M[i] = L[i] /\ L[i] \in 1..b BY <1>6, <1>12, <3>3
        <4>2. K[q] >= 1 BY <1>2, <3>2
        <4> QED BY <3>2, <4>1, <4>2
      <3>4. CASE ~(i \in 1..l)
        <4>1. PICK p \in 1..n : i = l + p BY <1>14, <3>4
        <4>2. p < q BY <3>1, <4>1
        <4>3. M[i] = b + K[p] /\ K[p] \in Nat /\ K[p] < K[q] BY <1>9, <1>13, <4>1, <4>2
        <4> QED BY <3>2, <4>3
      <3> QED BY <3>3, <3>4
    <2> QED BY <2>1, <2>2
  <1>18. \A x \in NotDropped(pos) : \E i \in 1..(l + n) : M[i] = x
    <2> SUFFICES ASSUME NEW x \in NotDropped(pos) PROVE \E i \in 1..(l + n) : M[i] = x
      OBVIOUS
    <2>1. x \in 1..pos /\ input[x] # "drop" BY DEF NotDropped
    <2>2. CASE x <= b
      <3>1. x \in 1..b BY <1>2, <2>1, <2>2
      <3>2. x \in NotDropped(b) BY <2>1, <3>1 DEF NotDropped
      <3>3. PICK i \in 1..l : L[i] = x BY <1>6, <3>2
      <3> QED BY <1>12, <3>3
    <2>3. CASE ~(x <= b)
      <3>1. PICK k \in 1..Len(batch) : x = b + k
        <4>1. x - b \in 1..Len(batch) /\ x = b + (x - b) BY <1>2, <1>4, <2>1, <2>3
        <4> QED BY <4>1
      <3>2. k \in Keep BY <1>4, <2>1, <3>1 DEF Keep
      <3>3. PICK i \in 1..n : K[i] = k BY <1>9, <3>2
      <3>4. M[l + i] = x /\ l + i \in 1..(l + n) BY <1>13, <3>1, <3>3
      <3> QED BY <3>4
    <2> QED BY <2>2, <2>3
  <1>19. Lists(M, NotDropped(pos)) BY <1>16, <1>17, <1>18 DEF Lists
  <1> QED BY <1>5, <1>8, <1>10, <1>12, <1>13, <1>16, <1>19

(* j is d followed by e. *)
JoinOf(j, d, e) ==
  /\ Len(j) = Len(d) + Len(e)
  /\ \A i \in 1..Len(d) : j[i] = d[i]
  /\ \A i \in 1..Len(e) : j[Len(d) + i] = e[i]

LEMMA Joined ==
  ASSUME NEW S, NEW d \in Seq(S), NEW e \in Seq(S)
  PROVE  d \o e \in Seq(S) /\ JoinOf(d \o e, d, e)
  <1>1. Len(d) \in Nat /\ Len(e) \in Nat OBVIOUS
  <1>2. d \o e \in Seq(S) /\ Len(d \o e) = Len(d) + Len(e) OBVIOUS
  <1>3. \A i \in 1..Len(d) : (d \o e)[i] = d[i] OBVIOUS
  <1>4. \A i \in 1..Len(e) : (d \o e)[Len(d) + i] = e[i] BY <1>1
  <1> QED BY <1>2, <1>3, <1>4 DEF JoinOf

(* ordered_map has answered and the batch becomes pending. *)
LEMMA Pushed ==
  ASSUME TypeInv, BatchInv, phase # "next", phase' = "next", NEW L, RowsInv(L), Push(batch),
         UNCHANGED <<input, pos, batch, inputError, emitted>>
  PROVE  pending' \in Seq(Nat) /\ \E M : RowsInv(M)'
  <1>1. PICK K : Lists(K, Keep) /\ DecidedAs(Decided(batch), K) BY DecidedRows
  <1>2. PICK M : /\ Lists(M, NotDropped(pos)) /\ Len(M) = Len(L) + Len(K)
                 /\ \A i \in 1..Len(L) : M[i] = L[i]
                 /\ \A i \in 1..Len(K) : M[Len(L) + i] = batch[K[i]]
    BY <1>1, RowsBehind
  <1>3. RowsMeaning(L) BY RowsFacts
  <1>4. PICK d : d = Decided(batch) OBVIOUS
  <1>5. PICK e : e = IF inputError THEN <<Error>> ELSE <<>> OBVIOUS
  <1>6. pending' = d \o e BY <1>4, <1>5 DEF Push
  <1>7. d \in Seq(Nat) /\ Len(d) = Len(K) /\ Len(d) \in Nat BY <1>1, <1>4 DEF DecidedAs
  <1>8. /\ e \in Seq(Nat) /\ Len(e) = (IF inputError THEN 1 ELSE 0)
        /\ inputError => e[1] = Error
    BY <1>5 DEF Error
  <1>9. /\ pending' \in Seq(Nat) /\ Len(pending') = Len(d) + Len(e)
        /\ \A i \in 1..Len(d) : pending'[i] = d[i]
        /\ \A i \in 1..Len(e) : pending'[Len(d) + i] = e[i]
    <2>1. d \in Seq(Nat) /\ e \in Seq(Nat) BY <1>7, <1>8
    <2>2. d \o e \in Seq(Nat) /\ JoinOf(d \o e, d, e) BY <2>1, Joined
    <2>3. pending' \in Seq(Nat) /\ JoinOf(pending', d, e) BY <1>6, <2>2
    <2> QED BY <2>3 DEF JoinOf
  <1>10. Len(emitted) = Len(L) /\ Len(L) \in Nat BY <1>3 DEF RowsInv, RowsMeaning
  <1>11. Len(M) - Len(emitted) = Len(d) /\ Len(emitted) <= Len(M) BY <1>2, <1>7, <1>10
  <1>12. Base' = pos /\ NotDropped(Base)' = NotDropped(pos) BY DEF Base, NotDropped
  <1>13. \A i \in 1..Len(emitted) : input[M[i]] = "pass" /\ emitted[i] = M[i]
    BY <1>2, <1>10 DEF RowsInv
  <1>14. ASSUME NEW i \in 1..Len(d)
         PROVE  pending'[i] = IF input[M[Len(emitted) + i]] = "pass"
                              THEN M[Len(emitted) + i] ELSE Error
    <2>1. i \in 1..Len(K) BY <1>7
    <2>2. pending'[i] = IF input[batch[K[i]]] = "pass" THEN batch[K[i]] ELSE Error
      BY <1>1, <1>4, <1>9, <2>1 DEF DecidedAs
    <2>3. M[Len(emitted) + i] = batch[K[i]] BY <1>2, <1>10, <2>1
    <2> QED BY <2>2, <2>3
  <1>15. inputError => pending'[Len(d) + 1] = Error
    <2> SUFFICES ASSUME inputError PROVE pending'[Len(d) + 1] = Error
      OBVIOUS
    <2>1. 1 \in 1..Len(e) BY <1>8
    <2> QED BY <1>8, <1>9, <2>1
  <1>16. Len(pending') = Len(d) + (IF inputError THEN 1 ELSE 0) BY <1>8, <1>9
  <1>17. RowsInv(M)'
    <2>1. Lists(M, NotDropped(Base)') BY <1>2, <1>12
    <2> QED BY <1>11, <1>13, <1>14, <1>15, <1>16, <2>1 DEF RowsInv
  <1> QED BY <1>9, <1>17

(* The step to the end of a batch, but for how its threads are left. *)
LEMMA BatchDone ==
  ASSUME IInv, phase # "next", phase' = "next", Push(batch), result' = result,
         UNCHANGED <<input, workers, pos, exhausted, batch, inputError, emitted, todo, joined,
                     failure, output, spawnFailed>>,
         state' \in [Worker -> {"none", "running", "finished", "panicked", "joined"}],
         WorkerInv(0)'
  PROVE  IInv'
  <1>1. TypeInv /\ InputInv /\ BatchInv BY DEF IInv
  <1>2. result = "running" BY <1>1 DEF BatchInv
  <1>3. PICK L : RowsInv(L) BY <1>2 DEF IInv
  <1>4. pending' \in Seq(Nat) /\ \E M : RowsInv(M)' BY <1>1, <1>3, Pushed
  <1>5. TypeInv' BY <1>1, <1>4 DEF TypeInv
  <1>6. InputInv' BY <1>1 DEF InputInv
  <1>7. BatchInv' BY DEF BatchInv
  <1> QED BY <1>2, <1>4, <1>5, <1>6, <1>7 DEF IInv

(* A panic, or a thread that did not start, ends the query early. *)
LEMMA BatchLost ==
  ASSUME IInv, phase # "next", phase' = "next", result' \in {"error", "panic"}, Excused,
         UNCHANGED <<input, workers, pos, pending, batch, inputError, emitted, todo, joined,
                     failure, output, spawnFailed>>,
         exhausted' \in BOOLEAN, exhausted => exhausted',
         state' \in [Worker -> {"none", "running", "finished", "panicked", "joined"}],
         WorkerInv(0)'
  PROVE  IInv'
  <1>1. TypeInv /\ InputInv /\ BatchInv BY DEF IInv
  <1>2. result = "running" BY <1>1 DEF BatchInv
  <1>3. PICK L : RowsInv(L) BY <1>2 DEF IInv
  <1>4. IsPrefix(emitted, SerialRows) BY <1>1, <1>3, ReturnedPrefix
  <1>5. SerialRows' = SerialRows BY DEF SerialRows, SerialEnd, Bad
  <1>6. SameAsSerial' BY <1>4, <1>5 DEF SameAsSerial, Excused
  <1>7. TypeInv' BY <1>1 DEF TypeInv
  <1>8. InputInv' BY <1>1 DEF InputInv
  <1>9. BatchInv' BY DEF BatchInv
  <1> QED BY <1>6, <1>7, <1>8, <1>9 DEF IInv

(* Without threads the workers' invariant says that there are none. *)
LEMMA NoThreads ==
  ASSUME BATCH_SIZE \in Nat, phase' = "next", \A w \in Worker : state'[w] = "none"
  PROVE  WorkerInv(0)'
  <1>1. \A w \in Worker : w > 0 BY DEF Worker
  <1>2. ~Mapping' BY DEF Mapping
  <1> QED BY <1>1, <1>2 DEF WorkerInv

LEMMA MapInlineStep ==
  ASSUME IInv, MapInline
  PROVE  IInv'
  <1>1. TypeInv /\ BatchInv BY DEF IInv
  <1>2. /\ phase = "inline" /\ phase' = "next"
        /\ UNCHANGED <<input, workers, pos, exhausted, batch, inputError, todo, state, joined,
                       failure, output, emitted, spawnFailed>>
    BY DEF MapInline
  <1>3. PICK c \in Nat : WorkerInv(c) BY DEF IInv
  <1>4. BATCH_SIZE \in Nat BY FilterAssumption
  <1>5. \A w \in Worker : state'[w] = "none"
    <2>1. ~Mapping BY <1>2 DEF Mapping
    <2>2. c = 0 BY <1>3, <2>1 DEF WorkerInv
    <2>3. \A w \in Worker : w > 0 BY <1>4 DEF Worker
    <2> QED BY <1>2, <1>3, <2>2, <2>3 DEF WorkerInv
  <1>6. WorkerInv(0)' BY <1>2, <1>4, <1>5, NoThreads
  <1>7. state' \in [Worker -> {"none", "running", "finished", "panicked", "joined"}]
    BY <1>1, <1>2 DEF TypeInv
  <1>8. CASE \E i \in ToSet(batch) : input[i] = "panic"
    <2>1. result' = "panic" /\ pending' = pending BY <1>8 DEF MapInline
    <2>2. batch \in Seq(1..Len(input)) /\ DOMAIN input = 1..Len(input) BY <1>1 DEF TypeInv
    <2>3. \A i \in ToSet(batch) : i \in 1..Len(input)
      <3>1. \A k \in 1..Len(batch) : batch[k] \in 1..Len(input) BY <2>2, ElementOfSeq
      <3>2. DOMAIN batch = 1..Len(batch) BY <2>2, LenProperties
      <3> QED BY <3>1, <3>2 DEF ToSet
    <2>4. Excused BY <1>8, <2>2, <2>3 DEF Excused
    <2>5. exhausted' \in BOOLEAN /\ (exhausted => exhausted') BY <1>1, <1>2 DEF TypeInv
    <2> QED BY <1>2, <1>6, <1>7, <2>1, <2>4, <2>5, BatchLost
  <1>9. CASE ~\E i \in ToSet(batch) : input[i] = "panic"
    <2>1. Push(batch) /\ result' = result BY <1>9 DEF MapInline
    <2> QED BY <1>2, <1>6, <1>7, <2>1, BatchDone
  <1> QED BY <1>8, <1>9

(* As many threads are joined as were started: every one of them. *)
LEMMA AllJoinedMeans ==
  ASSUME BATCH_SIZE \in Nat, NEW c \in Nat, WorkerInv(c), AllJoined
  PROVE  joined = c
  <1>1. c \in 0..BATCH_SIZE /\ \A w \in Worker : state[w] = "none" <=> w > c BY DEF WorkerInv
  <1>2. Spawned = 1..c BY <1>1 DEF Spawned, Worker
  <1>3. Cardinality(1..c) = IF 1 > c THEN 0 ELSE (c - 1) + 1 BY FS_Interval
  <1>4. Cardinality(1..c) = c BY <1>3
  <1> QED BY <1>2, <1>4 DEF AllJoined

LEMMA MapReturnsStep ==
  ASSUME IInv, MapReturns
  PROVE  IInv'
  <1>1. TypeInv /\ BatchInv BY DEF IInv
  <1>2. /\ phase = "join" /\ AllJoined /\ phase' = "next"
        /\ state' = [w \in Worker |-> IF state[w] = "joined" THEN "none" ELSE state[w]]
        /\ UNCHANGED <<input, workers, pos, batch, inputError, todo, joined, failure, output,
                       emitted, spawnFailed>>
    BY DEF MapReturns
  <1>3. PICK c \in Nat : WorkerInv(c) BY DEF IInv
  <1>4. BATCH_SIZE \in Nat /\ Mapping BY <1>2, FilterAssumption DEF Mapping
  <1>5. joined = c BY <1>2, <1>3, <1>4, AllJoinedMeans
  <1>6. ASSUME NEW w \in Worker PROVE state'[w] = "none"
    <2>1. w \in Nat /\ (state[w] = "none" <=> w > c) /\ (state[w] = "joined" <=> w <= c)
      BY <1>3, <1>4, <1>5 DEF WorkerInv, Worker
    <2>2. state[w] = "joined" \/ state[w] = "none" BY <2>1
    <2> QED BY <1>2, <2>2
  <1>7. WorkerInv(0)' BY <1>2, <1>4, <1>6, NoThreads
  <1>8. state' \in [Worker -> {"none", "running", "finished", "panicked", "joined"}]
    BY <1>2, <1>6
  <1>9. CASE failure
    <2>1. exhausted' = TRUE /\ result' = "error" /\ pending' = pending BY <1>9 DEF MapReturns
    <2>2. Excused BY <1>3, <1>4, <1>9 DEF WorkerInv
    <2> QED BY <1>2, <1>7, <1>8, <2>1, <2>2, BatchLost
  <1>10. CASE ~failure
    <2>1. Push(output) /\ exhausted' = exhausted /\ result' = result BY <1>10 DEF MapReturns
    <2>2. /\ batch \in Seq(1..Len(input)) /\ output \in Seq(1..Len(input))
          /\ workers \in Nat \ {0, 1} /\ Len(batch) \in Nat /\ Len(batch) >= 2
      BY <1>1, <1>2 DEF TypeInv, BatchInv
    <2>3. Size \in Nat
      <3>1. Len(batch) >= 1 BY <2>2
      <3> QED BY <2>2, <3>1, ChunkSizePositive DEF Size
    <2>4. PICK m \in Nat : m = c * Size BY <2>3, Times
    <2>5. /\ m >= Len(batch) /\ Len(output) = Min2(m, Len(batch))
          /\ \A i \in 1..Len(output) : output[i] = batch[i]
      BY <1>2, <1>3, <1>4, <1>5, <1>10, <2>4 DEF WorkerInv
    <2>6. Len(output) = Len(batch) BY <2>2, <2>5 DEF Min2
    <2>7. output = batch BY <2>2, <2>5, <2>6, SeqEqual
    <2>8. Push(batch) BY <2>1, <2>7
    <2> QED BY <1>2, <1>7, <1>8, <2>1, <2>8, BatchDone
  <1> QED BY <1>9, <1>10
-----------------------------------------------------------------------------
(* The invariant, and what it says.                                        *)

LEMMA InitIInv == Init => IInv
  <1> SUFFICES ASSUME Init PROVE IInv
    OBVIOUS
  <1>1. MaxInput \in Nat /\ BATCH_SIZE \in Nat /\ Parallelism \subseteq Nat \ {0, 1}
    BY FilterAssumption
  <1>2. input \in Seq(Row)
    <2>1. PICK m \in 0..MaxInput : input \in [1..m -> Row] BY DEF Init, BoundedSeq, SeqOf
    <2>2. m \in Nat BY <1>1
    <2> QED BY <2>1, <2>2
  <1>3. Len(input) \in Nat /\ Len(<<>>) = 0 /\ Len(<<>>) \in Nat BY <1>2
  <1>4. TypeInv
    <2>1. <<>> \in Seq(Nat) /\ <<>> \in Seq(1..Len(input)) OBVIOUS
    <2>2. 0 \in 0..Len(input) /\ 0 \in 0..BATCH_SIZE BY <1>1, <1>3
    <2>3. workers \in Nat \ {0, 1} BY <1>1 DEF Init
    <2> QED BY <1>2, <2>1, <2>2, <2>3 DEF Init, TypeInv
  <1>5. InputInv BY DEF Init, InputInv
  <1>6. BatchInv BY DEF Init, BatchInv
  <1>7. WorkerInv(0)
    <2>1. \A w \in Worker : w > 0 BY <1>1 DEF Worker
    <2>2. 0 \in 0..BATCH_SIZE /\ ~Mapping /\ phase = "next" BY <1>1 DEF Init, Mapping
    <2>3. \A w \in Worker : state[w] = "none" BY DEF Init
    <2> QED BY <2>1, <2>2, <2>3 DEF WorkerInv
  <1>8. RowsInv(<<>>)
    <2>1. /\ phase = "next" /\ pos = 0 /\ pending = <<>> /\ emitted = <<>> /\ inputError = FALSE
      BY DEF Init
    <2>2. Base = 0 BY <2>1 DEF Base
    <2>3. NotDropped(0) = {} BY DEF NotDropped
    <2>4. Lists(<<>>, {}) BY DEF Lists
    <2> QED BY <1>3, <2>1, <2>2, <2>3, <2>4 DEF RowsInv
  <1>9. result = "running" BY DEF Init
  <1> QED BY <1>4, <1>5, <1>6, <1>7, <1>8, <1>9 DEF IInv

LEMMA StepIInv ==
  ASSUME IInv, [Next]_vars
  PROVE  IInv'
  <1>1. CASE ReturnPending BY <1>1, ReturnPendingStep
  <1>2. CASE ReturnNone BY <1>2, ReturnNoneStep
  <1>3. CASE Pull BY <1>3, PullStep
  <1>4. CASE MapInline BY <1>4, MapInlineStep
  <1>5. CASE MapReturns BY <1>5, MapReturnsStep
  <1>6. ASSUME NEW w \in Worker, Spawn(w) PROVE IInv' BY <1>6, SpawnStep
  <1>7. ASSUME NEW w \in Worker, SpawnFails(w) PROVE IInv' BY <1>7, SpawnFailsStep
  <1>8. ASSUME NEW w \in Worker, Join(w) PROVE IInv' BY <1>8, JoinStep
  <1>9. ASSUME NEW w \in Worker, WorkerStep(w) PROVE IInv' BY <1>9, WorkerStepStep
  <1>10. CASE UNCHANGED vars
    <2>1. UNCHANGED <<input, workers, pos, pending, exhausted, phase, batch, inputError, todo,
                      state, joined, failure, output, emitted, result, spawnFailed>>
      BY <1>10 DEF vars
    <2>2. TypeInv' /\ InputInv' /\ BatchInv' BY <2>1 DEF IInv, TypeInv, InputInv, BatchInv
    <2>3. \E c \in Nat : WorkerInv(c)'
      <3>1. PICK c \in Nat : WorkerInv(c) BY DEF IInv
      <3>2. Mapping' = Mapping /\ Size' = Size /\ Excused' = Excused
            /\ \A v \in Worker : Chunk(batch, v)' = Chunk(batch, v)
        BY <2>1 DEF Mapping, Size, ChunkSize, Excused, Chunk
      <3>3. WorkerInv(c)' BY <2>1, <3>1, <3>2 DEF WorkerInv
      <3> QED BY <3>3
    <2>4. result' = "running" => \E L : RowsInv(L)'
      <3> SUFFICES ASSUME result' = "running" PROVE \E L : RowsInv(L)'
        OBVIOUS
      <3>1. PICK L : RowsInv(L) BY <2>1 DEF IInv
      <3>2. NotDropped(Base)' = NotDropped(Base) BY <2>1 DEF Base, NotDropped
      <3>3. RowsInv(L)' BY <2>1, <3>1, <3>2 DEF RowsInv
      <3> QED BY <3>3
    <2>5. SameAsSerial' = SameAsSerial
      BY <2>1 DEF SameAsSerial, SerialRows, SerialEnd, Bad
    <2> QED BY <2>1, <2>2, <2>3, <2>4, <2>5 DEF IInv
  <1> QED BY <1>1, <1>2, <1>3, <1>4, <1>5, <1>6, <1>7, <1>8, <1>9, <1>10 DEF Next, Main

(* The invariant holds of every run of the filter. *)
THEOREM Inductive == Spec => []IInv
  <1>1. Init => IInv BY InitIInv
  <1>2. IInv /\ [Next]_vars => IInv' BY StepIInv
  <1> QED BY <1>1, <1>2, PTL DEF Spec

(* next of the filter returns the rows of the serial loop, in its order,   *)
(* whatever the number of threads and their schedule, and the query fails  *)
(* exactly if the serial one does, but for a panic and a thread that did   *)
(* not start.                                                              *)
THEOREM ParallelIsSerial == Spec => []SameAsSerial
  <1>1. IInv => SameAsSerial
    <2> SUFFICES ASSUME IInv, result = "running" PROVE SameAsSerial
      BY DEF IInv
    <2>1. TypeInv /\ BatchInv BY DEF IInv
    <2>2. PICK L : RowsInv(L) BY DEF IInv
    <2>3. IsPrefix(emitted, SerialRows) BY <2>1, <2>2, ReturnedPrefix
    <2> QED BY <2>3 DEF SameAsSerial
  <1> QED BY <1>1, Inductive, PTL

(* When ordered_map has returned, with or without a failure, every thread  *)
(* it started is joined.                                                   *)
THEOREM ThreadsAllJoined == Spec => []NoWorkerLeft
  <1>1. IInv => NoWorkerLeft
    <2> SUFFICES ASSUME IInv, phase = "next", NEW w \in Worker PROVE state[w] = "none"
      BY DEF NoWorkerLeft
    <2>1. PICK c \in Nat : WorkerInv(c) BY DEF IInv
    <2>2. c = 0 BY <2>1 DEF WorkerInv, Mapping
    <2>3. w > 0 BY FilterAssumption DEF Worker
    <2> QED BY <2>1, <2>2, <2>3 DEF WorkerInv
  <1> QED BY <1>1, Inductive, PTL
=============================================================================
