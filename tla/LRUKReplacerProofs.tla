------------------------- MODULE LRUKReplacerProofs -------------------------
(***************************************************************************)
(* The properties of LRUKReplacer, for any frames, any K and any sequence  *)
(* of calls.                                                               *)
(***************************************************************************)
EXTENDS LRUKReplacer, TLAPS, WellFoundedInduction, FiniteSetTheorems, SequenceTheorems

(* Every recorded access lies in the past, and no two accesses of          *)
(* different frames have the same time.                                    *)
TimesDistinct ==
  /\ \A f \in Frame : \A i \in 1..Len(history[f]) : history[f][i] < now
  /\ \A f, g \in Frame : f # g =>
       \A i \in 1..Len(history[f]), j \in 1..Len(history[g]) : history[f][i] # history[g][j]

IInv == TypeOK /\ TimesDistinct /\ SizeExact /\ IsFiniteSet(evictable)
-----------------------------------------------------------------------------
(* Natural numbers are well ordered. *)
LEMMA NatMin ==
  ASSUME NEW T, T \subseteq Nat, T # {}
  PROVE  \E x \in T : \A y \in T : x <= y
  <1> DEFINE Less == {ss \in Nat \X Nat : ss[1] < ss[2]}
  <1>1. OpToRel(<, Nat) = Less BY DEF OpToRel
  <1>2. IsWellFoundedOn(Less, Nat) BY <1>1, NatLessThanWellFounded
  <1> HIDE DEF Less
  <1>3. PICK x \in T : \A y \in T : ~ (<<y, x>> \in Less) BY <1>2, WFMin
  <1>4. ASSUME NEW y \in T PROVE x <= y
    <2>1. x \in Nat /\ y \in Nat OBVIOUS
    <2>2. (y < x) => <<y, x>> \in Less BY <2>1 DEF Less
    <2> QED BY <1>3, <2>1, <2>2
  <1> QED BY <1>4

(* What record_access makes of the history of a frame: at most K entries,  *)
(* each of them an old one or the time of the access, and never none.      *)
LEMMA RecordedFacts ==
  ASSUME NEW S, NEW h \in Seq(S), NEW t \in S, NEW k \in Nat \ {0}, Len(h) <= k,
         NEW r, r = IF Len(h) < k THEN Append(h, t) ELSE Append(Tail(h), t)
  PROVE  /\ r \in Seq(S) /\ Len(r) <= k /\ r # <<>>
         /\ \A i \in 1..Len(r) : r[i] = t \/ \E j \in 1..Len(h) : r[i] = h[j]
  <1>1. CASE Len(h) < k
    BY <1>1
  <1>2. CASE ~(Len(h) < k)
    <2>1. Len(h) = k /\ h # <<>> BY <1>2
    <2>2. /\ Tail(h) \in Seq(S) /\ Len(Tail(h)) = Len(h) - 1
          /\ \A i \in 1..Len(Tail(h)) : Tail(h)[i] = h[i + 1] /\ i + 1 \in 1..Len(h)
      BY <2>1
    <2>3. /\ Append(Tail(h), t) \in Seq(S) /\ Len(Append(Tail(h), t)) = k
          /\ \A i \in 1..Len(Append(Tail(h), t)) :
               Append(Tail(h), t)[i] = IF i <= Len(Tail(h)) THEN Tail(h)[i] ELSE t
      BY <2>1, <2>2
    <2>4. r = Append(Tail(h), t) BY <1>2
    <2>5. r \in Seq(S) /\ Len(r) <= k /\ r # <<>> BY <2>3, <2>4
    <2>6. ASSUME NEW i \in 1..Len(r)
          PROVE  r[i] = t \/ \E j \in 1..Len(h) : r[i] = h[j]
      <3>1. CASE i <= Len(Tail(h))
        <4>1. i \in 1..Len(Tail(h)) BY <2>2, <3>1
        <4>2. r[i] = Tail(h)[i] BY <2>3, <2>4, <3>1
        <4> QED BY <2>2, <4>1, <4>2
      <3>2. CASE ~(i <= Len(Tail(h))) BY <2>3, <2>4, <3>2
      <3> QED BY <3>1, <3>2
    <2> QED BY <2>5, <2>6
  <1> QED BY <1>1, <1>2

LEMMA InitInv == Init => IInv
  <1> SUFFICES ASSUME Init PROVE IInv OBVIOUS
  <1> USE ReplacerAssumption DEF Init
  <1>1. TypeOK BY DEF TypeOK, Node
  <1>2. TimesDistinct BY DEF TimesDistinct
  <1>3. SizeExact /\ IsFiniteSet(evictable) BY FS_EmptySet DEF SizeExact
  <1> QED BY <1>1, <1>2, <1>3 DEF IInv

LEMMA RecordStep ==
  ASSUME IInv, NEW f \in Frame, RecordAccess(f)
  PROVE  IInv'
  <1> USE ReplacerAssumption
  <1> DEFINE h == history[f]
             r == IF Len(h) < K THEN Append(h, now) ELSE Append(Tail(h), now)
  <1>1. /\ history \in [Frame -> Seq(0..MaxTime)] /\ h \in Seq(0..MaxTime)
        /\ Len(h) <= K /\ now \in 0..MaxTime
    BY DEF IInv, TypeOK
  <1>2. /\ r \in Seq(0..MaxTime) /\ Len(r) <= K /\ r # <<>>
        /\ \A i \in 1..Len(r) : r[i] = now \/ \E j \in 1..Len(h) : r[i] = h[j]
    <2> DEFINE S == 0..MaxTime
    <2>1. r = IF Len(h) < K THEN Append(h, now) ELSE Append(Tail(h), now) OBVIOUS
    <2>2. h \in Seq(S) /\ now \in S /\ Len(h) <= K BY <1>1
    <2> HIDE DEF h, r, S
    <2>3. /\ r \in Seq(S) /\ Len(r) <= K /\ r # <<>>
          /\ \A i \in 1..Len(r) : r[i] = now \/ \E j \in 1..Len(h) : r[i] = h[j]
      BY <2>1, <2>2, RecordedFacts
    <2> QED BY <2>3 DEF S
  <1>3. /\ history' = [history EXCEPT ![f] = r] /\ now' = now + 1 /\ now' \in 0..MaxTime
        /\ evictable' = evictable /\ size' = size /\ evicted' = None
    BY <1>1 DEF RecordAccess, Tick
  <1> HIDE DEF r
  <1>4. /\ history'[f] = r /\ \A g \in Frame : g # f => history'[g] = history[g]
        /\ history' \in [Frame -> Seq(0..MaxTime)]
    BY <1>1, <1>2, <1>3
  <1>5. TypeOK'
    BY <1>1, <1>2, <1>3, <1>4 DEF IInv, TypeOK, Node
  <1>6. TimesDistinct'
    <2>1. ASSUME NEW g \in Frame, NEW i \in 1..Len(history'[g])
          PROVE  history'[g][i] < now'
      <3>1. CASE g = f
        <4>1. i \in 1..Len(r) /\ history'[g][i] = r[i] BY <3>1, <1>4
        <4>2. \A j \in 1..Len(h) : h[j] \in Nat /\ h[j] < now
          BY <1>1 DEF IInv, TimesDistinct
        <4> QED BY <4>1, <4>2, <1>1, <1>2, <1>3
      <3>2. CASE g # f
        <4>1. i \in 1..Len(history[g]) /\ history'[g][i] = history[g][i] BY <3>2, <1>4
        <4>2. history[g][i] \in Nat /\ history[g][i] < now
          BY <4>1, <1>1 DEF IInv, TimesDistinct
        <4> QED BY <4>1, <4>2, <1>1, <1>3
      <3> QED BY <3>1, <3>2
    <2>2. ASSUME NEW g \in Frame, g # f,
                 NEW i \in 1..Len(r), NEW j \in 1..Len(history[g])
          PROVE  r[i] # history[g][j]
      <3>1. history[g][j] \in Nat /\ history[g][j] < now
        BY <1>1, <2>2 DEF IInv, TimesDistinct
      <3>2. CASE r[i] = now BY <1>1, <3>1, <3>2
      <3>3. ASSUME NEW k \in 1..Len(h), r[i] = h[k] PROVE r[i] # history[g][j]
        BY <2>2, <3>3 DEF IInv, TimesDistinct
      <3> QED BY <1>2, <2>2, <3>2, <3>3
    <2>3. ASSUME NEW a \in Frame, NEW b \in Frame, a # b,
                 NEW i \in 1..Len(history'[a]), NEW j \in 1..Len(history'[b])
          PROVE  history'[a][i] # history'[b][j]
      <3>1. CASE a = f BY <3>1, <2>2, <2>3, <1>4
      <3>2. CASE b = f BY <3>2, <2>2, <2>3, <1>4
      <3>3. CASE a # f /\ b # f
        <4>1. history'[a] = history[a] /\ history'[b] = history[b] BY <3>3, <1>4
        <4>2. i \in 1..Len(history[a]) /\ j \in 1..Len(history[b]) BY <4>1
        <4> QED BY <2>3, <4>1, <4>2 DEF IInv, TimesDistinct
      <3> QED BY <3>1, <3>2, <3>3
    <2> QED BY <2>1, <2>3 DEF TimesDistinct
  <1>7. SizeExact' /\ IsFiniteSet(evictable)'
    BY <1>3 DEF IInv, SizeExact
  <1> QED BY <1>5, <1>6, <1>7 DEF IInv

LEMMA SetEvictableStep ==
  ASSUME IInv, NEW f \in Frame, NEW b \in BOOLEAN, SetEvictable(f, b)
  PROVE  IInv'
  <1> USE ReplacerAssumption
  <1>1. /\ IsFiniteSet(evictable) /\ Cardinality(evictable) \in Nat
        /\ size = Cardinality(evictable)
    BY FS_CardinalityType DEF IInv, SizeExact
  <1>2. /\ IsFiniteSet(evictable \cup {f})
        /\ Cardinality(evictable \cup {f}) =
             IF f \in evictable THEN Cardinality(evictable) ELSE Cardinality(evictable) + 1
    BY <1>1, FS_AddElement
  <1>3. /\ IsFiniteSet(evictable \ {f})
        /\ Cardinality(evictable \ {f}) =
             IF f \in evictable THEN Cardinality(evictable) - 1 ELSE Cardinality(evictable)
    BY <1>1, FS_RemoveElement
  <1>4. /\ evictable' = IF b THEN evictable \cup {f} ELSE evictable \ {f}
        /\ size' = SizeAfterSet(f, b) /\ evicted' = None
        /\ history' = history /\ now' = now /\ Node(f)
    BY DEF SetEvictable
  <1>5. SizeExact' /\ IsFiniteSet(evictable')
    <2>1. CASE b BY <2>1, <1>1, <1>2, <1>4 DEF SizeExact, SizeAfterSet
    <2>2. CASE ~b BY <2>2, <1>1, <1>3, <1>4 DEF SizeExact, SizeAfterSet
    <2> QED BY <2>1, <2>2
  <1>6. size' \in Nat BY <1>5, FS_CardinalityType DEF SizeExact
  <1>7. TypeOK' BY <1>4, <1>6 DEF IInv, TypeOK, Node
  <1>8. TimesDistinct' BY <1>4 DEF IInv, TimesDistinct
  <1> QED BY <1>5, <1>7, <1>8 DEF IInv

(* remove: the frame had been counted. *)
LEMMA ForgetStep ==
  ASSUME IInv, NEW f \in Frame, f \in evictable, Forget(f), evicted' \in Frame \cup {None}
  PROVE  IInv'
  <1>1. /\ IsFiniteSet(evictable) /\ size = Cardinality(evictable)
    BY DEF IInv, SizeExact
  <1>2. /\ IsFiniteSet(evictable \ {f})
        /\ Cardinality(evictable \ {f}) = Cardinality(evictable) - 1
    BY <1>1, FS_RemoveElement
  <1>3. /\ history' = [history EXCEPT ![f] = <<>>] /\ evictable' = evictable \ {f}
        /\ size' = size - 1 /\ now' = now
    BY DEF Forget
  <1>4. SizeExact' /\ IsFiniteSet(evictable')
    BY <1>1, <1>2, <1>3 DEF SizeExact
  <1>5. size' \in Nat BY <1>4, FS_CardinalityType DEF SizeExact
  <1>6. /\ history'[f] = <<>> /\ \A g \in Frame : g # f => history'[g] = history[g]
        /\ history' \in [Frame -> Seq(0..MaxTime)]
    BY <1>3 DEF IInv, TypeOK
  <1>7. TypeOK'
    BY <1>3, <1>5, <1>6, ReplacerAssumption DEF IInv, TypeOK, Node
  <1>8. TimesDistinct'
    BY <1>3, <1>6 DEF IInv, TypeOK, TimesDistinct
  <1> QED BY <1>4, <1>7, <1>8 DEF IInv

LEMMA NextInv == IInv /\ [Next]_vars => IInv'
  <1> SUFFICES ASSUME IInv, [Next]_vars PROVE IInv' OBVIOUS
  <1>1. ASSUME UNCHANGED <<history, evictable, size, now>>, evicted' \in Frame \cup {None}
        PROVE  IInv'
    BY <1>1 DEF IInv, TypeOK, TimesDistinct, SizeExact, Node
  <1>2. CASE UNCHANGED vars BY <1>1, <1>2 DEF vars, IInv, TypeOK
  <1>3. ASSUME NEW f \in Frame, RecordAccess(f) PROVE IInv' BY <1>3, RecordStep
  <1>4. ASSUME NEW f \in Frame, RecordRefused(f) PROVE IInv' BY <1>1, <1>4 DEF RecordRefused
  <1>5. ASSUME NEW f \in Frame, Remove(f) PROVE IInv' BY <1>5, ForgetStep DEF Remove
  <1>6. ASSUME NEW f \in Frame, Evict(f) PROVE IInv'
    BY <1>6, ForgetStep DEF Evict, Candidates
  <1>7. ASSUME NEW f \in Frame, NEW b \in BOOLEAN, SetEvictable(f, b) PROVE IInv'
    BY <1>7, SetEvictableStep
  <1>8. CASE EvictNone BY <1>1, <1>8 DEF EvictNone
  <1> QED BY <1>2, <1>3, <1>4, <1>5, <1>6, <1>7, <1>8 DEF Next

(* Every variable has its type, whatever is called. *)
THEOREM TypeCorrect == Spec => []TypeOK
  BY InitInv, NextInv, PTL DEF Spec, IInv

(* The counter of the replacer (size) is exact after any sequence of       *)
(* calls, so that it never underflows.                                     *)
THEOREM SizeIsExact == Spec => []SizeExact
  BY InitInv, NextInv, PTL DEF Spec, IInv
-----------------------------------------------------------------------------
(* Distances are positive, and those of short histories the larger ones.   *)
LEMMA DistanceFacts ==
  ASSUME IInv, NEW f \in Frame, Node(f)
  PROVE  /\ Head(history[f]) \in 0..MaxTime /\ Head(history[f]) < now
         /\ KDistance(f) \in 1..MaxU64
         /\ Len(history[f]) < K => KDistance(f) = MaxU64 - Head(history[f])
         /\ ~(Len(history[f]) < K) => KDistance(f) = now - Head(history[f])
  <1>1. /\ history[f] \in Seq(0..MaxTime) /\ Len(history[f]) \in Nat /\ Len(history[f]) # 0
        /\ now \in 0..MaxTime
    BY DEF IInv, TypeOK, Node
  <1>2. Head(history[f]) = history[f][1] /\ 1 \in 1..Len(history[f]) BY <1>1
  <1>3. Head(history[f]) \in 0..MaxTime /\ Head(history[f]) < now
    <2> DEFINE h == history[f]
    <2>0. h \in Seq(0..MaxTime) /\ 1 \in 1..Len(h) BY <1>1, <1>2
    <2>1. history[f][1] \in 0..MaxTime
      <3> HIDE DEF h
      <3>1. h[1] \in 0..MaxTime BY <2>0, ElementOfSeq
      <3> QED BY <3>1 DEF h
    <2>2. history[f][1] < now BY <1>2 DEF IInv, TimesDistinct
    <2> QED BY <1>2, <2>1, <2>2
  <1> QED BY <1>1, <1>3, ReplacerAssumption DEF KDistance

(* evict finds a frame whenever one is evictable: a greatest distance      *)
(* exists and is above the 0 that the search begins with.                  *)
THEOREM EvictIsTotal == Spec => []EvictTotal
  <1>1. IInv => EvictTotal
    <2> SUFFICES ASSUME IInv, evictable # {} PROVE Candidates # {} BY DEF EvictTotal
    <2> DEFINE T == {MaxU64 - KDistance(f) : f \in evictable}
    <2>1. \A f \in evictable : f \in Frame /\ Node(f) BY DEF IInv, TypeOK
    <2>2. \A f \in evictable : KDistance(f) \in 1..MaxU64 BY <2>1, DistanceFacts
    <2>3. T \subseteq Nat /\ T # {} BY <2>2, ReplacerAssumption
    <2>4. PICK x \in T : \A y \in T : x <= y
      <3> HIDE DEF T
      <3> QED BY <2>3, NatMin
    <2>5. PICK f \in evictable : x = MaxU64 - KDistance(f) OBVIOUS
    <2>6. ASSUME NEW g \in evictable PROVE KDistance(g) <= KDistance(f)
      <3>1. MaxU64 - KDistance(f) <= MaxU64 - KDistance(g) BY <2>4, <2>5
      <3> QED BY <2>2, <3>1, ReplacerAssumption
    <2> QED BY <2>2, <2>6 DEF Candidates
  <1> QED BY <1>1, InitInv, NextInv, PTL DEF Spec

(* evict returns the frame that LRU-K names: no frame with a full history  *)
(* before one with a short history, and among equals the one that was not  *)
(* used for the longest time.                                              *)
THEOREM EvictionIsLruK == Spec => EvictsLruK
  <1>1. IInv /\ [Next]_vars =>
          [evicted' # None => \A g \in evictable \ {evicted'} : GoesBefore(evicted', g)]_vars
    <2> SUFFICES ASSUME IInv, Next, evicted' # None,
                        NEW g \in evictable \ {evicted'}
                 PROVE  GoesBefore(evicted', g)
      OBVIOUS
    <2>1. PICK f \in Frame : Evict(f)
      BY DEF Next, RecordAccess, RecordRefused, Remove, SetEvictable, EvictNone
    <2>2. /\ evicted' = f /\ f \in evictable /\ f # g
          /\ KDistance(g) <= KDistance(f)
      BY <2>1 DEF Evict, Candidates
    <2>3. f \in Frame /\ Node(f) /\ g \in Frame /\ Node(g) BY <2>2 DEF IInv, TypeOK
    <2>4. Head(history[f]) # Head(history[g])
      <3>1. /\ Head(history[f]) = history[f][1] /\ 1 \in 1..Len(history[f])
            /\ Head(history[g]) = history[g][1] /\ 1 \in 1..Len(history[g])
        BY <2>3 DEF IInv, TypeOK, Node
      <3> QED BY <2>2, <2>3, <3>1 DEF IInv, TimesDistinct
    <2>5. now \in 0..MaxTime /\ Len(history[f]) \in Nat /\ Len(history[g]) \in Nat
      BY <2>3 DEF IInv, TypeOK
    <2>6. /\ Head(history[f]) \in 0..MaxTime /\ Head(history[f]) < now
          /\ Len(history[f]) < K => KDistance(f) = MaxU64 - Head(history[f])
          /\ ~(Len(history[f]) < K) => KDistance(f) = now - Head(history[f])
      BY <2>3, DistanceFacts
    <2>7. /\ Head(history[g]) \in 0..MaxTime /\ Head(history[g]) < now
          /\ Len(history[g]) < K => KDistance(g) = MaxU64 - Head(history[g])
          /\ ~(Len(history[g]) < K) => KDistance(g) = now - Head(history[g])
      BY <2>3, DistanceFacts
    <2> DEFINE x == Head(history[f])
               y == Head(history[g])
    <2>8. x \in Int /\ y \in Int /\ 0 <= x /\ x < now /\ 0 <= y /\ y < now /\ x # y
      BY <2>4, <2>5, <2>6, <2>7
    <2>9. MaxU64 \in Int /\ now \in Int /\ now + now < MaxU64 BY <2>5, ReplacerAssumption
    <2> HIDE DEF x, y
    <2>10. CASE Len(history[f]) < K /\ Len(history[g]) < K
      <3>1. MaxU64 - y <= MaxU64 - x BY <2>2, <2>6, <2>7, <2>10 DEF x, y
      <3>2. x < y BY <3>1, <2>8, <2>9
      <3> QED BY <2>2, <2>10, <3>2 DEF GoesBefore, x, y
    <2>11. CASE Len(history[f]) < K /\ ~(Len(history[g]) < K)
      BY <2>2, <2>5, <2>11, ReplacerAssumption DEF GoesBefore
    <2>12. CASE ~(Len(history[f]) < K) /\ Len(history[g]) < K
      <3>1. MaxU64 - y <= now - x BY <2>2, <2>6, <2>7, <2>12 DEF x, y
      <3> QED BY <3>1, <2>8, <2>9
    <2>13. CASE ~(Len(history[f]) < K) /\ ~(Len(history[g]) < K)
      <3>1. now - y <= now - x BY <2>2, <2>6, <2>7, <2>13 DEF x, y
      <3>2. x < y BY <3>1, <2>8, <2>9
      <3> QED BY <2>2, <2>13, <3>2 DEF GoesBefore, x, y
    <2> QED BY <2>10, <2>11, <2>12, <2>13
  <1> QED BY <1>1, InitInv, NextInv, PTL DEF Spec, EvictsLruK
=============================================================================
