-------------------------- MODULE BufferPoolProofs --------------------------
(***************************************************************************)
(* The properties of BufferPool, for any number of frames, pages and       *)
(* handles, and for files that fail as well as for files that do not.      *)
(***************************************************************************)
EXTENDS BufferPool, TLAPS, WellFoundedInduction, FiniteSetTheorems, SequenceTheorems

Holders(f) == {r \in Ref : refFrame[r] = f}

(* The two lists hold different frames, and none twice. *)
ListInv ==
  /\ IsInjective(free)
  /\ Range(lru) \cap Range(free) = {}
  /\ ~faulty => Frame \subseteq Range(lru) \cup Range(free)

(* A frame with a node in the replacer holds the page that the page table  *)
(* has there, in its latest state; only its handles pin it.                *)
NodeInv ==
  \A f \in Range(lru) :
    /\ pid[f] \in PageId /\ table[pid[f]] = f
    /\ pin[f] = Cardinality(Holders(f)) /\ (f \in evictable <=> pin[f] = 0)
    /\ data[f] = last[pid[f]]
    /\ dirty[f] \/ disk[pid[f]] = data[f]

(* Frames without a node have no handle; free frames have no pin and no    *)
(* page.                                                                   *)
HolderInv ==
  /\ \A f \in Frame : IsFiniteSet(Holders(f)) /\ (f \notin Range(lru) => Holders(f) = {})
  /\ \A r \in Ref : refFrame[r] # None => refPage[r] = pid[refFrame[r]]
  /\ \A f \in Range(free) : pin[f] = 0 /\ \A p \in PageId : table[p] # f

(* The page table has live pages, each in a frame of its own; the file has *)
(* the latest state of the others.                                         *)
TableInv ==
  /\ \A p \in PageId : table[p] # None => p \in live
  /\ \A p, q \in PageId : table[p] # None /\ table[p] = table[q] => p = q
  /\ \A p \in live : table[p] = None => disk[p] = last[p]

IInv == TypeOK /\ ListInv /\ NodeInv /\ HolderInv /\ TableInv
-----------------------------------------------------------------------------
(* Lists of frames as sets.                                                *)

(* Natural numbers are well ordered. *)
LEMMA NatMin ==
  ASSUME NEW T, T \subseteq Nat, T # {}
  PROVE  \E x \in T : \A y \in T : x <= y
  <1> DEFINE Less == {ss \in Nat \X Nat : ss[1] < ss[2]}
  <1>1. OpToRel(<, Nat) = Less BY DEF OpToRel
  <1>2. IsWellFoundedOn(Less, Nat) BY <1>1, NatLessThanWellFounded
  <1> HIDE DEF Less
  <1>3. PICK x \in T : \A y \in T : ~ (<<y, x>> \in Less) BY <1>2, WFMin
  <1>4. ASSUME NEW y \in T PROVE x <= y
    <2>1. x \in Nat /\ y \in Nat OBVIOUS
    <2>2. (y < x) => <<y, x>> \in Less BY <2>1 DEF Less
    <2> QED BY <1>3, <2>1, <2>2
  <1> QED BY <1>4

(* Min is the least element. *)
LEMMA MinFacts ==
  ASSUME NEW T, T \subseteq Nat, T # {}
  PROVE  Min(T) \in T /\ \A y \in T : Min(T) <= y
  BY NatMin DEF Min

LEMMA AppendFacts ==
  ASSUME NEW S, NEW s \in Seq(S), NEW e \in S
  PROVE  /\ Append(s, e) \in Seq(S) /\ Range(Append(s, e)) = Range(s) \cup {e}
         /\ IsInjective(s) /\ e \notin Range(s) => IsInjective(Append(s, e))
  <1>1. Append(s, e) \in Seq(S) /\ Len(Append(s, e)) = Len(s) + 1
    OBVIOUS
  <1>2. /\ DOMAIN s = 1..Len(s) /\ DOMAIN Append(s, e) = 1..(Len(s) + 1)
        /\ \A i \in 1..Len(s) : Append(s, e)[i] = s[i]
        /\ Append(s, e)[Len(s) + 1] = e /\ Len(s) \in Nat
    OBVIOUS
  <1> DEFINE t == Append(s, e)
             n == Len(s)
  <1> HIDE DEF t, n
  <1>3. /\ DOMAIN s = 1..n /\ DOMAIN t = 1..(n + 1) /\ n \in Nat
        /\ \A i \in 1..n : t[i] = s[i]
        /\ t[n + 1] = e
    BY <1>2 DEF t, n
  <1>4. Range(t) = Range(s) \cup {e}
    BY <1>3 DEF Range
  <1>5. IsInjective(s) /\ e \notin Range(s) => IsInjective(t)
    BY <1>3 DEF Range, IsInjective
  <1> QED BY <1>1, <1>4, <1>5 DEF t

LEMMA TailFacts ==
  ASSUME NEW S, NEW s \in Seq(S), s # <<>>, IsInjective(s)
  PROVE  /\ Tail(s) \in Seq(S) /\ Range(Tail(s)) = Range(s) \ {Head(s)}
         /\ IsInjective(Tail(s)) /\ Head(s) \in Range(s) /\ Head(s) \in S
  <1> DEFINE t == Tail(s)
             n == Len(s)
  <1>1. /\ DOMAIN s = 1..n /\ DOMAIN t = 1..(n - 1) /\ n \in Nat \ {0}
        /\ \A i \in 1..(n - 1) : t[i] = s[i + 1]
        /\ Head(s) = s[1] /\ t \in Seq(S)
    OBVIOUS
  <1>2. Head(s) \in S OBVIOUS
  <1> HIDE DEF t, n
  <1>3. \A j \in 2..n : j - 1 \in 1..(n - 1) /\ t[j - 1] = s[j]
    BY <1>1
  <1>4. Range(t) = Range(s) \ {Head(s)}
    <2>1. ASSUME NEW x \in Range(t) PROVE x \in Range(s) \ {Head(s)}
      <3>1. PICK i \in 1..(n - 1) : x = t[i] BY <1>1 DEF Range
      <3>2. x = s[i + 1] /\ i + 1 \in DOMAIN s /\ 1 \in DOMAIN s /\ i + 1 # 1 BY <1>1, <3>1
      <3> QED BY <3>2, <1>1 DEF Range, IsInjective
    <2>2. ASSUME NEW x \in Range(s), x # Head(s) PROVE x \in Range(t)
      <3>1. PICK i \in 1..n : x = s[i] BY <1>1 DEF Range
      <3>2. i \in 2..n BY <3>1, <2>2, <1>1
      <3> QED BY <3>1, <3>2, <1>3, <1>1 DEF Range
    <2> QED BY <2>1, <2>2
  <1>5. IsInjective(t)
    <2> SUFFICES ASSUME NEW a \in 1..(n - 1), NEW b \in 1..(n - 1), t[a] = t[b]
                 PROVE  a = b
      BY <1>1 DEF IsInjective
    <2>1. \A i, j \in 1..n : s[i] = s[j] => i = j BY <1>1 DEF IsInjective
    <2>2. a + 1 \in 1..n /\ b + 1 \in 1..n /\ s[a + 1] = s[b + 1] BY <1>1
    <2> QED BY <2>1, <2>2
  <1>6. Head(s) \in Range(s) BY <1>1 DEF Range
  <1> QED BY <1>1, <1>2, <1>4, <1>5, <1>6 DEF t

(* What remains of a list without an element at one place of it. *)
LEMMA RemoveAtFacts ==
  ASSUME NEW S, NEW s \in Seq(S), IsInjective(s), NEW k \in 1..Len(s)
  PROVE  /\ RemoveAt(s, k) \in Seq(S) /\ Range(RemoveAt(s, k)) = Range(s) \ {s[k]}
         /\ IsInjective(RemoveAt(s, k))
  <1> DEFINE t == RemoveAt(s, k)
             n == Len(s)
  <1>1. /\ DOMAIN s = 1..n /\ n \in Nat /\ k \in 1..n /\ DOMAIN t = 1..(n - 1)
        /\ t \in Seq(S)
        /\ \A i \in 1..(n - 1) : t[i] = IF i < k THEN s[i] ELSE s[i + 1]
    <2> DEFINE a == SubSeq(s, 1, k - 1)
               b == SubSeq(s, k + 1, Len(s))
    <2>1. Len(s) \in Nat /\ k \in Nat /\ 1 <= k /\ k <= Len(s) /\ DOMAIN s = 1..Len(s) OBVIOUS
    <2>2. /\ a \in Seq(S) /\ Len(a) = k - 1
          /\ \A i \in 1..(k - 1) : a[i] = s[i]
      BY <2>1, SubSeqProperties
    <2>3. /\ b \in Seq(S) /\ Len(b) = Len(s) - k
          /\ \A i \in 1..(Len(s) - k) : b[i] = s[i + k]
      <3>1. \A i \in (k + 1)..Len(s) : s[i] \in S BY <2>1
      <3>2. k + 1 \in Int /\ Len(s) \in Int BY <2>1
      <3>3. /\ b \in Seq(S) /\ Len(b) = IF k + 1 <= Len(s) THEN Len(s) - (k + 1) + 1 ELSE 0
            /\ \A i \in 1..(Len(s) - (k + 1) + 1) : b[i] = s[(k + 1) + i - 1]
        BY <3>1, <3>2, SubSeqProperties
      <3> HIDE DEF b
      <3> DEFINE m == Len(s)
      <3>4. m \in Nat /\ m = Len(s) BY <2>1
      <3> HIDE DEF m
      <3>5. Len(s) - (k + 1) + 1 = Len(s) - k BY <2>1, <3>4
      <3>6. \A i \in 1..(Len(s) - k) : (k + 1) + i - 1 = i + k BY <2>1, <3>4
      <3>7. Len(b) = Len(s) - k
        <4>1. k <= m /\ k \in Nat BY <2>1, <3>4
        <4>2. (IF k + 1 <= m THEN m - (k + 1) + 1 ELSE 0) = m - k BY <4>1, <3>4
        <4> QED BY <3>3, <3>4, <4>2
      <3>8. \A i \in 1..(Len(s) - k) : b[i] = s[(k + 1) + i - 1] BY <3>3, <3>5
      <3> QED BY <3>3, <3>6, <3>7, <3>8
    <2> HIDE DEF a, b
    <2>4. /\ a \o b \in Seq(S) /\ Len(a \o b) = Len(s) - 1 /\ DOMAIN (a \o b) = 1..(Len(s) - 1)
          /\ \A i \in 1..(Len(s) - 1) : (a \o b)[i] = IF i <= k - 1 THEN a[i] ELSE b[i - (k - 1)]
      <3> DEFINE m == Len(s)
      <3>1. m \in Nat /\ k <= m /\ Len(b) = m - k BY <2>1, <2>3
      <3> HIDE DEF m
      <3>2. /\ a \o b \in Seq(S) /\ Len(a \o b) = (k - 1) + (m - k)
            /\ \A i \in 1..((k - 1) + (m - k)) :
                 (a \o b)[i] = IF i <= k - 1 THEN a[i] ELSE b[i - (k - 1)]
        <4>1. /\ a \o b \in Seq(S) /\ Len(a \o b) = Len(a) + Len(b)
              /\ \A i \in 1..(Len(a) + Len(b)) :
                   (a \o b)[i] = IF i <= Len(a) THEN a[i] ELSE b[i - Len(a)]
          BY <2>2, <2>3, ConcatProperties
        <4> QED BY <4>1, <2>2, <3>1
      <3>3. (k - 1) + (m - k) = m - 1 BY <2>1, <3>1
      <3>4. DOMAIN (a \o b) = 1..Len(a \o b) BY <3>2
      <3> QED BY <3>2, <3>3, <3>4 DEF m
    <2>5. \A i \in 1..(Len(s) - 1) : (a \o b)[i] = IF i < k THEN s[i] ELSE s[i + 1]
      <3> DEFINE m == Len(s)
      <3>1. m \in Nat /\ k <= m BY <2>1
      <3> HIDE DEF m
      <3> SUFFICES ASSUME NEW i \in 1..(m - 1)
                   PROVE  (a \o b)[i] = IF i < k THEN s[i] ELSE s[i + 1]
        BY DEF m
      <3>2. CASE i < k
        <4>1. i \in 1..(k - 1) /\ i <= k - 1 BY <2>1, <3>1, <3>2
        <4> QED BY <2>2, <2>4, <4>1, <3>2 DEF m
      <3>3. CASE ~(i < k)
        <4>1. ~(i <= k - 1) /\ i - (k - 1) \in 1..(m - k) /\ (i - (k - 1)) + k = i + 1
          BY <2>1, <3>1, <3>3
        <4> QED BY <2>3, <2>4, <4>1, <3>3 DEF m
      <3> QED BY <3>2, <3>3
    <2>6. t = a \o b BY DEF RemoveAt, a, b
    <2> QED BY <2>1, <2>4, <2>5, <2>6
  <1> HIDE DEF t, n
  <1>2. Range(t) = Range(s) \ {s[k]}
    <2>1. ASSUME NEW x \in Range(t) PROVE x \in Range(s) \ {s[k]}
      <3>1. PICK i \in 1..(n - 1) : x = t[i] BY <1>1 DEF Range
      <3>2. \E j \in 1..n : x = s[j] /\ j # k BY <1>1, <3>1
      <3> QED BY <3>2, <1>1 DEF Range, IsInjective
    <2>2. ASSUME NEW x \in Range(s), x # s[k] PROVE x \in Range(t)
      <3>1. PICK i \in 1..n : x = s[i] BY <1>1 DEF Range
      <3>2. CASE i < k
        <4>1. i \in 1..(n - 1) /\ t[i] = x BY <1>1, <3>1, <3>2
        <4> QED BY <4>1, <1>1 DEF Range
      <3>3. CASE i > k
        <4>1. i - 1 \in 1..(n - 1) /\ t[i - 1] = x BY <1>1, <3>1, <3>3
        <4> QED BY <4>1, <1>1 DEF Range
      <3> QED BY <3>1, <3>2, <3>3, <2>2, <1>1
    <2> QED BY <2>1, <2>2
  <1>3. IsInjective(t)
    <2> SUFFICES ASSUME NEW a \in 1..(n - 1), NEW b \in 1..(n - 1), t[a] = t[b]
                 PROVE  a = b
      BY <1>1 DEF IsInjective
    <2>1. \A i, j \in 1..n : s[i] = s[j] => i = j BY <1>1 DEF IsInjective
    <2> QED BY <1>1, <2>1
  <1> QED BY <1>1, <1>2, <1>3 DEF t

LEMMA RemoveFirstFacts ==
  ASSUME NEW S, NEW s \in Seq(S), IsInjective(s), NEW e
  PROVE  /\ RemoveFirst(s, e) \in Seq(S) /\ Range(RemoveFirst(s, e)) = Range(s) \ {e}
         /\ IsInjective(RemoveFirst(s, e))
  <1>1. CASE \E i \in 1..Len(s) : s[i] = e
    <2> DEFINE T == {i \in 1..Len(s) : s[i] = e}
    <2>1. T # {} /\ T \subseteq Nat BY <1>1
    <2>2. Min(T) \in T BY <2>1, MinFacts
    <2>3. RemoveFirst(s, e) = RemoveAt(s, Min(T)) BY <1>1, <2>1 DEF RemoveFirst, SelectInSeq
    <2>4. Min(T) \in 1..Len(s) /\ s[Min(T)] = e BY <2>2
    <2> HIDE DEF T
    <2>5. /\ RemoveAt(s, Min(T)) \in Seq(S)
          /\ Range(RemoveAt(s, Min(T))) = Range(s) \ {s[Min(T)]}
          /\ IsInjective(RemoveAt(s, Min(T)))
      BY <2>4, RemoveAtFacts
    <2> QED BY <2>3, <2>4, <2>5
  <1>2. CASE ~\E i \in 1..Len(s) : s[i] = e
    <2>1. RemoveFirst(s, e) = s BY <1>2 DEF RemoveFirst
    <2>2. e \notin Range(s) BY <1>2 DEF Range
    <2> QED BY <2>1, <2>2
  <1> QED BY <1>1, <1>2
-----------------------------------------------------------------------------
(* allocate_frame.                                                         *)

(* The victim is an evictable frame. *)
LEMMA VictimFacts ==
  ASSUME TypeOK, evictable # {}
  PROVE  Victim \in evictable
  <1> DEFINE T == {i \in DOMAIN lru : lru[i] \in evictable}
  <1>1. DOMAIN lru = 1..Len(lru) /\ Len(lru) \in Nat BY DEF TypeOK
  <1>2. T \subseteq Nat BY <1>1
  <1>3. T # {} BY DEF TypeOK, Range
  <1>4. Min(T) \in T BY <1>2, <1>3, MinFacts
  <1> QED BY <1>4 DEF Victim

(* What allocate_frame does to the lists, the page table and the file, for *)
(* the frame c that it returns.                                            *)
AllocEffect(c) ==
  /\ c \in Frame /\ c \in Range(lru) \cup Range(free)
  /\ FreeAfter \in Seq(Frame) /\ IsInjective(FreeAfter)
  /\ LruAfter \in Seq(Frame) /\ IsInjective(LruAfter)
  /\ Range(FreeAfter) = Range(free) \ {c} /\ Range(LruAfter) = Range(lru) \ {c}
  /\ EvictAfter = evictable \ {c}
  /\ Holders(c) = {} /\ pin[c] = 0
  /\ TableAfter = [p \in PageId |-> IF table[p] = c THEN None ELSE table[p]]
  /\ DiskAfter = [p \in PageId |-> IF table[p] = c THEN data[c] ELSE disk[p]]

LEMMA RangeInFrame ==
  ASSUME TypeOK
  PROVE  Range(lru) \subseteq Frame /\ Range(free) \subseteq Frame
  <1>1. /\ DOMAIN lru = 1..Len(lru) /\ DOMAIN free = 1..Len(free)
        /\ \A i \in 1..Len(lru) : lru[i] \in Frame
        /\ \A i \in 1..Len(free) : free[i] \in Frame
    BY ElementOfSeq DEF TypeOK
  <1> QED BY <1>1 DEF Range

LEMMA AllocFacts ==
  ASSUME IInv, HasFrame
  PROVE  AllocEffect(Claimed)
  <1> USE PoolAssumption
  <1>0. Range(lru) \subseteq Frame /\ Range(free) \subseteq Frame BY RangeInFrame DEF IInv
  <1>t. /\ free \in Seq(Frame) /\ IsInjective(free) /\ lru \in Seq(Frame) /\ IsInjective(lru)
        /\ table \in [PageId -> Frame \cup {None}] /\ disk \in [PageId -> Data]
        /\ evictable \subseteq Range(lru) /\ Range(lru) \cap Range(free) = {}
    BY DEF IInv, TypeOK, ListInv
  <1>1. CASE free # <<>>
    <2> DEFINE c == Head(free)
    <2>1. Claimed = c /\ FreeAfter = Tail(free) /\ LruAfter = lru
          /\ EvictAfter = evictable /\ TableAfter = table /\ DiskAfter = disk
      BY <1>1 DEF Claimed, FreeAfter, LruAfter, EvictAfter, TableAfter, DiskAfter
    <2>2. /\ Tail(free) \in Seq(Frame) /\ Range(Tail(free)) = Range(free) \ {c}
          /\ IsInjective(Tail(free)) /\ c \in Range(free) /\ c \in Frame
      <3> DEFINE F == Frame
      <3> HIDE DEF F
      <3>1. free \in Seq(F) /\ IsInjective(free) BY <1>t DEF F
      <3> QED BY <1>1, <3>1, TailFacts DEF F
    <2> HIDE DEF c
    <2>3. c \notin Range(lru) /\ c \notin evictable BY <2>2, <1>t
    <2>4. Holders(c) = {} /\ pin[c] = 0 /\ \A p \in PageId : table[p] # c
      BY <2>2, <2>3 DEF IInv, HolderInv
    <2>5. /\ table = [p \in PageId |-> IF table[p] = c THEN None ELSE table[p]]
          /\ disk = [p \in PageId |-> IF table[p] = c THEN data[c] ELSE disk[p]]
      BY <2>4, <1>t
    <2>6. Range(lru) = Range(lru) \ {c} /\ evictable = evictable \ {c} BY <2>3
    <2> QED BY <2>1, <2>2, <2>4, <2>5, <2>6, <1>t DEF AllocEffect
  <1>2. CASE free = <<>>
    <2> DEFINE c == Victim
    <2>1. c \in evictable BY <1>2, VictimFacts DEF HasFrame, IInv
    <2>2. /\ Claimed = c /\ FreeAfter = free /\ LruAfter = RemoveFirst(lru, c)
          /\ EvictAfter = evictable \ {c} /\ TableAfter = [table EXCEPT ![pid[c]] = None]
          /\ DiskAfter = IF dirty[c] THEN [disk EXCEPT ![pid[c]] = data[c]] ELSE disk
      BY <1>2 DEF Claimed, FreeAfter, LruAfter, EvictAfter, TableAfter, DiskAfter
    <2> HIDE DEF c
    <2>3. c \in Range(lru) /\ c \in Frame /\ c \notin Range(free) BY <2>1, <1>t, <1>0
    <2>4. /\ RemoveFirst(lru, c) \in Seq(Frame) /\ Range(RemoveFirst(lru, c)) = Range(lru) \ {c}
          /\ IsInjective(RemoveFirst(lru, c))
      <3> DEFINE F == Frame
      <3> HIDE DEF F
      <3>1. lru \in Seq(F) /\ IsInjective(lru) BY <1>t DEF F
      <3> QED BY <3>1, RemoveFirstFacts DEF F
    <2>5. /\ pid[c] \in PageId /\ table[pid[c]] = c /\ pin[c] = Cardinality(Holders(c))
          /\ pin[c] = 0 /\ (dirty[c] \/ disk[pid[c]] = data[c])
      BY <2>1, <2>3 DEF IInv, NodeInv
    <2>6. Holders(c) = {}
      BY <2>3, <2>5, FS_EmptySet DEF IInv, HolderInv
    <2>7. \A p \in PageId : table[p] = c <=> p = pid[c]
      BY <2>3, <2>5 DEF IInv, TableInv
    <2>8. TableAfter = [p \in PageId |-> IF table[p] = c THEN None ELSE table[p]]
      BY <2>2, <2>5, <2>7, <1>t
    <2>9. DiskAfter = [p \in PageId |-> IF table[p] = c THEN data[c] ELSE disk[p]]
      BY <2>2, <2>5, <2>7, <1>t
    <2>10. Range(free) = Range(free) \ {c} BY <2>3
    <2> QED BY <2>2, <2>3, <2>4, <2>5, <2>6, <2>8, <2>9, <2>10, <1>t DEF AllocEffect
  <1> QED BY <1>1, <1>2
-----------------------------------------------------------------------------
(* The invariant holds initially and every step preserves it.              *)

LEMMA InitInv == Init => IInv
  <1> SUFFICES ASSUME Init PROVE IInv OBVIOUS
  <1> USE PoolAssumption DEF Init
  <1>0. free \in Seq(Frame) /\ DOMAIN free = Frame /\ \A i \in Frame : free[i] = i
    BY IsASeq DEF Frame
  <1>1. IsInjective(free) /\ Range(free) = Frame /\ Range(lru) = {} /\ IsInjective(lru)
    BY <1>0 DEF IsInjective, Range
  <1>2. TypeOK BY <1>0, <1>1 DEF TypeOK
  <1>3. ListInv BY <1>1 DEF ListInv
  <1>4. NodeInv BY <1>1 DEF NodeInv
  <1>5. \A f \in Frame : Holders(f) = {} BY DEF Holders
  <1>6. HolderInv BY <1>1, <1>5, FS_EmptySet DEF HolderInv
  <1>7. TableInv BY DEF TableInv
  <1> QED BY <1>2, <1>3, <1>4, <1>6, <1>7 DEF IInv

(* new_page and fetch_page load page p with contents d for the handle r;   *)
(* the file then has d for p, and for the other pages what allocate_frame  *)
(* left.                                                                   *)
LEMMA LoadStep ==
  ASSUME IInv, HasFrame, NEW r \in Ref, NEW p \in PageId, NEW d \in Data,
         refFrame[r] = None, table[p] = None, Load(Claimed, p, d, r),
         disk' \in [PageId -> Data], disk'[p] = d,
         \A q \in PageId : q # p => disk'[q] = DiskAfter[q],
         last' \in [PageId -> Data], last'[p] = d,
         \A q \in PageId : q # p => last'[q] = last[q],
         live' = live \cup {p}, faulty' = faulty
  PROVE  IInv'
  <1> USE PoolAssumption
  <1> DEFINE L == Range(lru)
             F == Range(free)
  <1>0. PICK c : c = Claimed OBVIOUS
  <1>a. AllocEffect(c) BY <1>0, AllocFacts
  <1>t. /\ pid \in [Frame -> PageId \cup {None}] /\ data \in [Frame -> Data]
        /\ pin \in [Frame -> Nat] /\ dirty \in [Frame -> BOOLEAN]
        /\ table \in [PageId -> Frame \cup {None}]
        /\ refFrame \in [Ref -> Frame \cup {None}] /\ refPage \in [Ref -> PageId \cup {None}]
        /\ evictable \subseteq L /\ live \subseteq PageId /\ faulty \in BOOLEAN
        /\ disk \in [PageId -> Data]
    BY DEF IInv, TypeOK
  <1>u. L \subseteq Frame /\ F \subseteq Frame /\ L \cap F = {}
    BY RangeInFrame DEF IInv, ListInv
  <1>1. /\ pid' = [pid EXCEPT ![c] = p] /\ data' = [data EXCEPT ![c] = d]
        /\ pin' = [pin EXCEPT ![c] = 1] /\ dirty' = [dirty EXCEPT ![c] = FALSE]
        /\ table' = [TableAfter EXCEPT ![p] = c]
        /\ free' = FreeAfter /\ lru' = Append(LruAfter, c) /\ evictable' = EvictAfter \ {c}
        /\ refFrame' = [refFrame EXCEPT ![r] = c] /\ refPage' = [refPage EXCEPT ![r] = p]
    BY <1>0 DEF Load
  <1>2. c \in Frame /\ c \in L \cup F /\ Holders(c) = {} /\ pin[c] = 0 BY <1>a DEF AllocEffect
  <1>3. /\ lru' \in Seq(Frame) /\ Range(lru') = (L \ {c}) \cup {c} /\ IsInjective(lru')
    <2> DEFINE S == Frame
    <2>1. /\ LruAfter \in Seq(S) /\ IsInjective(LruAfter) /\ Range(LruAfter) = L \ {c} /\ c \in S
      BY <1>a DEF AllocEffect
    <2>2. c \notin Range(LruAfter) BY <2>1
    <2> HIDE DEF S, L
    <2>3. /\ Append(LruAfter, c) \in Seq(S) /\ Range(Append(LruAfter, c)) = Range(LruAfter) \cup {c}
          /\ IsInjective(Append(LruAfter, c))
      BY <2>1, <2>2, AppendFacts
    <2> QED BY <2>1, <2>3, <1>1 DEF S
  <1>4. /\ free' \in Seq(Frame) /\ Range(free') = F \ {c} /\ IsInjective(free')
        /\ evictable' = evictable \ {c}
    BY <1>a, <1>1 DEF AllocEffect
  <1>5. /\ table' \in [PageId -> Frame \cup {None}] /\ table'[p] = c
        /\ \A q \in PageId : q # p => table'[q] = IF table[q] = c THEN None ELSE table[q]
    BY <1>a, <1>1, <1>2, <1>t DEF AllocEffect
  <1>6. \A q \in PageId : q # p => disk'[q] = IF table[q] = c THEN data[c] ELSE disk[q]
    BY <1>a DEF AllocEffect
  <1>7. Range(lru)' = (L \ {c}) \cup {c} /\ Range(free)' = F \ {c} BY <1>3, <1>4
  <1> HIDE DEF L, F
  <1>8. TypeOK'
    <2>1. /\ pid' \in [Frame -> PageId \cup {None}] /\ data' \in [Frame -> Data]
          /\ pin' \in [Frame -> Nat] /\ dirty' \in [Frame -> BOOLEAN]
          /\ refFrame' \in [Ref -> Frame \cup {None}] /\ refPage' \in [Ref -> PageId \cup {None}]
      BY <1>1, <1>2, <1>t
    <2>2. evictable' \subseteq Range(lru)' BY <1>4, <1>7, <1>t
    <2> QED BY <2>1, <2>2, <1>3, <1>4, <1>5, <1>t DEF TypeOK
  <1>9. ListInv'
    <2>1. ~faulty => Frame \subseteq L \cup F BY DEF IInv, ListInv, L, F
    <2> QED BY <2>1, <1>4, <1>7, <1>u DEF ListInv
  <1>10. /\ Holders(c)' = {r} /\ \A f \in Frame : f # c => Holders(f)' = Holders(f)
    BY <1>1, <1>2, <1>t DEF Holders
  <1>11. NodeInv'
    <2> SUFFICES ASSUME NEW f \in Range(lru)'
                 PROVE  /\ pid'[f] \in PageId /\ table'[pid'[f]] = f
                        /\ pin'[f] = Cardinality(Holders(f)') /\ (f \in evictable' <=> pin'[f] = 0)
                        /\ data'[f] = last'[pid'[f]]
                        /\ dirty'[f] \/ disk'[pid'[f]] = data'[f]
      BY DEF NodeInv
    <2>1. CASE f = c
      <3>1. pid'[f] = p /\ data'[f] = d /\ pin'[f] = 1 /\ f \notin evictable'
        BY <2>1, <1>1, <1>2, <1>4, <1>t
      <3>2. Cardinality(Holders(f)') = 1 BY <2>1, <1>10, FS_Singleton
      <3> QED BY <3>1, <3>2, <2>1, <1>5
    <2>2. CASE f # c
      <3>1. f \in L /\ f \in Frame BY <2>2, <1>7, <1>u
      <3>2. /\ pid[f] \in PageId /\ table[pid[f]] = f
            /\ pin[f] = Cardinality(Holders(f)) /\ (f \in evictable <=> pin[f] = 0)
            /\ data[f] = last[pid[f]]
            /\ dirty[f] \/ disk[pid[f]] = data[f]
        BY <3>1 DEF IInv, NodeInv, L
      <3>3. /\ pid'[f] = pid[f] /\ data'[f] = data[f] /\ pin'[f] = pin[f] /\ dirty'[f] = dirty[f]
            /\ (f \in evictable' <=> f \in evictable) /\ Holders(f)' = Holders(f)
        BY <2>2, <3>1, <1>1, <1>4, <1>10, <1>t
      <3>4. pid[f] # p BY <3>1, <3>2
      <3>5. table'[pid[f]] = f /\ disk'[pid[f]] = disk[pid[f]] /\ last'[pid[f]] = last[pid[f]]
        BY <3>2, <3>4, <2>2, <1>5, <1>6
      <3> QED BY <3>2, <3>3, <3>5
    <2> QED BY <2>1, <2>2
  <1>12. HolderInv'
    <2>1. ASSUME NEW f \in Frame
          PROVE  IsFiniteSet(Holders(f)') /\ (f \notin Range(lru)' => Holders(f)' = {})
      <3>1. CASE f = c BY <3>1, <1>7, <1>10, FS_Singleton
      <3>2. CASE f # c BY <3>2, <1>7, <1>10 DEF IInv, HolderInv, L
      <3> QED BY <3>1, <3>2
    <2>2. ASSUME NEW h \in Ref, refFrame'[h] # None PROVE refPage'[h] = pid'[refFrame'[h]]
      <3>1. CASE h = r BY <3>1, <1>1, <1>2, <1>t
      <3>2. CASE h # r
        <4>1. refFrame'[h] = refFrame[h] /\ refPage'[h] = refPage[h] BY <3>2, <1>1, <1>t
        <4>2. refFrame[h] # c BY <1>2 DEF Holders
        <4>3. refFrame[h] \in Frame /\ pid'[refFrame[h]] = pid[refFrame[h]]
          BY <2>2, <4>1, <4>2, <1>1, <1>t
        <4> QED BY <2>2, <4>1, <4>3 DEF IInv, HolderInv
      <3> QED BY <3>1, <3>2
    <2>3. ASSUME NEW f \in Range(free)'
          PROVE  pin'[f] = 0 /\ \A q \in PageId : table'[q] # f
      <3>1. f \in F /\ f # c /\ f \in Frame BY <1>7, <1>u
      <3>2. pin[f] = 0 /\ \A q \in PageId : table[q] # f BY <3>1 DEF IInv, HolderInv, F
      <3> QED BY <3>1, <3>2, <1>1, <1>5, <1>t
    <2> QED BY <2>1, <2>2, <2>3 DEF HolderInv
  <1>13. TableInv'
    <2>1. ASSUME NEW q \in PageId, table'[q] # None PROVE q \in live'
      BY <2>1, <1>5 DEF IInv, TableInv
    <2>2. ASSUME NEW a \in PageId, NEW b \in PageId, table'[a] # None, table'[a] = table'[b]
          PROVE  a = b
      BY <2>2, <1>5, <1>2 DEF IInv, TableInv
    <2>3. ASSUME NEW q \in live', table'[q] = None PROVE disk'[q] = last'[q]
      <3>1. q # p /\ q \in live /\ q \in PageId BY <2>3, <1>5, <1>2, <1>t
      <3>2. CASE table[q] = c
        <4>1. c \in L BY <3>1, <3>2, <1>2 DEF IInv, HolderInv, F
        <4>2. pid[c] \in PageId /\ table[pid[c]] = c /\ data[c] = last[pid[c]]
          BY <4>1 DEF IInv, NodeInv, L
        <4>3. pid[c] = q BY <4>2, <3>1, <3>2, <1>2 DEF IInv, TableInv
        <4> QED BY <4>2, <4>3, <3>1, <3>2, <1>6
      <3>3. CASE table[q] # c
        BY <3>1, <3>3, <2>3, <1>5, <1>6 DEF IInv, TableInv
      <3> QED BY <3>2, <3>3
    <2> QED BY <2>1, <2>2, <2>3 DEF TableInv
  <1> QED BY <1>8, <1>9, <1>11, <1>12, <1>13 DEF IInv

LEMMA NewPageStep ==
  ASSUME IInv, NEW r \in Ref, NEW p \in PageId, NewPage(r, p)
  PROVE  IInv'
  <1> USE PoolAssumption
  <1>1. refFrame[r] = None /\ p \notin live /\ HasFrame /\ Load(Claimed, p, Zero, r)
    BY DEF NewPage
  <1>2. DiskAfter \in [PageId -> Data]
    <2>1. AllocEffect(Claimed) BY <1>1, AllocFacts
    <2> QED BY <2>1 DEF AllocEffect, IInv, TypeOK
  <1>3. /\ disk' \in [PageId -> Data] /\ disk'[p] = Zero
        /\ \A q \in PageId : q # p => disk'[q] = DiskAfter[q]
    BY <1>2 DEF NewPage
  <1>4. /\ last' \in [PageId -> Data] /\ last'[p] = Zero
        /\ \A q \in PageId : q # p => last'[q] = last[q]
    BY DEF NewPage, IInv, TypeOK
  <1>5. table[p] = None BY <1>1 DEF IInv, TableInv
  <1>6. live' = live \cup {p} /\ faulty' = faulty BY DEF NewPage
  <1>7. Zero \in Data OBVIOUS
  <1> QED BY <1>1, <1>3, <1>4, <1>5, <1>6, <1>7, LoadStep

LEMMA FetchMissStep ==
  ASSUME IInv, NEW r \in Ref, NEW p \in PageId, FetchMiss(r, p)
  PROVE  IInv'
  <1> USE PoolAssumption
  <1>1. /\ refFrame[r] = None /\ p \in live /\ table[p] = None /\ HasFrame
        /\ Load(Claimed, p, DiskAfter[p], r) /\ disk' = DiskAfter
        /\ live' = live /\ last' = last /\ faulty' = faulty
    BY DEF FetchMiss
  <1>2. AllocEffect(Claimed) BY <1>1, AllocFacts
  <1>3. DiskAfter \in [PageId -> Data] BY <1>2 DEF AllocEffect, IInv, TypeOK
  <1>4. DiskAfter[p] = disk[p] BY <1>1, <1>2 DEF AllocEffect
  <1>5. last \in [PageId -> Data] /\ disk[p] = last[p] BY <1>1 DEF IInv, TypeOK, TableInv
  <1>6. live' = live \cup {p} BY <1>1
  <1>7. PICK e \in Data : e = DiskAfter[p] BY <1>3
  <1>8. Load(Claimed, p, e, r) BY <1>1, <1>7
  <1> QED BY <1>1, <1>3, <1>4, <1>5, <1>6, <1>7, <1>8, LoadStep

(* The steps below leave the pool's lists alone. *)
LEMMA FetchHitStep ==
  ASSUME IInv, NEW r \in Ref, NEW p \in PageId, FetchHit(r, p)
  PROVE  IInv'
  <1> USE PoolAssumption
  <1>0. PICK f : f = table[p] OBVIOUS
  <1>1. /\ refFrame[r] = None /\ p \in live /\ f # None /\ f \in Range(lru)
        /\ pin' = [pin EXCEPT ![f] = @ + 1] /\ evictable' = evictable \ {f}
        /\ refFrame' = [refFrame EXCEPT ![r] = f] /\ refPage' = [refPage EXCEPT ![r] = p]
        /\ UNCHANGED <<pid, data, dirty, table, free, lru, disk, live, last, faulty>>
    BY <1>0 DEF FetchHit, PinHit
  <1>t. /\ pin \in [Frame -> Nat] /\ refFrame \in [Ref -> Frame \cup {None}]
        /\ refPage \in [Ref -> PageId \cup {None}] /\ evictable \subseteq Range(lru)
    BY DEF IInv, TypeOK
  <1>2. f \in Frame BY <1>1, RangeInFrame DEF IInv
  <1>3. pid[f] = p
    BY <1>0, <1>1 DEF IInv, NodeInv, TableInv
  <1>4. TypeOK' BY <1>1, <1>2, <1>t DEF IInv, TypeOK
  <1>5. ListInv' BY <1>1 DEF IInv, ListInv
  <1>6. /\ Holders(f)' = Holders(f) \cup {r} /\ r \notin Holders(f)
        /\ \A g \in Frame : g # f => Holders(g)' = Holders(g)
    BY <1>1, <1>2, <1>t DEF Holders
  <1>7. /\ IsFiniteSet(Holders(f)) /\ IsFiniteSet(Holders(f)') /\ Cardinality(Holders(f)) \in Nat
        /\ Cardinality(Holders(f)') = Cardinality(Holders(f)) + 1
    <2>1. IsFiniteSet(Holders(f)) BY <1>2 DEF IInv, HolderInv
    <2> QED BY <2>1, <1>6, FS_AddElement, FS_CardinalityType
  <1>8. NodeInv'
    <2> SUFFICES ASSUME NEW g \in Range(lru)
                 PROVE  pin'[g] = Cardinality(Holders(g)') /\ (g \in evictable' <=> pin'[g] = 0)
      BY <1>1 DEF IInv, NodeInv
    <2>0. g \in Frame BY RangeInFrame DEF IInv
    <2>1. pin[g] = Cardinality(Holders(g)) /\ (g \in evictable <=> pin[g] = 0)
      BY DEF IInv, NodeInv
    <2>2. CASE g = f BY <2>1, <2>2, <1>1, <1>2, <1>7, <1>t
    <2>3. CASE g # f BY <2>0, <2>1, <2>3, <1>1, <1>6, <1>t
    <2> QED BY <2>2, <2>3
  <1>9. HolderInv'
    <2>1. ASSUME NEW g \in Frame
          PROVE  IsFiniteSet(Holders(g)') /\ (g \notin Range(lru)' => Holders(g)' = {})
      <3>1. CASE g = f BY <3>1, <1>1, <1>7
      <3>2. CASE g # f BY <3>2, <1>1, <1>6 DEF IInv, HolderInv
      <3> QED BY <3>1, <3>2
    <2>2. ASSUME NEW h \in Ref, refFrame'[h] # None PROVE refPage'[h] = pid'[refFrame'[h]]
      BY <2>2, <1>1, <1>3, <1>t DEF IInv, HolderInv
    <2>3. ASSUME NEW g \in Range(free) PROVE pin'[g] = 0
      <3>1. g # f /\ g \in Frame BY <1>1, RangeInFrame DEF IInv, ListInv
      <3> QED BY <3>1, <1>1, <1>t DEF IInv, HolderInv
    <2> QED BY <2>1, <2>2, <2>3, <1>1 DEF IInv, HolderInv
  <1>10. TableInv' BY <1>1 DEF IInv, TableInv
  <1> QED BY <1>4, <1>5, <1>8, <1>9, <1>10 DEF IInv

LEMMA FetchHitFailsStep ==
  ASSUME IInv, NEW p \in PageId, FetchHitFails(p)
  PROVE  IInv'
  <1> USE PoolAssumption
  <1>0. PICK f : f = table[p] OBVIOUS
  <1>1. /\ f # None /\ f \notin Range(lru) /\ pin' = [pin EXCEPT ![f] = @ + 1]
        /\ UNCHANGED <<pid, data, dirty, table, free, lru, evictable, refFrame, refPage, disk,
                       live, last, faulty>>
    BY <1>0 DEF FetchHitFails, lists, handles
  <1>t. pin \in [Frame -> Nat] /\ table \in [PageId -> Frame \cup {None}]
    BY DEF IInv, TypeOK
  <1>2. f \in Frame BY <1>0, <1>1, <1>t
  <1>3. TypeOK' BY <1>1, <1>2, <1>t DEF IInv, TypeOK
  <1>4. ListInv' BY <1>1 DEF IInv, ListInv
  <1>5. \A g : Holders(g)' = Holders(g) BY <1>1 DEF Holders
  <1>6. \A g \in Range(lru) : pin'[g] = pin[g] BY <1>1, <1>t, RangeInFrame DEF IInv
  <1>7. NodeInv' BY <1>1, <1>5, <1>6 DEF IInv, NodeInv
  <1>8. \A g \in Range(free) : pin'[g] = pin[g]
    BY <1>0, <1>1, <1>t, RangeInFrame DEF IInv, HolderInv
  <1>9. HolderInv' BY <1>1, <1>5, <1>8 DEF IInv, HolderInv
  <1>10. TableInv' BY <1>1 DEF IInv, TableInv
  <1> QED BY <1>3, <1>4, <1>7, <1>9, <1>10 DEF IInv

(* A frame is claimed and lost: the page table has it for page p, or goes  *)
(* on having it for its old page.                                          *)
LEMMA FetchMissFailsStep ==
  ASSUME IInv, NEW p \in PageId, FetchMissFails(p)
  PROVE  IInv'
  <1> USE PoolAssumption
  <1>0. PICK c : c = Claimed OBVIOUS
  <1> DEFINE L == Range(lru)
             F == Range(free)
  <1>1. /\ faulty /\ p \in live /\ table[p] = None /\ HasFrame
        /\ table' = [TableAfter EXCEPT ![p] = c]
        /\ free' = FreeAfter /\ lru' = LruAfter /\ evictable' = EvictAfter /\ disk' = DiskAfter
        /\ dirty' = IF free # <<>> THEN dirty ELSE [dirty EXCEPT ![c] = FALSE]
        /\ UNCHANGED <<pid, data, pin, refFrame, refPage, live, last, faulty>>
    BY <1>0 DEF FetchMissFails, Claimed, handles
  <1>a. AllocEffect(c) BY <1>0, <1>1, AllocFacts
  <1>t. /\ table \in [PageId -> Frame \cup {None}] /\ evictable \subseteq L
        /\ disk \in [PageId -> Data] /\ data \in [Frame -> Data] /\ live \subseteq PageId
    BY DEF IInv, TypeOK
  <1>u. L \subseteq Frame /\ F \subseteq Frame /\ L \cap F = {}
    BY RangeInFrame DEF IInv, ListInv
  <1>2. c \in Frame /\ c \in L \cup F /\ Holders(c) = {} /\ pin[c] = 0 BY <1>a DEF AllocEffect
  <1>3. /\ table' \in [PageId -> Frame \cup {None}] /\ table'[p] = c
        /\ \A q \in PageId : q # p => table'[q] = IF table[q] = c THEN None ELSE table[q]
    BY <1>a, <1>1, <1>2, <1>t DEF AllocEffect
  <1>4. /\ disk' \in [PageId -> Data]
        /\ \A q \in PageId : disk'[q] = IF table[q] = c THEN data[c] ELSE disk[q]
    BY <1>a, <1>1, <1>2, <1>t DEF AllocEffect
  <1>5. Range(lru)' = L \ {c} /\ Range(free)' = F \ {c} /\ evictable' = evictable \ {c}
    BY <1>1, <1>a DEF AllocEffect
  <1>6. /\ lru' \in Seq(Frame) /\ IsInjective(lru') /\ free' \in Seq(Frame) /\ IsInjective(free')
    BY <1>1, <1>a DEF AllocEffect
  <1>d. dirty' \in [Frame -> BOOLEAN] /\ \A f \in Frame : f # c => dirty'[f] = dirty[f]
    <2>1. dirty \in [Frame -> BOOLEAN] BY DEF IInv, TypeOK
    <2> QED BY <2>1, <1>1, <1>2
  <1> HIDE DEF L, F
  <1>7. TypeOK'
    <2>1. evictable' \subseteq Range(lru)' BY <1>5, <1>t
    <2> QED BY <2>1, <1>1, <1>3, <1>4, <1>6, <1>d DEF IInv, TypeOK
  <1>8. ListInv' BY <1>1, <1>5, <1>6, <1>u DEF ListInv
  <1>9. \A g : Holders(g)' = Holders(g) BY <1>1 DEF Holders
  <1>10. NodeInv'
    <2> SUFFICES ASSUME NEW f \in L, f # c
                 PROVE  /\ pid'[f] \in PageId /\ table'[pid'[f]] = f
                        /\ pin'[f] = Cardinality(Holders(f)') /\ (f \in evictable' <=> pin'[f] = 0)
                        /\ data'[f] = last'[pid'[f]]
                        /\ dirty'[f] \/ disk'[pid'[f]] = data'[f]
      BY <1>5 DEF NodeInv
    <2>1. /\ pid[f] \in PageId /\ table[pid[f]] = f
          /\ pin[f] = Cardinality(Holders(f)) /\ (f \in evictable <=> pin[f] = 0)
          /\ data[f] = last[pid[f]]
          /\ dirty[f] \/ disk[pid[f]] = data[f]
      BY DEF IInv, NodeInv, L
    <2>2. pid[f] # p BY <2>1, <1>1, <1>u
    <2>3. table'[pid[f]] = f /\ disk'[pid[f]] = disk[pid[f]] BY <2>1, <2>2, <1>3, <1>4
    <2> QED BY <2>1, <2>3, <1>1, <1>5, <1>9, <1>d, <1>u
  <1>11. HolderInv'
    <2>1. ASSUME NEW f \in Frame
          PROVE  IsFiniteSet(Holders(f)') /\ (f \notin Range(lru)' => Holders(f)' = {})
      BY <1>2, <1>5, <1>9 DEF IInv, HolderInv, L
    <2>2. ASSUME NEW f \in Range(free)'
          PROVE  pin'[f] = 0 /\ \A q \in PageId : table'[q] # f
      <3>1. f \in F /\ f # c /\ f \in Frame BY <1>5, <1>u
      <3>2. pin[f] = 0 /\ \A q \in PageId : table[q] # f BY <3>1 DEF IInv, HolderInv, F
      <3> QED BY <3>1, <3>2, <1>1, <1>3
    <2> QED BY <2>1, <2>2, <1>1 DEF IInv, HolderInv
  <1>12. TableInv'
    <2>1. ASSUME NEW q \in PageId, table'[q] # None PROVE q \in live'
      BY <2>1, <1>1, <1>3 DEF IInv, TableInv
    <2>2. ASSUME NEW a \in PageId, NEW b \in PageId, table'[a] # None, table'[a] = table'[b]
          PROVE  a = b
      BY <2>2, <1>2, <1>3 DEF IInv, TableInv
    <2>3. ASSUME NEW q \in live, table'[q] = None PROVE disk'[q] = last[q]
      <3>1. q # p /\ q \in PageId BY <2>3, <1>2, <1>3, <1>t
      <3>2. CASE table[q] = c
        <4>1. c \in L BY <3>1, <3>2, <1>2 DEF IInv, HolderInv, F
        <4>2. pid[c] \in PageId /\ table[pid[c]] = c /\ data[c] = last[pid[c]]
          BY <4>1 DEF IInv, NodeInv, L
        <4>3. pid[c] = q BY <4>2, <3>1, <3>2, <1>2 DEF IInv, TableInv
        <4> QED BY <4>2, <4>3, <3>1, <3>2, <1>4
      <3>3. CASE table[q] # c
        BY <3>1, <3>3, <2>3, <1>3, <1>4 DEF IInv, TableInv
      <3> QED BY <3>2, <3>3
    <2> QED BY <2>1, <2>2, <2>3, <1>1 DEF TableInv
  <1> QED BY <1>7, <1>8, <1>10, <1>11, <1>12 DEF IInv

LEMMA EvictFailsStep ==
  ASSUME IInv, EvictFails
  PROVE  IInv'
  <1> USE PoolAssumption
  <1>0. PICK c : c = Claimed OBVIOUS
  <1>1. /\ faulty /\ lru' = LruAfter /\ evictable' = EvictAfter /\ HasFrame
        /\ UNCHANGED <<pid, data, pin, dirty, table, free, refFrame, refPage, disk, live, last,
                       faulty>>
    BY DEF EvictFails, pool, handles, HasFrame
  <1>a. AllocEffect(c) BY <1>0, <1>1, AllocFacts
  <1>2. c \in Frame /\ Holders(c) = {} BY <1>a DEF AllocEffect
  <1>3. /\ Range(lru)' = Range(lru) \ {c} /\ evictable' = evictable \ {c}
        /\ lru' \in Seq(Frame) /\ IsInjective(lru')
    BY <1>1, <1>a DEF AllocEffect
  <1>4. TypeOK'
    <2>1. evictable' \subseteq Range(lru)' BY <1>3 DEF IInv, TypeOK
    <2> QED BY <2>1, <1>1, <1>3 DEF IInv, TypeOK
  <1>5. ListInv' BY <1>1, <1>3 DEF IInv, ListInv
  <1>6. \A g : Holders(g)' = Holders(g) BY <1>1 DEF Holders
  <1>7. NodeInv' BY <1>1, <1>3, <1>6 DEF IInv, NodeInv
  <1>8. HolderInv' BY <1>1, <1>2, <1>3, <1>6 DEF IInv, HolderInv
  <1>9. TableInv' BY <1>1 DEF IInv, TableInv
  <1> QED BY <1>4, <1>5, <1>7, <1>8, <1>9 DEF IInv

(* A handle's frame has a node, and holds the page the handle is for. *)
LEMMA HeldFrame ==
  ASSUME IInv, NEW r \in Ref, refFrame[r] # None
  PROVE  /\ refFrame[r] \in Frame /\ refFrame[r] \in Range(lru)
         /\ pid[refFrame[r]] = refPage[r] /\ refPage[r] \in PageId
         /\ table[refPage[r]] = refFrame[r] /\ refPage[r] \in live
         /\ data[refFrame[r]] = last[refPage[r]]
         /\ pin[refFrame[r]] = Cardinality(Holders(refFrame[r])) /\ r \in Holders(refFrame[r])
  <1>1. refFrame[r] \in Frame /\ r \in Holders(refFrame[r]) BY DEF IInv, TypeOK, Holders
  <1>2. refFrame[r] \in Range(lru) BY <1>1 DEF IInv, HolderInv
  <1>3. pid[refFrame[r]] = refPage[r] BY DEF IInv, HolderInv
  <1>4. /\ refPage[r] \in PageId /\ table[refPage[r]] = refFrame[r]
        /\ data[refFrame[r]] = last[refPage[r]]
        /\ pin[refFrame[r]] = Cardinality(Holders(refFrame[r]))
    BY <1>2, <1>3 DEF IInv, NodeInv
  <1>5. refPage[r] \in live BY <1>4 DEF IInv, TableInv
  <1> QED BY <1>1, <1>2, <1>3, <1>4, <1>5

LEMMA WriteStep ==
  ASSUME IInv, NEW r \in Ref, NEW d \in Data, Write(r, d)
  PROVE  IInv'
  <1> USE PoolAssumption
  <1>0. PICK f, p : f = refFrame[r] /\ p = refPage[r] OBVIOUS
  <1>1. /\ f # None /\ data' = [data EXCEPT ![f] = d] /\ dirty' = [dirty EXCEPT ![f] = TRUE]
        /\ last' = [last EXCEPT ![p] = d]
        /\ UNCHANGED <<pid, pin, table, free, lru, evictable, refFrame, refPage, disk, live, faulty>>
    BY <1>0 DEF Write, lists, handles
  <1>2. f \in Frame /\ f \in Range(lru) /\ pid[f] = p /\ p \in PageId /\ table[p] = f
    BY <1>0, <1>1, HeldFrame
  <1>t. /\ data \in [Frame -> Data] /\ dirty \in [Frame -> BOOLEAN] /\ last \in [PageId -> Data]
    BY DEF IInv, TypeOK
  <1>3. TypeOK' BY <1>1, <1>2, <1>t DEF IInv, TypeOK
  <1>4. ListInv' BY <1>1 DEF IInv, ListInv
  <1>5. \A g : Holders(g)' = Holders(g) BY <1>1 DEF Holders
  <1>6. NodeInv'
    <2> SUFFICES ASSUME NEW g \in Range(lru)
                 PROVE  data'[g] = last'[pid[g]] /\ (dirty'[g] \/ disk[pid[g]] = data'[g])
      BY <1>1, <1>5 DEF IInv, NodeInv
    <2>1. /\ g \in Frame /\ pid[g] \in PageId /\ table[pid[g]] = g
          /\ data[g] = last[pid[g]] /\ (dirty[g] \/ disk[pid[g]] = data[g])
      BY RangeInFrame DEF IInv, NodeInv
    <2>2. CASE g = f BY <2>1, <2>2, <1>1, <1>2, <1>t
    <2>3. CASE g # f
      <3>1. pid[g] # p BY <2>1, <2>3, <1>2
      <3> QED BY <2>1, <2>3, <3>1, <1>1, <1>2, <1>t
    <2> QED BY <2>2, <2>3
  <1>7. HolderInv' BY <1>1, <1>5 DEF IInv, HolderInv
  <1>8. TableInv'
    <2>1. \A q \in live : table[q] = None => last'[q] = last[q]
      <3>1. live \subseteq PageId BY DEF IInv, TypeOK
      <3> QED BY <3>1, <1>1, <1>2, <1>t
    <2> QED BY <2>1, <1>1 DEF IInv, TableInv
  <1> QED BY <1>3, <1>4, <1>6, <1>7, <1>8 DEF IInv

LEMMA DropStep ==
  ASSUME IInv, NEW r \in Ref, Drop(r)
  PROVE  IInv'
  <1> USE PoolAssumption
  <1>0. PICK f : f = refFrame[r] OBVIOUS
  <1>1. /\ f # None
        /\ refFrame' = [refFrame EXCEPT ![r] = None] /\ refPage' = [refPage EXCEPT ![r] = None]
        /\ UNCHANGED <<pid, data, dirty, table, free, lru, disk, live, last, faulty>>
        /\ IF pin[f] = 0 \/ table[pid[f]] = None THEN UNCHANGED <<pin, evictable>> ELSE Unpin(f)
    BY <1>0 DEF Drop
  <1>2. /\ f \in Frame /\ f \in Range(lru) /\ table[pid[f]] = f
        /\ pin[f] = Cardinality(Holders(f)) /\ r \in Holders(f)
    BY <1>0, <1>1, HeldFrame
  <1>3. IsFiniteSet(Holders(f)) /\ Cardinality(Holders(f)) \in Nat
    BY <1>2, FS_CardinalityType DEF IInv, HolderInv
  <1>4. pin[f] # 0 BY <1>2, <1>3, FS_EmptySet
  <1>t. /\ pin \in [Frame -> Nat] /\ refFrame \in [Ref -> Frame \cup {None}]
        /\ refPage \in [Ref -> PageId \cup {None}] /\ evictable \subseteq Range(lru)
    BY DEF IInv, TypeOK
  <1>5. /\ pin' = [pin EXCEPT ![f] = @ - 1] /\ pin[f] - 1 \in Nat
        /\ evictable' = IF pin[f] = 1 THEN evictable \cup {f} ELSE evictable
    <2>1. Unpin(f) BY <1>1, <1>2, <1>4
    <2>2. pin[f] \in Nat BY <1>2, <1>t
    <2> QED BY <2>1, <2>2, <1>4 DEF Unpin
  <1>6. TypeOK'
    <2>1. pin' \in [Frame -> Nat] BY <1>2, <1>5, <1>t
    <2>2. refFrame' \in [Ref -> Frame \cup {None}] /\ refPage' \in [Ref -> PageId \cup {None}]
      BY <1>1, <1>t
    <2>3. evictable' \subseteq Range(lru) BY <1>2, <1>5, <1>t
    <2> QED BY <2>1, <2>2, <2>3, <1>1 DEF IInv, TypeOK
  <1>7. ListInv' BY <1>1 DEF IInv, ListInv
  <1>8. /\ Holders(f)' = Holders(f) \ {r} /\ \A g \in Frame : g # f => Holders(g)' = Holders(g)
    BY <1>0, <1>1, <1>2, <1>t DEF Holders
  <1>9. IsFiniteSet(Holders(f)') /\ Cardinality(Holders(f)') = Cardinality(Holders(f)) - 1
    BY <1>2, <1>3, <1>8, FS_RemoveElement
  <1>10. NodeInv'
    <2> SUFFICES ASSUME NEW g \in Range(lru)
                 PROVE  pin'[g] = Cardinality(Holders(g)') /\ (g \in evictable' <=> pin'[g] = 0)
      BY <1>1 DEF IInv, NodeInv
    <2>0. g \in Frame BY RangeInFrame DEF IInv
    <2>1. pin[g] = Cardinality(Holders(g)) /\ (g \in evictable <=> pin[g] = 0)
      BY DEF IInv, NodeInv
    <2>2. CASE g = f
      <3>1. pin'[g] = pin[g] - 1 /\ pin[g] \in Nat /\ pin[g] # 0
        BY <2>2, <1>2, <1>4, <1>5, <1>t
      <3> QED BY <2>1, <2>2, <3>1, <1>5, <1>9
    <2>3. CASE g # f BY <2>0, <2>1, <2>3, <1>5, <1>8, <1>t
    <2> QED BY <2>2, <2>3
  <1>11. HolderInv'
    <2>1. ASSUME NEW g \in Frame
          PROVE  IsFiniteSet(Holders(g)') /\ (g \notin Range(lru)' => Holders(g)' = {})
      <3>1. CASE g = f BY <3>1, <1>1, <1>2, <1>9
      <3>2. CASE g # f BY <3>2, <1>1, <1>8 DEF IInv, HolderInv
      <3> QED BY <3>1, <3>2
    <2>2. ASSUME NEW h \in Ref, refFrame'[h] # None PROVE refPage'[h] = pid'[refFrame'[h]]
      BY <2>2, <1>1, <1>t DEF IInv, HolderInv
    <2>3. ASSUME NEW g \in Range(free) PROVE pin'[g] = 0
      <3>1. g # f /\ g \in Frame BY <1>2, RangeInFrame DEF IInv, ListInv
      <3> QED BY <3>1, <1>5, <1>t DEF IInv, HolderInv
    <2> QED BY <2>1, <2>2, <2>3, <1>1 DEF IInv, HolderInv
  <1>12. TableInv' BY <1>1 DEF IInv, TableInv
  <1> QED BY <1>6, <1>7, <1>10, <1>11, <1>12 DEF IInv

(* A flush writes pages as their frames have them. *)
LEMMA FlushPageStep ==
  ASSUME IInv, NEW p \in PageId, FlushPage(p)
  PROVE  IInv'
  <1> USE PoolAssumption
  <1>0. PICK f : f = table[p] OBVIOUS
  <1>1. /\ f # None /\ disk' = [disk EXCEPT ![p] = data[f]]
        /\ dirty' = [dirty EXCEPT ![f] = FALSE]
        /\ UNCHANGED <<pid, data, pin, table, free, lru, evictable, refFrame, refPage, live, last,
                       faulty>>
    BY <1>0 DEF FlushPage, lists, handles
  <1>t. /\ data \in [Frame -> Data] /\ dirty \in [Frame -> BOOLEAN] /\ disk \in [PageId -> Data]
        /\ table \in [PageId -> Frame \cup {None}] /\ live \subseteq PageId
    BY DEF IInv, TypeOK
  <1>2. f \in Frame BY <1>0, <1>1, <1>t
  <1>3. TypeOK' BY <1>1, <1>2, <1>t DEF IInv, TypeOK
  <1>4. ListInv' BY <1>1 DEF IInv, ListInv
  <1>5. \A g : Holders(g)' = Holders(g) BY <1>1 DEF Holders
  <1>6. NodeInv'
    <2> SUFFICES ASSUME NEW g \in Range(lru)
                 PROVE  dirty'[g] \/ disk'[pid[g]] = data[g]
      BY <1>1, <1>5 DEF IInv, NodeInv
    <2>1. /\ g \in Frame /\ pid[g] \in PageId /\ table[pid[g]] = g
          /\ (dirty[g] \/ disk[pid[g]] = data[g])
      BY RangeInFrame DEF IInv, NodeInv
    <2>2. CASE g = f
      <3>1. pid[g] = p BY <2>1, <2>2, <1>0, <1>1 DEF IInv, TableInv
      <3> QED BY <2>2, <3>1, <1>1, <1>t
    <2>3. CASE g # f
      <3>1. pid[g] # p BY <2>1, <2>3, <1>0
      <3> QED BY <2>1, <2>3, <3>1, <1>1, <1>t
    <2> QED BY <2>2, <2>3
  <1>7. HolderInv' BY <1>1, <1>5 DEF IInv, HolderInv
  <1>8. TableInv'
    <2>1. \A q \in live : table[q] = None => disk'[q] = disk[q] BY <1>0, <1>1, <1>t
    <2> QED BY <2>1, <1>1 DEF IInv, TableInv
  <1> QED BY <1>3, <1>4, <1>6, <1>7, <1>8 DEF IInv

LEMMA FlushAllPagesStep ==
  ASSUME IInv, FlushAllPages
  PROVE  IInv'
  <1> USE PoolAssumption
  <1>1. /\ disk' = [p \in PageId |-> IF table[p] # None THEN data[table[p]] ELSE disk[p]]
        /\ dirty' = [f \in Frame |-> dirty[f] /\ \A p \in PageId : table[p] # f]
        /\ UNCHANGED <<pid, data, pin, table, free, lru, evictable, refFrame, refPage, live, last,
                       faulty>>
    BY DEF FlushAllPages, lists, handles
  <1>t. /\ data \in [Frame -> Data] /\ disk \in [PageId -> Data]
        /\ table \in [PageId -> Frame \cup {None}] /\ live \subseteq PageId
    BY DEF IInv, TypeOK
  <1>2. disk' \in [PageId -> Data] /\ dirty' \in [Frame -> BOOLEAN] BY <1>1, <1>t
  <1>3. TypeOK' BY <1>1, <1>2 DEF IInv, TypeOK
  <1>4. ListInv' BY <1>1 DEF IInv, ListInv
  <1>5. \A g : Holders(g)' = Holders(g) BY <1>1 DEF Holders
  <1>6. NodeInv'
    <2> SUFFICES ASSUME NEW g \in Range(lru)
                 PROVE  disk'[pid[g]] = data[g]
      BY <1>1, <1>5 DEF IInv, NodeInv
    <2>1. g \in Frame /\ pid[g] \in PageId /\ table[pid[g]] = g
      BY RangeInFrame DEF IInv, NodeInv
    <2> QED BY <2>1, <1>1
  <1>7. HolderInv' BY <1>1, <1>5 DEF IInv, HolderInv
  <1>8. TableInv'
    <2>1. \A q \in live : table[q] = None => disk'[q] = disk[q] BY <1>1, <1>t
    <2> QED BY <2>1, <1>1 DEF IInv, TableInv
  <1> QED BY <1>3, <1>4, <1>6, <1>7, <1>8 DEF IInv

(* delete_page, whether deallocate_page fails or not. *)
LEMMA DiscardStep ==
  ASSUME IInv, NEW p \in PageId, Discard(p), disk' \in {disk, [disk EXCEPT ![p] = Zero]}
  PROVE  IInv'
  <1> USE PoolAssumption
  <1>0. PICK f : f = table[p] OBVIOUS
  <1>1. /\ p \in live /\ f # None /\ pin[f] = 0
        /\ pid' = [pid EXCEPT ![f] = None] /\ data' = [data EXCEPT ![f] = Zero]
        /\ dirty' = [dirty EXCEPT ![f] = FALSE] /\ free' = Append(free, f)
        /\ lru' = RemoveFirst(lru, f) /\ evictable' = evictable \ {f}
        /\ table' = [table EXCEPT ![p] = None] /\ live' = live \ {p}
        /\ UNCHANGED <<pin, refFrame, refPage, last, faulty>>
    BY <1>0 DEF Discard, handles
  <1>t. /\ pid \in [Frame -> PageId \cup {None}] /\ data \in [Frame -> Data]
        /\ pin \in [Frame -> Nat] /\ dirty \in [Frame -> BOOLEAN]
        /\ table \in [PageId -> Frame \cup {None}] /\ disk \in [PageId -> Data]
        /\ live \subseteq PageId /\ evictable \subseteq Range(lru)
        /\ free \in Seq(Frame) /\ IsInjective(free) /\ lru \in Seq(Frame) /\ IsInjective(lru)
    BY DEF IInv, TypeOK, ListInv
  <1>2. f \in Frame /\ f \notin Range(free)
    BY <1>0, <1>1, <1>t DEF IInv, HolderInv
  <1>3. /\ lru' \in Seq(Frame) /\ IsInjective(lru') /\ free' \in Seq(Frame) /\ IsInjective(free')
        /\ Range(lru)' = Range(lru) \ {f} /\ Range(free)' = Range(free) \cup {f}
    <2> DEFINE S == Frame
    <2>1. free \in Seq(S) /\ lru \in Seq(S) /\ f \in S BY <1>2, <1>t
    <2> HIDE DEF S
    <2>2. /\ Append(free, f) \in Seq(S) /\ Range(Append(free, f)) = Range(free) \cup {f}
          /\ IsInjective(Append(free, f))
      BY <2>1, <1>2, <1>t, AppendFacts
    <2>3. /\ RemoveFirst(lru, f) \in Seq(S) /\ Range(RemoveFirst(lru, f)) = Range(lru) \ {f}
          /\ IsInjective(RemoveFirst(lru, f))
      BY <2>1, <1>t, RemoveFirstFacts
    <2> QED BY <2>2, <2>3, <1>1 DEF S
  <1>4. \A g : Holders(g)' = Holders(g) BY <1>1 DEF Holders
  <1>5. Holders(f) = {}
    <2>1. f \in Range(lru) => pin[f] = Cardinality(Holders(f)) BY DEF IInv, NodeInv
    <2> QED BY <2>1, <1>1, <1>2, FS_EmptySet DEF IInv, HolderInv
  <1>6. /\ disk' \in [PageId -> Data] /\ \A q \in PageId : q # p => disk'[q] = disk[q]
    <2>1. CASE disk' = disk BY <2>1, <1>t
    <2>2. CASE disk' = [disk EXCEPT ![p] = Zero] BY <2>2, <1>t
    <2> QED BY <2>1, <2>2
  <1>7. /\ table' \in [PageId -> Frame \cup {None}] /\ table'[p] = None
        /\ \A q \in PageId : q # p => table'[q] = table[q]
    BY <1>1, <1>t
  <1>8. TypeOK'
    <2>1. /\ pid' \in [Frame -> PageId \cup {None}] /\ data' \in [Frame -> Data]
          /\ dirty' \in [Frame -> BOOLEAN]
      BY <1>1, <1>2, <1>t
    <2>2. evictable' \subseteq Range(lru)' /\ live' \subseteq PageId BY <1>1, <1>3, <1>t
    <2> QED BY <2>1, <2>2, <1>1, <1>3, <1>6, <1>7 DEF IInv, TypeOK
  <1>9. ListInv' BY <1>1, <1>2, <1>3 DEF IInv, ListInv
  <1>10. NodeInv'
    <2> SUFFICES ASSUME NEW g \in Range(lru), g # f
                 PROVE  /\ pid'[g] \in PageId /\ table'[pid'[g]] = g
                        /\ pin'[g] = Cardinality(Holders(g)') /\ (g \in evictable' <=> pin'[g] = 0)
                        /\ data'[g] = last'[pid'[g]]
                        /\ dirty'[g] \/ disk'[pid'[g]] = data'[g]
      BY <1>3 DEF NodeInv
    <2>1. /\ pid[g] \in PageId /\ table[pid[g]] = g
          /\ pin[g] = Cardinality(Holders(g)) /\ (g \in evictable <=> pin[g] = 0)
          /\ data[g] = last[pid[g]]
          /\ dirty[g] \/ disk[pid[g]] = data[g]
      BY DEF IInv, NodeInv
    <2>2. g \in Frame BY RangeInFrame DEF IInv
    <2>3. pid'[g] = pid[g] /\ data'[g] = data[g] /\ dirty'[g] = dirty[g] BY <2>2, <1>1, <1>t
    <2>4. pid[g] # p BY <2>1, <1>0
    <2> QED BY <2>1, <2>3, <2>4, <1>1, <1>4, <1>6, <1>7
  <1>11. HolderInv'
    <2>1. ASSUME NEW g \in Frame
          PROVE  IsFiniteSet(Holders(g)') /\ (g \notin Range(lru)' => Holders(g)' = {})
      BY <1>3, <1>4, <1>5 DEF IInv, HolderInv
    <2>2. ASSUME NEW h \in Ref, refFrame'[h] # None PROVE refPage'[h] = pid'[refFrame'[h]]
      <3>1. refFrame'[h] = refFrame[h] /\ refPage'[h] = refPage[h] BY <1>1
      <3>2. refFrame[h] # f BY <1>5 DEF Holders
      <3>3. refFrame[h] \in Frame /\ pid'[refFrame[h]] = pid[refFrame[h]]
        BY <2>2, <3>1, <3>2, <1>1, <1>t DEF IInv, TypeOK
      <3> QED BY <2>2, <3>1, <3>3 DEF IInv, HolderInv
    <2>3. ASSUME NEW g \in Range(free)'
          PROVE  pin'[g] = 0 /\ \A q \in PageId : table'[q] # g
      <3>1. CASE g = f
        <4>1. \A q \in PageId : table'[q] # f
          BY <1>0, <1>1, <1>2, <1>7 DEF IInv, TableInv
        <4> QED BY <3>1, <4>1, <1>1
      <3>2. CASE g # f
        <4>1. g \in Range(free) /\ g # None BY <3>2, <1>3, RangeInFrame DEF IInv
        <4> QED BY <4>1, <1>1, <1>7 DEF IInv, HolderInv
      <3> QED BY <3>1, <3>2
    <2> QED BY <2>1, <2>2, <2>3 DEF HolderInv
  <1>12. TableInv'
    <2>1. ASSUME NEW q \in PageId, table'[q] # None PROVE q \in live'
      BY <2>1, <1>1, <1>7 DEF IInv, TableInv
    <2>2. ASSUME NEW a \in PageId, NEW b \in PageId, table'[a] # None, table'[a] = table'[b]
          PROVE  a = b
      BY <2>2, <1>7 DEF IInv, TableInv
    <2>3. ASSUME NEW q \in live', table'[q] = None PROVE disk'[q] = last'[q]
      BY <2>3, <1>1, <1>6, <1>7, <1>t DEF IInv, TableInv
    <2> QED BY <2>1, <2>2, <2>3 DEF TableInv
  <1> QED BY <1>8, <1>9, <1>10, <1>11, <1>12 DEF IInv

LEMMA NextInv ==
  ASSUME IInv, [Next]_vars
  PROVE  IInv'
  <1>1. ASSUME NEW r \in Ref, NEW p \in PageId, NewPage(r, p) \/ FetchHit(r, p) \/ FetchMiss(r, p)
        PROVE  IInv'
    BY <1>1, NewPageStep, FetchHitStep, FetchMissStep
  <1>2. ASSUME NEW r \in Ref, Drop(r) \/ \E d \in Data : Write(r, d)
        PROVE  IInv'
    BY <1>2, DropStep, WriteStep
  <1>3. ASSUME NEW p \in PageId, FetchHitFails(p) \/ FetchMissFails(p) \/ FlushPage(p)
        PROVE  IInv'
    BY <1>3, FetchHitFailsStep, FetchMissFailsStep, FlushPageStep
  <1>4. ASSUME NEW p \in PageId, DeletePage(p) \/ DeleteFails(p)
        PROVE  IInv'
    <2>1. Discard(p) /\ disk' \in {disk, [disk EXCEPT ![p] = Zero]}
      BY <1>4 DEF DeletePage, DeleteFails
    <2> QED BY <2>1, DiscardStep
  <1>5. ASSUME UNCHANGED vars
        PROVE  IInv'
    <2>1. UNCHANGED <<pid, data, pin, dirty, table, free, lru, evictable, refFrame, refPage, disk,
                      live, last, faulty>>
      BY <1>5 DEF vars, pool, lists, handles
    <2>2. \A g : Holders(g)' = Holders(g) BY <2>1 DEF Holders
    <2>3. TypeOK' /\ ListInv' /\ TableInv' BY <2>1 DEF IInv, TypeOK, ListInv, TableInv
    <2>4. NodeInv' BY <2>1, <2>2 DEF IInv, NodeInv
    <2>5. HolderInv' BY <2>1, <2>2 DEF IInv, HolderInv
    <2> QED BY <2>3, <2>4, <2>5 DEF IInv
  <1>6. ASSUME NEW p \in PageId, DeleteNothing(p) PROVE IInv'
    BY <1>5, <1>6 DEF DeleteNothing
  <1>7. CASE NoFrame BY <1>5, <1>7 DEF NoFrame
  <1>8. CASE EvictFails BY <1>8, EvictFailsStep
  <1>9. CASE FlushAllPages BY <1>9, FlushAllPagesStep
  <1> QED BY <1>1, <1>2, <1>3, <1>4, <1>5, <1>6, <1>7, <1>8, <1>9 DEF Next

LEMMA InvHolds == Spec => []IInv
  BY InitInv, NextInv, PTL DEF Spec
-----------------------------------------------------------------------------
(* Every variable of the pool has its type, and the replacer has one node  *)
(* for a frame at most.                                                    *)
THEOREM TypeCorrect == Spec => []TypeOK
  <1>1. IInv => TypeOK BY DEF IInv
  <1> QED BY <1>1, InvHolds, PTL

(* Whatever calls of the pool and of the file fail, the page under a       *)
(* PageRef stays in its frame and shows what was last written to it.       *)
THEOREM PagesOfHandlesStay == Spec => []HandlesStable
  <1>1. IInv => HandlesStable BY HeldFrame DEF HandlesStable
  <1> QED BY <1>1, InvHolds, PTL

(* The pin count of a frame is the number of PageRefs on it, and a frame   *)
(* is evictable exactly when it is loaded and nobody holds it.             *)
THEOREM PinCountsExact == Spec => []PinsExact
  <1>1. ASSUME IInv, ~faulty PROVE PinsExact
    <2>1. Range(lru) = Frame \ Range(free)
      BY <1>1, RangeInFrame DEF IInv, ListInv
    <2>2. ASSUME NEW f \in Frame
          PROVE  /\ pin[f] = Cardinality(Holders(f))
                 /\ f \in evictable <=> pin[f] = 0 /\ f \notin Range(free)
      <3>1. CASE f \in Range(lru)
        <4>1. f \notin Range(free) BY <2>1, <3>1
        <4> QED BY <1>1, <3>1, <4>1 DEF IInv, NodeInv
      <3>2. CASE f \notin Range(lru)
        <4>1. f \in Range(free) /\ f \notin evictable BY <1>1, <2>1, <3>2 DEF IInv, TypeOK
        <4>2. Holders(f) = {} /\ pin[f] = 0 BY <1>1, <3>2, <4>1 DEF IInv, HolderInv
        <4> QED BY <4>1, <4>2, FS_EmptySet
      <3> QED BY <3>1, <3>2
    <2> QED BY <2>1, <2>2 DEF PinsExact, Holders
  <1>2. IInv => PinsExact BY <1>1 DEF PinsExact
  <1> QED BY <1>2, InvHolds, PTL

(* No frame is lost or used twice, and allocate_frame fails only when      *)
(* every frame is pinned.                                                  *)
THEOREM FramesNeverLost == Spec => []FramesAccounted
  <1>1. ASSUME IInv, ~faulty PROVE FramesAccounted
    <2> USE PoolAssumption
    <2>0. /\ Range(lru) = Frame \ Range(free) /\ Range(free) \subseteq Frame
          /\ table \in [PageId -> Frame \cup {None}] /\ IsInjective(free)
      BY <1>1, RangeInFrame DEF IInv, ListInv, TypeOK
    <2>1. ASSUME NEW p \in PageId, Cached(p)
          PROVE  pid[table[p]] = p /\ table[p] \notin Range(free)
      <3>1. table[p] # None /\ table[p] \in Frame /\ table[p] \notin Range(free)
        BY <1>1, <2>0, <2>1 DEF Cached, IInv, HolderInv
      <3>2. pid[table[p]] \in PageId /\ table[pid[table[p]]] = table[p]
        BY <1>1, <2>0, <3>1 DEF IInv, NodeInv
      <3> QED BY <1>1, <3>1, <3>2 DEF IInv, TableInv
    <2>2. ASSUME NEW f \in Frame
          PROVE  f \in Range(free) \/ (pid[f] # None /\ table[pid[f]] = f)
      BY <1>1, <2>0 DEF IInv, NodeInv
    <2>3. HasFrame \/ \A f \in Frame : pin[f] > 0
      <3> SUFFICES ASSUME ~HasFrame, NEW f \in Frame PROVE pin[f] > 0
        OBVIOUS
      <3>1. free = <<>> /\ evictable = {} BY DEF HasFrame
      <3>2. Range(free) = {} BY <3>1 DEF Range
      <3>3. f \in Range(lru) BY <2>0, <3>2
      <3>4. pin[f] # 0 /\ pin[f] \in Nat BY <1>1, <3>1, <3>3 DEF IInv, NodeInv, TypeOK
      <3> QED BY <3>4
    <2> QED BY <2>0, <2>1, <2>2, <2>3 DEF FramesAccounted
  <1>2. IInv => FramesAccounted BY <1>1 DEF FramesAccounted
  <1> QED BY <1>2, InvHolds, PTL
-----------------------------------------------------------------------------
(* The refinement: what a reader of the pool sees of a page is what was    *)
(* last written to it, wherever the pool keeps the page.                   *)

Latest == [p \in PageId |-> IF p \in Allocated THEN last[p] ELSE Zero]

LEMMA ContentsAreLatest ==
  ASSUME IInv
  PROVE  Contents = Latest
  <1> USE PoolAssumption
  <1> SUFFICES ASSUME NEW p \in PageId, p \in Allocated
               PROVE  (IF Cached(p) THEN data[table[p]] ELSE disk[p]) = last[p]
    BY DEF Contents, Latest
  <1>1. ~faulty /\ p \in live BY DEF Allocated
  <1>2. CASE Cached(p)
    <2>1. table[p] # None /\ table[p] \in Frame BY <1>2 DEF Cached, IInv, TypeOK
    <2>2. table[p] \in Range(lru) BY <1>1, <2>1 DEF IInv, ListInv, HolderInv
    <2>3. /\ pid[table[p]] \in PageId /\ table[pid[table[p]]] = table[p]
          /\ data[table[p]] = last[pid[table[p]]]
      BY <2>2 DEF IInv, NodeInv
    <2>4. pid[table[p]] = p BY <2>1, <2>3 DEF IInv, TableInv
    <2> QED BY <1>2, <2>3, <2>4
  <1>3. CASE ~Cached(p) BY <1>1, <1>3 DEF Cached, IInv, TableInv
  <1> QED BY <1>2, <1>3

(* Every step of the pool allocates, writes or frees one page of the       *)
(* abstract store, or is invisible to it.                                  *)
LEMMA StoreStep ==
  ASSUME IInv, IInv', [Next]_vars
  PROVE  [Store!Next]_<<Allocated, Contents>>
  <1> USE PoolAssumption
  <1>c. Contents = Latest BY ContentsAreLatest
  <1>d. Contents' = Latest'
    <2>1. (IInv => Contents = Latest)' BY ContentsAreLatest, PTL
    <2> QED BY <2>1
  <1>t. live \subseteq PageId /\ last \in [PageId -> Data] BY DEF IInv, TypeOK
  <1>f. faulty' = faulty
    BY DEF Next, vars, NewPage, FetchHit, FetchMiss, Drop, Write, FetchHitFails, FetchMissFails,
           FlushPage, DeletePage, DeleteFails, DeleteNothing, Discard, NoFrame, EvictFails,
           FlushAllPages
  <1>1. CASE faulty
    <2>1. Allocated = {} /\ Allocated' = {} BY <1>1, <1>f DEF Allocated
    <2>2. Latest' = Latest BY <2>1 DEF Latest
    <2> QED BY <1>c, <1>d, <2>1, <2>2
  <1>2. CASE ~faulty
    <2>0. Allocated = live /\ Allocated' = live' BY <1>2, <1>f DEF Allocated
    <2>1. ASSUME NEW r \in Ref, NEW p \in PageId, NewPage(r, p)
          PROVE  Store!Allocate(p)
      <3>1. p \notin live /\ live' = live \cup {p} /\ last' = [last EXCEPT ![p] = Zero]
        BY <2>1 DEF NewPage
      <3>2. Latest' = [Latest EXCEPT ![p] = Zero] BY <2>0, <3>1, <1>t DEF Latest
      <3> QED BY <2>0, <3>1, <3>2, <1>c, <1>d DEF Store!Allocate
    <2>2. ASSUME NEW r \in Ref, NEW d \in Data, Write(r, d)
          PROVE  \E p \in PageId : Store!Write(p, d)
      <3>0. PICK p : p = refPage[r] OBVIOUS
      <3>1. refFrame[r] # None /\ live' = live /\ last' = [last EXCEPT ![p] = d]
        BY <2>2, <3>0 DEF Write
      <3>2. p \in live /\ p \in PageId BY <3>0, <3>1, HeldFrame
      <3>3. Latest' = [Latest EXCEPT ![p] = d] BY <2>0, <3>1, <3>2, <1>t DEF Latest
      <3>4. Store!Write(p, d) BY <2>0, <3>1, <3>2, <3>3, <1>c, <1>d DEF Store!Write
      <3> QED BY <3>2, <3>4
    <2>3. ASSUME NEW p \in PageId, DeletePage(p)
          PROVE  Store!Free(p)
      <3>1. p \in live /\ live' = live \ {p} /\ last' = last BY <2>3 DEF DeletePage, Discard
      <3>2. Latest' = [Latest EXCEPT ![p] = Zero] BY <2>0, <3>1, <1>t DEF Latest
      <3> QED BY <2>0, <3>1, <3>2, <1>c, <1>d DEF Store!Free
    <2>4. ASSUME live' = live, last' = last PROVE UNCHANGED <<Allocated, Contents>>
      <3>1. Latest' = Latest BY <2>0, <2>4 DEF Latest
      <3> QED BY <2>0, <2>4, <3>1, <1>c, <1>d
    <2>5. \/ \E r \in Ref, p \in PageId : NewPage(r, p)
          \/ \E r \in Ref, d \in Data : Write(r, d)
          \/ \E p \in PageId : DeletePage(p)
          \/ live' = live /\ last' = last
      BY <1>2 DEF Next, vars, FetchHit, FetchMiss, Drop, FetchHitFails, FetchMissFails,
           FlushPage, DeleteFails, DeleteNothing, NoFrame, EvictFails, FlushAllPages
    <2> QED BY <2>1, <2>2, <2>3, <2>4, <2>5 DEF Store!Next
  <1> QED BY <1>1, <1>2

(* The buffer pool implements PageStore: however it caches, evicts,        *)
(* flushes and reloads pages, a page that is in use changes only when its  *)
(* owner writes it.                                                        *)
THEOREM PoolImplementsPageStore == Spec => ImplementsPageStore
  <1>1. Init => Store!Init
    BY DEF Init, Store!Init, Allocated, Contents
  <1>2. IInv /\ IInv' /\ [Next]_vars => [Store!Next]_<<Allocated, Contents>>
    BY StoreStep
  <1> QED BY <1>1, <1>2, InvHolds, PTL DEF Spec, ImplementsPageStore, Store!Spec
=============================================================================
