------------------------- MODULE DiskManagerProofs --------------------------
(***************************************************************************)
(* The properties of DiskManager, for files of any length, freelist pages  *)
(* of any size and any sequence of calls, failed writes and crashes.       *)
(***************************************************************************)
EXTENDS DiskManager, TLAPS, WellFoundedInduction, FiniteSetTheorems, SequenceTheorems

PageType == [kind : {"zeros", "used", "list"}, next : Nat, array : Seq(Nat)]

FileInv ==
  /\ file \in Seq(PageType) /\ Len(file) >= 5
  /\ \A p \in 1..Len(file) : Len(file[p].array) <= MaxSize

(* s is the chain of freelist pages: it starts at the root, follows the    *)
(* links, visits no page twice and ends, and no other page has a link.     *)
IsChain(s) ==
  /\ s \in Seq(1..Len(file)) /\ Len(s) >= 1 /\ s[1] = Root
  /\ \A i, j \in 1..Len(s) : s[i] = s[j] => i = j
  /\ \A i \in 1..(Len(s) - 1) : file[s[i]].next = s[i + 1]
  /\ file[s[Len(s)]].next = INVALID
  /\ \A p \in 1..Len(file) : (\A i \in 1..Len(s) : s[i] # p) => file[p].next = INVALID

(* What the call under way holds, and how far it has got. *)
CallInv ==
  /\ (pc = "idle") <=> (page = INVALID)
  /\ (pc \notin {"format", "link", "fill"}) <=> (list = INVALID)
  /\ page # INVALID => file[page] = Zeros
  /\ pc \in {"format", "link"} => list # page
  /\ pc = "format" => file[list] = Zeros
  /\ pc = "link" => file[list].array = <<>>
  /\ pc = "fill" => list = Chain[Len(Chain)] /\ file[list].array = <<>>

(* Free pages are zeroed, and no freelist page is a catalog page. *)
FreeInv ==
  /\ \A e \in Entries : file[e] = Zeros
  /\ Catalog \cap Lists = {}

(* Without a crash or an error every page of the file has its use. *)
Accounted ==
  ~lost => /\ next = Len(file) + 1
           /\ owned \cup InHand \cup Catalog \cup Lists \cup Entries = 1..Len(file)

IInv == TypeOK /\ FileInv /\ IsChain(Chain) /\ CallInv /\ NoDoubleUse /\ FreeInv /\ Accounted
-----------------------------------------------------------------------------
(* The chain.                                                              *)

(* Natural numbers are well ordered. *)
LEMMA NatMin ==
  ASSUME NEW T, T \subseteq Nat, T # {}
  PROVE  \E x \in T : \A y \in T : x <= y
  <1> DEFINE Less == {ss \in Nat \X Nat : ss[1] < ss[2]}
  <1>1. OpToRel(<, Nat) = Less BY DEF OpToRel
  <1>2. IsWellFoundedOn(Less, Nat) BY <1>1, NatLessThanWellFounded
  <1> HIDE DEF Less
  <1>3. PICK x \in T : \A y \in T : ~ (<<y, x>> \in Less) BY <1>2, WFMin
  <1>4. ASSUME NEW y \in T PROVE x <= y
    <2>1. x \in Nat /\ y \in Nat OBVIOUS
    <2>2. (y < x) => <<y, x>> \in Less BY <2>1 DEF Less
    <2> QED BY <1>3, <2>1, <2>2
  <1> QED BY <1>4

(* A chain of links makes From compute exactly that chain: the definition  *)
(* of From has a solution, and every solution agrees with the chain from   *)
(* its end backwards.                                                      *)
LEMMA ChainIs ==
  ASSUME FileInv, NEW s, IsChain(s)
  PROVE  Chain = s
  <1> DEFINE n == Len(s)
             D == 0..Len(file)
             pos(p) == CHOOSE i \in 1..n : s[i] = p
             w == [p \in D |-> IF p = INVALID THEN <<>>
                               ELSE IF \E i \in 1..n : s[i] = p THEN SubSeq(s, pos(p), n)
                               ELSE <<p>>]
             step(f) == [p \in D |-> IF p = INVALID THEN <<>> ELSE <<p>> \o f[file[p].next]]
  <1>1. /\ n \in Nat /\ n >= 1 /\ s \in Seq(Nat) /\ Len(file) \in Nat
        /\ \A i \in 1..n : s[i] \in 1..Len(file)
    BY DEF IsChain, FileInv
  <1>0. \A p \in 1..Len(file) : p \in D /\ p # INVALID BY <1>1 DEF INVALID
  <1>2. /\ s[1] = Root /\ file[s[n]].next = INVALID
        /\ \A i, j \in 1..n : s[i] = s[j] => i = j
        /\ \A i \in 1..(n - 1) : file[s[i]].next = s[i + 1]
        /\ \A p \in 1..Len(file) : (\A i \in 1..n : s[i] # p) => file[p].next = INVALID
    BY DEF IsChain
  <1>3. \A i \in 1..n : SubSeq(s, i, n) = <<s[i]>> \o SubSeq(s, i + 1, n)
    BY <1>1, SubSeqRecursiveFirst
  <1>4. SubSeq(s, n + 1, n) = <<>> /\ SubSeq(s, 1, n) = s
    BY <1>1, SubSeqEmpty, SubSeqFull
  <1> HIDE DEF n, pos
  <1>5. \A i \in 1..n : pos(s[i]) = i BY <1>2 DEF pos
  <1>6. w = step(w)
    <2> SUFFICES ASSUME NEW p \in D PROVE w[p] = step(w)[p]
      OBVIOUS
    <2>1. CASE p = INVALID BY <2>1
    <2>2. CASE p # INVALID /\ \A i \in 1..n : s[i] # p
      <3>1. file[p].next = INVALID BY <1>2, <2>2 DEF INVALID
      <3>2. INVALID \in D BY <1>1 DEF INVALID
      <3>3. step(w)[p] = <<p>> \o w[INVALID] BY <2>2, <3>1
      <3>4. w[INVALID] = <<>> /\ w[p] = <<p>> BY <2>2, <3>2
      <3>5. p \in Nat BY <1>1
      <3>6. <<p>> \in Seq(Nat) BY <3>5
      <3>7. <<p>> \o <<>> = <<p>> BY <3>6, ConcatEmptySeq
      <3> QED BY <3>3, <3>4, <3>7
    <2>3. ASSUME NEW i \in 1..n, p # INVALID, s[i] = p PROVE w[p] = step(w)[p]
      <3>1. w[p] = <<p>> \o SubSeq(s, i + 1, n) BY <2>3, <1>3, <1>5
      <3>2. step(w)[p] = <<p>> \o w[file[p].next] BY <2>3
      <3>3. CASE i = n
        <4>1. file[p].next = INVALID /\ INVALID \in D BY <2>3, <3>3, <1>1, <1>2 DEF INVALID
        <4>2. w[file[p].next] = <<>> BY <4>1
        <4> QED BY <3>1, <3>2, <3>3, <4>2, <1>4
      <3>4. CASE i # n
        <4>1. i \in 1..(n - 1) /\ i + 1 \in 1..n BY <3>4, <1>1
        <4>2. file[p].next = s[i + 1] /\ s[i + 1] \in D /\ s[i + 1] # INVALID
          <5>1. s[i + 1] \in 1..Len(file) BY <4>1, <1>1
          <5> QED BY <2>3, <4>1, <5>1, <1>0, <1>2
        <4>3. w[s[i + 1]] = SubSeq(s, i + 1, n) BY <4>1, <4>2, <1>5
        <4> QED BY <3>1, <3>2, <4>2, <4>3
      <3> QED BY <3>3, <3>4
    <2> QED BY <2>1, <2>2, <2>3
  <1> HIDE DEF w
  <1>7. From = step(From)
    <2>1. From = CHOOSE f : f = step(f) BY DEF From
    <2> QED BY <2>1, <1>6
  <1>8. ASSUME NEW p \in D
        PROVE  From[p] = IF p = INVALID THEN <<>> ELSE <<p>> \o From[file[p].next]
    BY <1>7
  <1> HIDE DEF step
  <1> DEFINE bad == {k \in Nat : k < n /\ From[s[n - k]] # SubSeq(s, n - k, n)}
  <1>9. bad = {}
    <2> SUFFICES ASSUME bad # {} PROVE FALSE
      OBVIOUS
    <2>1. PICK k \in bad : \A j \in bad : k <= j BY NatMin
    <2>2. k \in Nat /\ k < n /\ From[s[n - k]] # SubSeq(s, n - k, n) BY <2>1
    <2> DEFINE i == n - k
    <2>3. i \in 1..n /\ s[i] \in D /\ s[i] # INVALID
      <3>1. i \in 1..n BY <2>2, <1>1
      <3>2. s[i] \in 1..Len(file) BY <3>1, <1>1
      <3> QED BY <3>1, <3>2, <1>0
    <2>4. From[s[i]] = <<s[i]>> \o From[file[s[i]].next] BY <2>3, <1>8
    <2>5. CASE k = 0
      <3>1. i = n /\ file[s[i]].next = INVALID /\ INVALID \in D BY <2>5, <1>1, <1>2 DEF INVALID
      <3>2. From[file[s[i]].next] = <<>> BY <3>1, <1>8
      <3>3. SubSeq(s, i, n) = <<s[i]>> \o SubSeq(s, i + 1, n) BY <2>3, <1>3
      <3> QED BY <2>2, <2>4, <3>1, <3>2, <3>3, <1>4
    <2>6. CASE k # 0
      <3>1. k - 1 \in Nat /\ k - 1 < n /\ k - 1 \notin bad
        <4>1. k - 1 \in Nat /\ k - 1 < n /\ ~(k <= k - 1) BY <2>2, <2>6, <1>1
        <4> QED BY <2>1, <4>1
      <3>2. n - (k - 1) = i + 1 /\ i \in 1..(n - 1) BY <2>2, <2>6, <1>1
      <3>3. From[s[i + 1]] = SubSeq(s, i + 1, n) BY <3>1, <3>2
      <3>4. file[s[i]].next = s[i + 1] BY <3>2, <1>2
      <3>5. SubSeq(s, i, n) = <<s[i]>> \o SubSeq(s, i + 1, n) BY <2>3, <1>3
      <3> QED BY <2>2, <2>4, <3>3, <3>4, <3>5
    <2> QED BY <2>5, <2>6
  <1>10. From[s[1]] = s
    <2>1. n - 1 \in Nat /\ n - 1 < n /\ n - (n - 1) = 1 BY <1>1
    <2>2. n - 1 \notin bad BY <1>9
    <2> QED BY <2>1, <2>2, <1>4
  <1> QED BY <1>2, <1>10 DEF Chain

ChainDetermined == \A s : IsChain(s) => Chain = s

LEMMA ChainUnique == FileInv => ChainDetermined
  BY ChainIs DEF ChainDetermined

(* A step that leaves the file alone leaves the freelist alone. *)
LEMMA FileKept ==
  ASSUME file' = file
  PROVE  Chain' = Chain /\ Lists' = Lists /\ Entries' = Entries
  <1>1. Chain' = Chain BY DEF Chain, From
  <1> QED BY <1>1 DEF Lists, Entries

(* The members of the chain and of the freelist. *)
ListMeaning ==
  /\ Lists \subseteq 1..Len(file) /\ Root \in Lists
  /\ Lists = {Chain[i] : i \in 1..Len(Chain)} /\ Len(Chain) \in Nat /\ Len(Chain) >= 1
  /\ \A l \in Lists : file[l] \in PageType /\ file[l].array \in Seq(Nat)
  /\ \A e : e \in Entries <=>
              \E l \in Lists : \E i \in 1..Len(file[l].array) : file[l].array[i] = e

LEMMA ListFacts ==
  ASSUME FileInv, IsChain(Chain)
  PROVE  ListMeaning
  <1>1. /\ DOMAIN Chain = 1..Len(Chain) /\ Len(Chain) \in Nat
        /\ \A i \in 1..Len(Chain) : Chain[i] \in 1..Len(file)
    BY ElementOfSeq DEF IsChain
  <1>2. Lists = {Chain[i] : i \in 1..Len(Chain)} BY <1>1 DEF Lists, Range
  <1>3. Lists \subseteq 1..Len(file) BY <1>1, <1>2
  <1>4. Root \in Lists /\ Len(Chain) >= 1 BY <1>1, <1>2 DEF IsChain
  <1>5. \A l \in Lists : file[l] \in PageType BY <1>3 DEF FileInv
  <1>6. \A l \in Lists : file[l].array \in Seq(Nat) BY <1>5 DEF PageType
  <1>7. \A l \in Lists : DOMAIN file[l].array = 1..Len(file[l].array) BY <1>6
  <1>8. ASSUME NEW e
        PROVE  e \in Entries <=>
                 \E l \in Lists : \E i \in 1..Len(file[l].array) : file[l].array[i] = e
    BY <1>7 DEF Entries, Range
  <1> QED BY <1>1, <1>2, <1>3, <1>4, <1>5, <1>6, <1>8 DEF ListMeaning

LEMMA ListFactsNext ==
  ASSUME FileInv', IsChain(Chain)'
  PROVE  ListMeaning'
  <1>1. (FileInv /\ IsChain(Chain) => ListMeaning)' BY ListFacts, PTL
  <1> QED BY <1>1

(* The contents of a file after a write. *)
LEMMA WriteFacts ==
  ASSUME FileInv, NEW p \in Nat \ {0}, NEW c \in PageType, Len(c.array) <= MaxSize,
         WritePage(p, c)
  PROVE  /\ FileInv' /\ Len(file') = IF p > Len(file) THEN p ELSE Len(file)
         /\ Len(file) \in Nat /\ Len(file') \in Nat /\ Len(file) <= Len(file')
         /\ p \in 1..Len(file') /\ file'[p] = c
         /\ \A q \in 1..Len(file') : q # p => file'[q] = IF q <= Len(file) THEN file[q] ELSE Zeros
  <1> DEFINE n == IF p > Len(file) THEN p ELSE Len(file)
             g == [q \in 1..n |-> IF q = p THEN c ELSE IF q <= Len(file) THEN file[q] ELSE Zeros]
  <1>1. Len(file) \in Nat /\ n \in Nat /\ n >= Len(file) /\ p \in 1..n BY DEF FileInv
  <1>2. \A q \in 1..Len(file) : file[q] \in PageType BY DEF FileInv
  <1>3. Zeros \in PageType /\ Len(Zeros.array) <= MaxSize
    BY DiskAssumption DEF Zeros, PageType, INVALID
  <1>4. file' = g BY DEF WritePage
  <1>5. \A q \in 1..n : g[q] \in PageType /\ Len(g[q].array) <= MaxSize
    BY <1>1, <1>2, <1>3 DEF FileInv
  <1>6. g \in Seq(PageType) /\ Len(g) = n
    <2>1. g \in [1..n -> PageType] BY <1>5
    <2> HIDE DEF g, n
    <2> QED BY <1>1, <2>1, IsASeq, LenProperties
  <1>7. FileInv'
    <2>1. Len(file) >= 5 BY DEF FileInv
    <2> HIDE DEF g, n
    <2>2. n >= 5 BY <1>1, <2>1
    <2> QED BY <2>2, <1>4, <1>5, <1>6 DEF FileInv
  <1>8. Len(file') = n BY <1>4, <1>6
  <1> QED BY <1>1, <1>4, <1>7, <1>8

(* A write that keeps the link of its page keeps the chain. *)
LEMMA LinksKept ==
  ASSUME FileInv, IsChain(Chain), FileInv', Len(file) <= Len(file'),
         \A q \in 1..Len(file) : file'[q].next = file[q].next,
         \A q \in 1..Len(file') : q > Len(file) => file'[q].next = INVALID
  PROVE  Chain' = Chain /\ Lists' = Lists /\ IsChain(Chain)'
  <1>1. PICK s : s = Chain OBVIOUS
  <1>2. IsChain(s) BY <1>1
  <1>3. Len(file) \in Nat /\ Len(file') \in Nat BY DEF FileInv
  <1>4. /\ s \in Seq(1..Len(file)) /\ Len(s) \in Nat /\ Len(s) >= 1
        /\ \A i \in 1..Len(s) : s[i] \in 1..Len(file)
    BY <1>2, ElementOfSeq DEF IsChain
  <1>5. s \in Seq(1..Len(file'))
    <2>1. 1..Len(file) \subseteq 1..Len(file') BY <1>3
    <2> QED BY <1>4, <2>1, SeqMonotonic
  <1>6. \A i \in 1..(Len(s) - 1) : file'[s[i]].next = s[i + 1]
    <2>1. \A i \in 1..(Len(s) - 1) : i \in 1..Len(s) BY <1>4
    <2> QED BY <1>2, <1>4, <2>1 DEF IsChain
  <1>7. file'[s[Len(s)]].next = INVALID BY <1>2, <1>4 DEF IsChain
  <1>8. ASSUME NEW p \in 1..Len(file'), \A i \in 1..Len(s) : s[i] # p
        PROVE  file'[p].next = INVALID
    <2>1. CASE p <= Len(file)
      <3>1. p \in 1..Len(file) BY <1>3, <2>1
      <3> QED BY <1>2, <1>8, <3>1 DEF IsChain
    <2>2. CASE ~(p <= Len(file)) BY <1>3, <2>2
    <2> QED BY <2>1, <2>2
  <1>9. IsChain(s)' BY <1>2, <1>4, <1>5, <1>6, <1>7, <1>8 DEF IsChain
  <1>10. (FileInv => ChainDetermined)' BY ChainUnique, PTL
  <1>11. Chain' = s BY <1>9, <1>10 DEF ChainDetermined
  <1> QED BY <1>1, <1>9, <1>11 DEF Lists

(* One freelist page l gets the array b; all others keep theirs. *)
LEMMA ArrayWritten ==
  ASSUME IInv, NEW l \in Lists, NEW b \in Seq(Nat), Len(b) <= MaxSize,
         WritePage(l, FreelistPage(file[l].next, b))
  PROVE  /\ FileInv' /\ IsChain(Chain)' /\ Chain' = Chain /\ Lists' = Lists
         /\ Len(file') = Len(file) /\ file'[l].array = b
         /\ \A q \in 1..Len(file) : q # l => file'[q] = file[q]
  <1>1. ListMeaning BY ListFacts DEF IInv
  <1>2. l \in 1..Len(file) /\ Len(file) \in Nat
    <2>1. Len(file) \in Nat BY DEF IInv, FileInv
    <2> QED BY <1>1, <2>1 DEF ListMeaning
  <1>3. file[l].next \in Nat BY <1>1 DEF ListMeaning, PageType
  <1> DEFINE c == FreelistPage(file[l].next, b)
  <1>4. c \in PageType /\ c.next = file[l].next /\ c.array = b
    BY <1>3 DEF FreelistPage, PageType
  <1> HIDE DEF c
  <1>5. /\ FileInv' /\ Len(file') = (IF l > Len(file) THEN l ELSE Len(file))
        /\ file'[l] = c
        /\ \A q \in 1..Len(file') : q # l => file'[q] = IF q <= Len(file) THEN file[q] ELSE Zeros
    <2>1. FileInv /\ l \in Nat \ {0} /\ Len(c.array) <= MaxSize /\ WritePage(l, c)
      BY <1>2, <1>4 DEF IInv, c
    <2> QED BY <2>1, <1>4, WriteFacts
  <1>6. Len(file') = Len(file) BY <1>2, <1>5
  <1>7. \A q \in 1..Len(file) : q # l => file'[q] = file[q] BY <1>2, <1>5, <1>6
  <1>8. \A q \in 1..Len(file) : file'[q].next = file[q].next BY <1>4, <1>5, <1>7
  <1>9. Chain' = Chain /\ Lists' = Lists /\ IsChain(Chain)'
    <2>1. \A q \in 1..Len(file') : q > Len(file) => file'[q].next = INVALID
      BY <1>2, <1>6
    <2>2. Len(file) <= Len(file') BY <1>2, <1>6
    <2> QED BY <2>1, <2>2, <1>5, <1>8, LinksKept DEF IInv
  <1> QED BY <1>4, <1>5, <1>6, <1>7, <1>9

(* A page outside the chain is written, without a link. *)
LEMMA OutsideWritten ==
  ASSUME IInv, NEW p \in Nat \ {0}, p \notin Lists, NEW c \in PageType,
         c.next = INVALID, Len(c.array) <= MaxSize, WritePage(p, c)
  PROVE  /\ FileInv' /\ IsChain(Chain)' /\ Chain' = Chain /\ Lists' = Lists
         /\ Entries' = Entries /\ EntriesDistinct'
         /\ Len(file') = (IF p > Len(file) THEN p ELSE Len(file))
         /\ Len(file) \in Nat /\ Len(file') \in Nat /\ Len(file) <= Len(file')
         /\ p \in 1..Len(file') /\ file'[p] = c
         /\ \A q \in 1..Len(file) : q # p => file'[q] = file[q]
  <1>0. FileInv /\ IsChain(Chain) /\ ListMeaning BY ListFacts DEF IInv
  <1>1. /\ FileInv' /\ Len(file') = (IF p > Len(file) THEN p ELSE Len(file))
        /\ Len(file) \in Nat /\ Len(file') \in Nat /\ Len(file) <= Len(file')
        /\ p \in 1..Len(file') /\ file'[p] = c
        /\ \A q \in 1..Len(file') : q # p => file'[q] = IF q <= Len(file) THEN file[q] ELSE Zeros
    BY <1>0, WriteFacts
  <1>2. \A q \in 1..Len(file) : q # p => file'[q] = file[q] BY <1>1
  <1>3. \A q \in 1..Len(file) : file'[q].next = file[q].next
    <2>1. p \in 1..Len(file) => file[p].next = INVALID BY <1>0 DEF IsChain, ListMeaning
    <2> QED BY <1>1, <1>2, <2>1
  <1>4. \A q \in 1..Len(file') : q > Len(file) => file'[q].next = INVALID
    BY <1>1 DEF Zeros
  <1>5. Chain' = Chain /\ Lists' = Lists /\ IsChain(Chain)' BY <1>0, <1>1, <1>3, <1>4, LinksKept
  <1>6. \A l \in Lists : file'[l] = file[l] BY <1>0, <1>2 DEF ListMeaning
  <1>7. Entries' = Entries BY <1>5, <1>6 DEF Entries
  <1>8. EntriesDistinct' BY <1>5, <1>6 DEF EntriesDistinct, IInv, NoDoubleUse
  <1> QED BY <1>1, <1>2, <1>5, <1>7, <1>8

(* What freelist_pop and freelist_push find. *)
LEMMA PopAtFacts ==
  ASSUME IInv, PopAt # 0
  PROVE  PopFrom \in Lists /\ file[PopFrom].array # <<>>
  <1> DEFINE T == {i \in 1..Len(Chain) : ~Empty(Chain[i])}
  <1>1. ListMeaning BY ListFacts DEF IInv
  <1>2. PopAt = IF T # {} THEN Min(T) ELSE 0 BY DEF PopAt, SelectInSeq
  <1>3. T # {} /\ T \subseteq Nat BY <1>2
  <1>4. Min(T) \in T BY <1>3, NatMin DEF Min
  <1>5. PopAt \in 1..Len(Chain) /\ ~Empty(Chain[PopAt]) BY <1>2, <1>3, <1>4
  <1> QED BY <1>1, <1>5 DEF PopFrom, Empty, ListMeaning

LEMMA PushAtFacts ==
  ASSUME IInv, PushAt # 0
  PROVE  PushTo \in Lists /\ Len(file[PushTo].array) < MaxSize
  <1> DEFINE T == {i \in 1..Len(Chain) : ~Full(Chain[i])}
  <1>1. ListMeaning BY ListFacts DEF IInv
  <1>2. PushAt = IF T # {} THEN Min(T) ELSE 0 BY DEF PushAt, SelectInSeq
  <1>3. T # {} /\ T \subseteq Nat BY <1>2
  <1>4. Min(T) \in T BY <1>3, NatMin DEF Min
  <1>5. PushAt \in 1..Len(Chain) /\ ~Full(Chain[PushAt]) BY <1>2, <1>3, <1>4
  <1>6. PushTo \in Lists BY <1>1, <1>5 DEF PushTo, ListMeaning
  <1>7. Len(file[PushTo].array) \in Nat BY <1>1, <1>6 DEF ListMeaning
  <1> QED BY <1>5, <1>6, <1>7, DiskAssumption DEF PushTo, Full
-----------------------------------------------------------------------------
(* allocate_page.                                                          *)

(* The pages in use are pages of the file. *)
LEMMA InFile ==
  ASSUME IInv
  PROVE  /\ Len(file) \in Nat /\ Len(file) >= 5 /\ Len(file) < next /\ next \in Nat
         /\ next <= MaxPages + 1 /\ MaxPages \in Nat
         /\ owned \subseteq 1..Len(file) /\ InHand \subseteq 1..Len(file)
         /\ Entries \subseteq 1..Len(file) /\ Lists \subseteq 1..Len(file)
         /\ Catalog \subseteq 1..Len(file)
  <1>1. Len(file) \in Nat /\ Len(file) >= 5 /\ DOMAIN file = 1..Len(file) BY DEF IInv, FileInv
  <1>2. Len(file) < next /\ next \in Nat /\ next <= MaxPages + 1 /\ MaxPages \in Nat
    BY <1>1, DiskAssumption DEF IInv, TypeOK
  <1>3. Lists \subseteq 1..Len(file) BY ListFacts DEF IInv, ListMeaning
  <1>4. owned \cup InHand \cup Entries \subseteq 1..Len(file) BY <1>1 DEF IInv, NoDoubleUse
  <1>5. Catalog \subseteq 1..Len(file) BY <1>1 DEF Catalog
  <1> QED BY <1>1, <1>2, <1>3, <1>4, <1>5

(* What allocate_page does when it returns page a. *)
AllocEffect(a) ==
  /\ a \in 1..MaxPages
  /\ FileInv' /\ IsChain(Chain)' /\ Chain' = Chain /\ Lists' = Lists
  /\ a \in 1..Len(file') /\ file'[a] = Zeros
  /\ a \notin owned \cup InHand \cup Catalog \cup Lists
  /\ Entries' = Entries \ {a} /\ EntriesDistinct'
  /\ next' \in 6..(MaxPages + 1) /\ Len(file') < next'
  /\ Len(file') \in Nat /\ Len(file') >= Len(file)
  /\ \A q \in 1..Len(file) : q \notin Lists => file'[q] = file[q]
  /\ \A q \in Lists : file[q].array = <<>> => file'[q].array = <<>>
  /\ next = Len(file) + 1 => next' = Len(file') + 1
  /\ next = Len(file) + 1 => 1..Len(file') = (1..Len(file)) \cup {a}

LEMMA PopFacts ==
  ASSUME IInv, PopAt # 0, AllocatePage
  PROVE  AllocEffect(Allocated)
  <1>0. PICK l, a : l = PopFrom /\ a = Allocated OBVIOUS
  <1>1. l \in Lists /\ file[l].array # <<>> BY <1>0, PopAtFacts
  <1>2. ListMeaning BY ListFacts DEF IInv
  <1>3. PICK A : A = file[l].array OBVIOUS
  <1>4. A \in Seq(Nat) /\ A # <<>> BY <1>1, <1>2, <1>3 DEF ListMeaning
  <1>5. PICK k : k = Len(A) OBVIOUS
  <1>6. k \in Nat /\ k >= 1 /\ DOMAIN A = 1..k /\ k <= MaxSize
    <2>1. k \in Nat /\ k >= 1 /\ DOMAIN A = 1..k BY <1>4, <1>5
    <2>2. l \in 1..Len(file) BY <1>1, <1>2 DEF ListMeaning
    <2> QED BY <2>1, <2>2, <1>3, <1>5 DEF IInv, FileInv
  <1>7. PICK B : B = Front(A) OBVIOUS
  <1>8. B \in Seq(Nat) /\ Len(B) = k - 1 /\ \A i \in 1..(k - 1) : B[i] = A[i]
    <2>1. B = SubSeq(A, 1, k - 1) BY <1>5, <1>7 DEF Front
    <2>2. \A i \in 1..(k - 1) : A[i] \in Nat BY <1>4, <1>5, <1>6
    <2>3. 1 \in Int /\ k - 1 \in Int BY <1>6
    <2>4. /\ B \in Seq(Nat) /\ Len(B) = (IF 1 <= k - 1 THEN (k - 1) - 1 + 1 ELSE 0)
          /\ \A i \in 1..((k - 1) - 1 + 1) : B[i] = A[1 + i - 1]
      BY <2>1, <2>2, <2>3, SubSeqProperties
    <2>5. Len(B) = k - 1 BY <2>4, <1>6
    <2>6. (k - 1) - 1 + 1 = k - 1 /\ \A i \in 1..(k - 1) : 1 + i - 1 = i BY <1>6
    <2> QED BY <2>4, <2>5, <2>6
  <1>9. a = A[k] /\ A[k] \in Nat
    BY <1>0, <1>3, <1>4, <1>5, <1>6 DEF Allocated, Last
  <1>10. WritePage(l, FreelistPage(file[l].next, B)) /\ next' = next
    BY <1>0, <1>3, <1>7 DEF AllocatePage, Popped
  <1>11. /\ FileInv' /\ IsChain(Chain)' /\ Chain' = Chain /\ Lists' = Lists
         /\ Len(file') = Len(file) /\ file'[l].array = B
         /\ \A q \in 1..Len(file) : q # l => file'[q] = file[q]
    <2>1. Len(B) <= MaxSize BY <1>6, <1>8, DiskAssumption
    <2> QED BY <2>1, <1>1, <1>8, <1>10, ArrayWritten
  <1>12. ListMeaning' BY <1>11, ListFactsNext
  <1>13. a \in Entries BY <1>1, <1>2, <1>3, <1>5, <1>6, <1>9 DEF ListMeaning
  <1>14. /\ a \notin owned \cup InHand \cup Catalog \cup Lists /\ file[a] = Zeros
         /\ a \in 1..Len(file)
    BY <1>13, InFile DEF IInv, NoDoubleUse, FreeInv
  <1>d. \A x, y \in Lists : \A i \in 1..Len(file[x].array), j \in 1..Len(file[y].array) :
          file[x].array[i] = file[y].array[j] => x = y /\ i = j
    BY DEF IInv, NoDoubleUse, EntriesDistinct
  <1>m. \A m \in Lists : m # l => file'[m].array = file[m].array
    BY <1>2, <1>11 DEF ListMeaning
  <1>15. ASSUME NEW e PROVE e \in Entries' <=> e \in Entries /\ e # a
    <2>1. ASSUME e \in Entries' PROVE e \in Entries /\ e # a
      <3>0. PICK m \in Lists : \E i \in 1..Len(file'[m].array) : file'[m].array[i] = e
        BY <2>1, <1>11, <1>12 DEF ListMeaning
      <3>1. PICK i \in 1..Len(file'[m].array) : file'[m].array[i] = e BY <3>0
      <3>2. CASE m = l
        <4>1. i \in 1..(k - 1) /\ A[i] = e BY <3>1, <3>2, <1>8, <1>11
        <4>2. i \in 1..k /\ k \in 1..k /\ i # k BY <4>1, <1>6
        <4>3. e # a BY <4>1, <4>2, <1>d, <1>1, <1>3, <1>5, <1>9
        <4> QED BY <4>1, <4>2, <4>3, <1>1, <1>2, <1>3, <1>5 DEF ListMeaning
      <3>3. CASE m # l
        <4>1. i \in 1..Len(file[m].array) /\ file[m].array[i] = e BY <3>1, <3>3, <1>m
        <4>2. k \in 1..Len(A) BY <1>5, <1>6
        <4>3. e # a BY <3>3, <4>1, <4>2, <1>d, <1>1, <1>3, <1>9
        <4> QED BY <4>1, <4>3, <1>2 DEF ListMeaning
      <3> QED BY <3>2, <3>3
    <2>2. ASSUME e \in Entries, e # a PROVE e \in Entries'
      <3>0. PICK m \in Lists : \E i \in 1..Len(file[m].array) : file[m].array[i] = e
        BY <2>2, <1>2 DEF ListMeaning
      <3>1. PICK i \in 1..Len(file[m].array) : file[m].array[i] = e BY <3>0
      <3>2. CASE m = l
        <4>1. i \in 1..k /\ A[i] = e /\ i # k BY <3>1, <3>2, <2>2, <1>3, <1>5, <1>9
        <4>2. i \in 1..(k - 1) BY <4>1, <1>6
        <4>3. i \in 1..Len(file'[l].array) /\ file'[l].array[i] = e BY <4>1, <4>2, <1>8, <1>11
        <4> QED BY <4>3, <1>1, <1>11, <1>12 DEF ListMeaning
      <3>3. CASE m # l
        <4>1. i \in 1..Len(file'[m].array) /\ file'[m].array[i] = e BY <3>1, <3>3, <1>m
        <4> QED BY <4>1, <1>11, <1>12 DEF ListMeaning
      <3> QED BY <3>2, <3>3
    <2> QED BY <2>1, <2>2
  <1>16. EntriesDistinct'
    <2> SUFFICES ASSUME NEW x \in Lists, NEW y \in Lists,
                        NEW i \in 1..Len(file'[x].array), NEW j \in 1..Len(file'[y].array),
                        file'[x].array[i] = file'[y].array[j]
                 PROVE  x = y /\ i = j
      BY <1>11 DEF EntriesDistinct
    <2>1. i \in 1..Len(file[x].array) /\ file[x].array[i] = file'[x].array[i]
      <3>1. CASE x = l
        <4>1. i \in 1..(k - 1) /\ B[i] = A[i] BY <3>1, <1>8, <1>11
        <4>2. i \in 1..k BY <4>1, <1>6
        <4> QED BY <3>1, <4>1, <4>2, <1>3, <1>5, <1>11
      <3>2. CASE x # l BY <3>2, <1>m
      <3> QED BY <3>1, <3>2
    <2>2. j \in 1..Len(file[y].array) /\ file[y].array[j] = file'[y].array[j]
      <3>1. CASE y = l
        <4>1. j \in 1..(k - 1) /\ B[j] = A[j] BY <3>1, <1>8, <1>11
        <4>2. j \in 1..k BY <4>1, <1>6
        <4> QED BY <3>1, <4>1, <4>2, <1>3, <1>5, <1>11
      <3>2. CASE y # l BY <3>2, <1>m
      <3> QED BY <3>1, <3>2
    <2> QED BY <2>1, <2>2, <1>d
  <1>17. /\ Len(file) \in Nat /\ Len(file) >= 5 /\ Len(file) < next /\ next \in Nat
         /\ next <= MaxPages + 1 /\ MaxPages \in Nat /\ Lists \subseteq 1..Len(file)
    BY InFile
  <1>18. a \in 1..MaxPages /\ a \in 1..Len(file') /\ file'[a] = Zeros
    <2>1. a # l BY <1>1, <1>14
    <2>2. file'[a] = Zeros BY <2>1, <1>11, <1>14
    <2> QED BY <2>2, <1>11, <1>14, <1>17
  <1>19. Entries' = Entries \ {a} BY <1>15
  <1>20. \A q \in 1..Len(file) : q \notin Lists => file'[q] = file[q] BY <1>1, <1>11
  <1>21. \A q \in Lists : file[q].array = <<>> => file'[q].array = <<>>
    BY <1>1, <1>m
  <1>22. next' \in 6..(MaxPages + 1) BY <1>10, <1>17
  <1>23. 1..Len(file') = (1..Len(file)) \cup {a} BY <1>11, <1>14
  <1> QED BY <1>0, <1>10, <1>11, <1>14, <1>16, <1>17, <1>18, <1>19, <1>20, <1>21, <1>22, <1>23
          DEF AllocEffect

LEMMA GrowFacts ==
  ASSUME IInv, PopAt = 0, AllocatePage
  PROVE  AllocEffect(Allocated)
  <1>0. PICK a : a = Allocated OBVIOUS
  <1>1. a = next /\ next <= MaxPages /\ WritePage(a, Zeros) /\ next' = next + 1
    BY <1>0 DEF Allocated, AllocatePage
  <1>2. /\ Len(file) \in Nat /\ Len(file) >= 5 /\ Len(file) < next /\ next \in Nat
        /\ next <= MaxPages + 1 /\ MaxPages \in Nat
        /\ owned \subseteq 1..Len(file) /\ InHand \subseteq 1..Len(file)
        /\ Entries \subseteq 1..Len(file) /\ Lists \subseteq 1..Len(file)
        /\ Catalog \subseteq 1..Len(file)
    BY InFile
  <1>3. a \in Nat \ {0} /\ a \notin 1..Len(file) BY <1>1, <1>2
  <1>4. a \notin owned \cup InHand \cup Catalog \cup Lists /\ a \notin Entries BY <1>2, <1>3
  <1>5. Zeros \in PageType /\ Zeros.next = INVALID /\ Len(Zeros.array) <= MaxSize
    BY DiskAssumption DEF Zeros, PageType, INVALID
  <1>6. /\ FileInv' /\ IsChain(Chain)' /\ Chain' = Chain /\ Lists' = Lists
        /\ Entries' = Entries /\ EntriesDistinct'
        /\ Len(file') = (IF a > Len(file) THEN a ELSE Len(file))
        /\ a \in 1..Len(file') /\ file'[a] = Zeros
        /\ \A q \in 1..Len(file) : q # a => file'[q] = file[q]
    BY <1>1, <1>3, <1>4, <1>5, OutsideWritten
  <1>7. Len(file') = next BY <1>1, <1>2, <1>6
  <1>8. Entries' = Entries \ {a} BY <1>4, <1>6
  <1>9. \A q \in 1..Len(file) : file'[q] = file[q] BY <1>3, <1>6
  <1>10. \A q \in Lists : file'[q] = file[q] BY <1>2, <1>9
  <1>11. /\ next' \in 6..(MaxPages + 1) /\ Len(file') < next' /\ Len(file') \in Nat
         /\ Len(file') >= Len(file) /\ a \in 1..MaxPages /\ next' = Len(file') + 1
    BY <1>1, <1>2, <1>7
  <1>12. next = Len(file) + 1 => 1..Len(file') = (1..Len(file)) \cup {a}
    BY <1>1, <1>2, <1>7
  <1> QED BY <1>0, <1>4, <1>6, <1>8, <1>9, <1>10, <1>11, <1>12 DEF AllocEffect

LEMMA AllocFacts ==
  ASSUME IInv, AllocatePage
  PROVE  AllocEffect(Allocated)
  BY PopFacts, GrowFacts
-----------------------------------------------------------------------------
(* The invariant holds initially and every step preserves it.              *)

LEMMA InitInv == Init => IInv
  <1> SUFFICES ASSUME Init PROVE IInv OBVIOUS
  <1> USE DiskAssumption DEF Init
  <1>1. Zeros \in PageType /\ Zeros.next = INVALID /\ Zeros.array = <<>>
    BY DEF Zeros, PageType, INVALID
  <1>2. /\ FreelistPage(INVALID, <<>>) \in PageType /\ FreelistPage(INVALID, <<>>).next = INVALID
        /\ FreelistPage(INVALID, <<>>).array = <<>>
    BY DEF FreelistPage, PageType, INVALID
  <1>3. /\ file \in Seq(PageType) /\ Len(file) = 5 /\ DOMAIN file = 1..5
    <2>1. file \in [1..5 -> PageType] BY <1>1, <1>2
    <2> QED BY <2>1, IsASeq, LenProperties
  <1>4. \A p \in 1..5 : file[p].next = INVALID /\ file[p].array = <<>> BY <1>1, <1>2
  <1>5. FileInv BY <1>3, <1>4 DEF FileInv
  <1>6. IsChain(<<Root>>)
    <2> DEFINE s == <<Root>>
    <2>1. s \in Seq(1..Len(file)) /\ Len(s) = 1 /\ s[1] = Root BY <1>3 DEF Root
    <2> HIDE DEF s
    <2>2. file[s[Len(s)]].next = INVALID BY <2>1, <1>4 DEF Root
    <2>3. \A i, j \in 1..Len(s) : i = j BY <2>1
    <2>4. 1..(Len(s) - 1) = {} BY <2>1
    <2> QED BY <2>1, <2>2, <2>3, <2>4, <1>3, <1>4 DEF IsChain, s
  <1>7. Chain = <<Root>> BY <1>5, <1>6, ChainIs
  <1>8. IsChain(Chain) BY <1>6, <1>7
  <1>9. ListMeaning BY <1>5, <1>8, ListFacts
  <1>10. Lists = {Root} BY <1>7 DEF Lists, Range
  <1>11. Entries = {}
    <2>1. \A l \in Lists : file[l].array = <<>> BY <1>4, <1>10 DEF Root
    <2> QED BY <2>1 DEF Entries, Range
  <1>12. InHand = {} BY DEF InHand
  <1>13. EntriesDistinct BY <1>4, <1>10 DEF EntriesDistinct, Root
  <1>14. NoDoubleUse BY <1>3, <1>10, <1>11, <1>12, <1>13 DEF NoDoubleUse, Catalog, Root
  <1>15. TypeOK
    <2>1. next \in 6..(MaxPages + 1) /\ Len(file) < next BY <1>3
    <2>2. \A p \in DOMAIN file : Len(file[p].array) <= MaxSize BY <1>3, <1>5 DEF FileInv
    <2>3. {page, list} \subseteq 0..MaxPages /\ owned \subseteq 1..MaxPages BY DEF INVALID
    <2>4. lost \in BOOLEAN /\ pc = "idle" OBVIOUS
    <2> HIDE DEF Init
    <2> QED BY <2>1, <2>2, <2>3, <2>4 DEF TypeOK
  <1>16. CallInv BY DEF CallInv
  <1>17. FreeInv BY <1>10, <1>11 DEF FreeInv, Catalog, Root
  <1>18. Accounted
    <2>1. Catalog \cup {Root} = 1..5 BY DEF Catalog, Root
    <2> QED BY <2>1, <1>3, <1>10, <1>11, <1>12 DEF Accounted
  <1> QED BY <1>5, <1>8, <1>14, <1>15, <1>16, <1>17, <1>18 DEF IInv

LEMMA AllocateStep ==
  ASSUME IInv, Allocate
  PROVE  IInv'
  <1>0. PICK a : a = Allocated OBVIOUS
  <1>1. /\ pc = "idle" /\ AllocatePage /\ page' = a /\ pc' = "return"
        /\ list' = list /\ owned' = owned /\ lost' = lost
    BY <1>0 DEF Allocate
  <1>2. AllocEffect(a) BY <1>0, <1>1, AllocFacts
  <1>3. page = INVALID /\ list = INVALID BY <1>1 DEF IInv, CallInv
  <1>4. InHand = {} /\ InHand' = {a} /\ a # INVALID /\ a \in Nat
    <2>1. a # INVALID /\ a \in Nat BY <1>2 DEF AllocEffect, INVALID
    <2> QED BY <2>1, <1>1, <1>3 DEF InHand
  <1>5. TypeOK'
    <2>1. {page', list'} \subseteq 0..MaxPages /\ owned' \subseteq 1..MaxPages /\ lost' \in BOOLEAN
      BY <1>1, <1>2 DEF AllocEffect, IInv, TypeOK
    <2>2. \A p \in DOMAIN file' : Len(file'[p].array) <= MaxSize
      BY <1>2 DEF AllocEffect, FileInv
    <2> QED BY <2>1, <2>2, <1>1, <1>2 DEF AllocEffect, TypeOK
  <1>6. CallInv' BY <1>1, <1>2, <1>3, <1>4 DEF CallInv, AllocEffect
  <1>7. NoDoubleUse'
    <2>1. DOMAIN file' = 1..Len(file') BY <1>2 DEF AllocEffect, FileInv
    <2>2. 1..Len(file) \subseteq 1..Len(file') BY <1>2, InFile DEF AllocEffect
    <2>3. owned' \cup InHand' \cup Entries' \subseteq DOMAIN file'
      BY <2>1, <2>2, <1>1, <1>2, <1>4, InFile DEF AllocEffect
    <2> QED BY <2>3, <1>1, <1>2, <1>4 DEF NoDoubleUse, AllocEffect, IInv
  <1>8. FreeInv'
    <2>1. \A e \in Entries' : file'[e] = file[e]
      BY <1>2, InFile DEF AllocEffect, IInv, NoDoubleUse
    <2> QED BY <2>1, <1>2 DEF AllocEffect, FreeInv, IInv
  <1>9. Accounted'
    <2> SUFFICES ASSUME ~lost
                 PROVE  /\ next' = Len(file') + 1
                        /\ owned \cup {a} \cup Catalog \cup Lists \cup (Entries \ {a}) = 1..Len(file')
      BY <1>1, <1>2, <1>4 DEF Accounted, AllocEffect
    <2> QED BY <1>2, <1>4 DEF Accounted, AllocEffect, IInv
  <1> QED BY <1>2, <1>5, <1>6, <1>7, <1>8, <1>9 DEF IInv, AllocEffect

LEMMA PushGrowStep ==
  ASSUME IInv, PushGrow
  PROVE  IInv'
  <1>0. PICK a : a = Allocated OBVIOUS
  <1>1. /\ pc = "push" /\ AllocatePage /\ list' = a /\ pc' = "format"
        /\ page' = page /\ owned' = owned /\ lost' = lost
    BY <1>0 DEF PushGrow
  <1>2. AllocEffect(a) BY <1>0, <1>1, AllocFacts
  <1>3. page # INVALID /\ list = INVALID /\ file[page] = Zeros BY <1>1 DEF IInv, CallInv
  <1>4. a # INVALID /\ a \in Nat /\ InHand = {page} /\ InHand' = {page, a} /\ a # page
    <2>1. a # INVALID /\ a \in Nat BY <1>2 DEF AllocEffect, INVALID
    <2>2. InHand = {page} BY <1>1, <1>3 DEF InHand
    <2> QED BY <2>1, <2>2, <1>1, <1>2, <1>3 DEF InHand, AllocEffect
  <1>5. TypeOK'
    <2>1. {page', list'} \subseteq 0..MaxPages /\ owned' \subseteq 1..MaxPages /\ lost' \in BOOLEAN
      BY <1>1, <1>2 DEF AllocEffect, IInv, TypeOK
    <2>2. \A p \in DOMAIN file' : Len(file'[p].array) <= MaxSize
      BY <1>2 DEF AllocEffect, FileInv
    <2> QED BY <2>1, <2>2, <1>1, <1>2 DEF AllocEffect, TypeOK
  <1>6. page \in 1..Len(file) /\ page \notin Lists /\ page \notin Entries
    BY <1>4, InFile DEF IInv, NoDoubleUse
  <1>7. CallInv'
    <2>1. file'[page] = Zeros BY <1>2, <1>3, <1>6 DEF AllocEffect
    <2> QED BY <2>1, <1>1, <1>2, <1>3, <1>4 DEF CallInv, AllocEffect
  <1>8. NoDoubleUse'
    <2>1. DOMAIN file' = 1..Len(file') BY <1>2 DEF AllocEffect, FileInv
    <2>2. 1..Len(file) \subseteq 1..Len(file') BY <1>2, InFile DEF AllocEffect
    <2>3. owned' \cup InHand' \cup Entries' \subseteq DOMAIN file'
      BY <2>1, <2>2, <1>1, <1>2, <1>4, <1>6, InFile DEF AllocEffect
    <2> QED BY <2>3, <1>1, <1>2, <1>4 DEF NoDoubleUse, AllocEffect, IInv
  <1>9. FreeInv'
    <2>1. \A e \in Entries' : file'[e] = file[e]
      BY <1>2, InFile DEF AllocEffect, IInv, NoDoubleUse
    <2> QED BY <2>1, <1>2 DEF AllocEffect, FreeInv, IInv
  <1>10. Accounted'
    <2> SUFFICES ASSUME ~lost
                 PROVE  /\ next' = Len(file') + 1
                        /\ owned \cup {page, a} \cup Catalog \cup Lists \cup (Entries \ {a})
                             = 1..Len(file')
      BY <1>1, <1>2, <1>4 DEF Accounted, AllocEffect
    <2> QED BY <1>2, <1>4 DEF Accounted, AllocEffect, IInv
  <1> QED BY <1>2, <1>5, <1>7, <1>8, <1>9, <1>10 DEF IInv, AllocEffect

(* Steps that write a page outside the chain. *)
LEMMA OutsideStep ==
  ASSUME IInv, NEW p \in 1..Len(file), p \notin Lists, p \notin Entries, NEW c \in PageType,
         c.next = INVALID, Len(c.array) <= MaxSize, WritePage(p, c), next' = next
  PROVE  /\ FileInv' /\ IsChain(Chain)' /\ Chain' = Chain /\ Lists' = Lists
         /\ Entries' = Entries /\ EntriesDistinct' /\ FreeInv'
         /\ Len(file') = Len(file) /\ DOMAIN file' = 1..Len(file) /\ file'[p] = c
         /\ \A q \in 1..Len(file) : q # p => file'[q] = file[q]
         /\ \A q \in DOMAIN file' : Len(file'[q].array) <= MaxSize
         /\ next' \in 6..(MaxPages + 1) /\ Len(file') < next'
  <1>1. p \in Nat \ {0} OBVIOUS
  <1>2. /\ FileInv' /\ IsChain(Chain)' /\ Chain' = Chain /\ Lists' = Lists
        /\ Entries' = Entries /\ EntriesDistinct'
        /\ Len(file') = (IF p > Len(file) THEN p ELSE Len(file))
        /\ file'[p] = c
        /\ \A q \in 1..Len(file) : q # p => file'[q] = file[q]
    BY <1>1, OutsideWritten
  <1>3. Len(file') = Len(file) BY <1>2, InFile
  <1>4. DOMAIN file' = 1..Len(file) BY <1>2, <1>3 DEF FileInv
  <1>5. FreeInv'
    <2>1. \A e \in Entries : file'[e] = file[e] BY <1>2, InFile
    <2> QED BY <2>1, <1>2 DEF IInv, FreeInv
  <1>6. \A q \in DOMAIN file' : Len(file'[q].array) <= MaxSize BY <1>2, <1>3, <1>4 DEF FileInv
  <1>7. next' \in 6..(MaxPages + 1) /\ Len(file') < next' BY <1>3 DEF IInv, TypeOK
  <1> QED BY <1>2, <1>3, <1>4, <1>5, <1>6, <1>7

LEMMA ZerosFacts ==
  /\ Zeros \in PageType /\ Zeros.next = INVALID /\ Len(Zeros.array) <= MaxSize
  /\ Used \in PageType /\ Used.next = INVALID /\ Len(Used.array) <= MaxSize
  /\ Zeros.array = <<>>
  BY DiskAssumption DEF Zeros, Used, PageType, INVALID

LEMMA ClientWritesStep ==
  ASSUME IInv, NEW p \in owned, ClientWrites(p)
  PROVE  IInv'
  <1>1. /\ pc = "idle" /\ WritePage(p, Used) /\ next' = next /\ pc' = pc /\ page' = page
        /\ list' = list /\ owned' = owned /\ lost' = lost
    BY DEF ClientWrites
  <1>2. p \in 1..Len(file) /\ p \notin Lists /\ p \notin Entries
    BY InFile DEF IInv, NoDoubleUse
  <1>3. /\ FileInv' /\ IsChain(Chain)' /\ Chain' = Chain /\ Lists' = Lists
        /\ Entries' = Entries /\ EntriesDistinct' /\ FreeInv'
        /\ Len(file') = Len(file) /\ DOMAIN file' = 1..Len(file)
        /\ \A q \in DOMAIN file' : Len(file'[q].array) <= MaxSize
        /\ next' \in 6..(MaxPages + 1) /\ Len(file') < next'
    BY <1>1, <1>2, ZerosFacts, OutsideStep
  <1>4. InHand' = InHand BY <1>1 DEF InHand
  <1>5. TypeOK' BY <1>1, <1>3 DEF IInv, TypeOK
  <1>6. CallInv' BY <1>1 DEF IInv, CallInv
  <1>7. NoDoubleUse' BY <1>1, <1>3, <1>4, InFile DEF IInv, NoDoubleUse
  <1>8. Accounted' BY <1>1, <1>3, <1>4 DEF IInv, Accounted
  <1> QED BY <1>3, <1>5, <1>6, <1>7, <1>8 DEF IInv

LEMMA DeallocateStep ==
  ASSUME IInv, NEW p \in owned, Deallocate(p)
  PROVE  IInv'
  <1>1. /\ pc = "idle" /\ WritePage(p, Zeros) /\ next' = next /\ pc' = "push" /\ page' = p
        /\ list' = list /\ owned' = owned \ {p} /\ lost' = lost
    BY DEF Deallocate, Cleared
  <1>2. p \in 1..Len(file) /\ p \notin Lists /\ p \notin Entries /\ p \notin Catalog /\ p # INVALID
    BY InFile DEF IInv, NoDoubleUse, INVALID
  <1>3. /\ FileInv' /\ IsChain(Chain)' /\ Chain' = Chain /\ Lists' = Lists
        /\ Entries' = Entries /\ EntriesDistinct' /\ FreeInv'
        /\ Len(file') = Len(file) /\ DOMAIN file' = 1..Len(file) /\ file'[p] = Zeros
        /\ \A q \in DOMAIN file' : Len(file'[q].array) <= MaxSize
        /\ next' \in 6..(MaxPages + 1) /\ Len(file') < next'
    BY <1>1, <1>2, ZerosFacts, OutsideStep
  <1>4. page = INVALID /\ list = INVALID BY <1>1 DEF IInv, CallInv
  <1>5. InHand = {} /\ InHand' = {p} BY <1>1, <1>2, <1>4 DEF InHand
  <1>6. TypeOK'
    <2>1. p \in 0..MaxPages /\ list \in 0..MaxPages BY DEF IInv, TypeOK
    <2> QED BY <2>1, <1>1, <1>3 DEF IInv, TypeOK
  <1>7. CallInv' BY <1>1, <1>2, <1>3, <1>4 DEF CallInv
  <1>8. NoDoubleUse' BY <1>1, <1>2, <1>3, <1>5, InFile DEF IInv, NoDoubleUse
  <1>9. Accounted' BY <1>1, <1>2, <1>3, <1>5 DEF IInv, Accounted
  <1> QED BY <1>3, <1>6, <1>7, <1>8, <1>9 DEF IInv

LEMMA FormatStep ==
  ASSUME IInv, Format
  PROVE  IInv'
  <1>0. PICK p : p = list OBVIOUS
  <1> DEFINE c == FreelistPage(INVALID, <<>>)
  <1>1. /\ pc = "format" /\ WritePage(p, c) /\ next' = next
        /\ pc' = "link" /\ page' = page /\ list' = list /\ owned' = owned /\ lost' = lost
    BY <1>0 DEF Format
  <1>2. list # INVALID /\ page # INVALID /\ list # page BY <1>1 DEF IInv, CallInv
  <1>3. InHand = {page, list} /\ InHand' = {page, list} BY <1>1, <1>2 DEF InHand
  <1>4. /\ p \in 1..Len(file) /\ p \notin Lists /\ p \notin Entries
        /\ page \in 1..Len(file) /\ p # page
    BY <1>0, <1>2, <1>3, InFile DEF IInv, NoDoubleUse
  <1>5. c \in PageType /\ c.next = INVALID /\ c.array = <<>> /\ Len(c.array) <= MaxSize
    BY DiskAssumption DEF FreelistPage, PageType, INVALID
  <1> HIDE DEF c
  <1>6. /\ FileInv' /\ IsChain(Chain)' /\ Chain' = Chain /\ Lists' = Lists
        /\ Entries' = Entries /\ EntriesDistinct' /\ FreeInv'
        /\ Len(file') = Len(file) /\ DOMAIN file' = 1..Len(file) /\ file'[p] = c
        /\ \A q \in 1..Len(file) : q # p => file'[q] = file[q]
        /\ \A q \in DOMAIN file' : Len(file'[q].array) <= MaxSize
        /\ next' \in 6..(MaxPages + 1) /\ Len(file') < next'
    BY <1>1, <1>4, <1>5, OutsideStep
  <1>7. TypeOK' BY <1>1, <1>6 DEF IInv, TypeOK
  <1>8. CallInv'
    <2>1. file'[page] = Zeros BY <1>2, <1>4, <1>6 DEF IInv, CallInv
    <2>2. file'[list].array = <<>> BY <1>0, <1>5, <1>6
    <2> QED BY <2>1, <2>2, <1>1, <1>2 DEF CallInv
  <1>9. NoDoubleUse' BY <1>1, <1>3, <1>6, InFile DEF IInv, NoDoubleUse
  <1>10. Accounted' BY <1>1, <1>3, <1>6 DEF IInv, Accounted
  <1> QED BY <1>6, <1>7, <1>8, <1>9, <1>10 DEF IInv

(* The page of the call goes into a freelist page that has room: the last  *)
(* write of freelist_push, with or without a new freelist page.            *)
LEMMA PushedStep ==
  ASSUME IInv, pc \in {"push", "fill"}, NEW l \in Lists, Len(file[l].array) < MaxSize,
         WritePage(l, FreelistPage(file[l].next, Append(file[l].array, page))),
         pc' = "idle", page' = INVALID, list' = INVALID,
         next' = next, owned' = owned, lost' = lost
  PROVE  IInv'
  <1>0. PICK a, A, k : a = page /\ A = file[l].array /\ k = Len(A) OBVIOUS
  <1>1. ListMeaning BY ListFacts DEF IInv
  <1>2. A \in Seq(Nat) /\ k \in Nat /\ k < MaxSize /\ MaxSize \in Nat
    BY <1>0, <1>1, DiskAssumption DEF ListMeaning
  <1>3. a # INVALID /\ file[a] = Zeros /\ InHand = {a} /\ InHand' = {}
    <2>1. page # INVALID /\ file[page] = Zeros BY DEF IInv, CallInv
    <2> QED BY <2>1, <1>0 DEF InHand
  <1>4. a \in 1..Len(file) /\ a \notin Lists /\ a \notin Entries /\ a \notin owned /\ a \notin Catalog
    BY <1>3, InFile DEF IInv, NoDoubleUse
  <1>5. a \in Nat BY <1>4
  <1>6. PICK B : B = Append(A, a) OBVIOUS
  <1>7. B \in Seq(Nat) /\ Len(B) = k + 1 /\ B[k + 1] = a /\ \A i \in 1..k : B[i] = A[i]
    BY <1>0, <1>2, <1>5, <1>6
  <1>8. /\ FileInv' /\ IsChain(Chain)' /\ Chain' = Chain /\ Lists' = Lists
        /\ Len(file') = Len(file) /\ file'[l].array = B
        /\ \A q \in 1..Len(file) : q # l => file'[q] = file[q]
    <2>1. Len(B) <= MaxSize BY <1>2, <1>7
    <2>2. WritePage(l, FreelistPage(file[l].next, B)) BY <1>0, <1>6
    <2> QED BY <2>1, <2>2, <1>7, ArrayWritten
  <1>9. ListMeaning' BY <1>8, ListFactsNext
  <1>d. \A x, y \in Lists : \A i \in 1..Len(file[x].array), j \in 1..Len(file[y].array) :
          file[x].array[i] = file[y].array[j] => x = y /\ i = j
    BY DEF IInv, NoDoubleUse, EntriesDistinct
  <1>m. \A m \in Lists : m # l => file'[m].array = file[m].array
    BY <1>1, <1>8 DEF ListMeaning
  <1>e. \A m \in Lists : \A i \in 1..Len(file[m].array) : file[m].array[i] # a
    BY <1>1, <1>4 DEF ListMeaning
  <1>10. \A m \in Lists : \A i \in 1..Len(file'[m].array) :
           \/ i \in 1..Len(file[m].array) /\ file'[m].array[i] = file[m].array[i]
           \/ m = l /\ i = k + 1 /\ file'[m].array[i] = a
    <2> SUFFICES ASSUME NEW m \in Lists, NEW i \in 1..Len(file'[m].array)
                 PROVE  \/ i \in 1..Len(file[m].array) /\ file'[m].array[i] = file[m].array[i]
                        \/ m = l /\ i = k + 1 /\ file'[m].array[i] = a
      OBVIOUS
    <2>1. CASE m # l BY <2>1, <1>m
    <2>2. CASE m = l
      <3>1. i \in 1..(k + 1) BY <2>2, <1>7, <1>8
      <3>2. i \in 1..k \/ i = k + 1 BY <3>1, <1>2
      <3> QED BY <2>2, <3>2, <1>0, <1>7, <1>8
    <2> QED BY <2>1, <2>2
  <1>11. Entries' = Entries \cup {a}
    <2>1. ASSUME NEW e \in Entries' PROVE e \in Entries \cup {a}
      <3>0. PICK m \in Lists : \E i \in 1..Len(file'[m].array) : file'[m].array[i] = e
        BY <1>8, <1>9 DEF ListMeaning
      <3>1. PICK i \in 1..Len(file'[m].array) : file'[m].array[i] = e BY <3>0
      <3> QED BY <3>1, <1>1, <1>10 DEF ListMeaning
    <2>2. ASSUME NEW e \in Entries PROVE e \in Entries'
      <3>0. PICK m \in Lists : \E i \in 1..Len(file[m].array) : file[m].array[i] = e
        BY <1>1 DEF ListMeaning
      <3>1. PICK i \in 1..Len(file[m].array) : file[m].array[i] = e BY <3>0
      <3>2. i \in 1..Len(file'[m].array) /\ file'[m].array[i] = e
        <4>1. CASE m # l BY <3>1, <4>1, <1>m
        <4>2. CASE m = l
          <5>1. i \in 1..k /\ A[i] = e BY <3>1, <4>2, <1>0
          <5>2. i \in 1..(k + 1) /\ B[i] = e BY <5>1, <1>2, <1>7
          <5> QED BY <4>2, <5>2, <1>7, <1>8
        <4> QED BY <4>1, <4>2
      <3> QED BY <3>2, <1>8, <1>9 DEF ListMeaning
    <2>3. a \in Entries'
      <3>1. k + 1 \in 1..Len(B) BY <1>2, <1>7
      <3> QED BY <3>1, <1>7, <1>8, <1>9 DEF ListMeaning
    <2> QED BY <2>1, <2>2, <2>3
  <1>12. EntriesDistinct'
    <2> SUFFICES ASSUME NEW x \in Lists, NEW y \in Lists,
                        NEW i \in 1..Len(file'[x].array), NEW j \in 1..Len(file'[y].array),
                        file'[x].array[i] = file'[y].array[j]
                 PROVE  x = y /\ i = j
      BY <1>8 DEF EntriesDistinct
    <2>1. \/ i \in 1..Len(file[x].array) /\ file'[x].array[i] = file[x].array[i]
          \/ x = l /\ i = k + 1 /\ file'[x].array[i] = a
      BY <1>10
    <2>2. \/ j \in 1..Len(file[y].array) /\ file'[y].array[j] = file[y].array[j]
          \/ y = l /\ j = k + 1 /\ file'[y].array[j] = a
      BY <1>10
    <2> QED BY <2>1, <2>2, <1>d, <1>e
  <1>13. DOMAIN file' = 1..Len(file) BY <1>8 DEF FileInv
  <1>14. TypeOK'
    <2>1. \A q \in DOMAIN file' : Len(file'[q].array) <= MaxSize BY <1>8, <1>13 DEF FileInv
    <2>2. {page', list'} \subseteq 0..MaxPages BY InFile DEF INVALID
    <2> QED BY <2>1, <2>2, <1>8 DEF IInv, TypeOK
  <1>15. CallInv' BY DEF CallInv
  <1>16. NoDoubleUse'
    BY <1>3, <1>4, <1>8, <1>11, <1>12, <1>13, InFile DEF IInv, NoDoubleUse
  <1>17. FreeInv'
    <2>1. \A e \in Entries \cup {a} : e \in 1..Len(file) /\ e # l /\ file[e] = Zeros
      BY <1>3, <1>4, InFile DEF IInv, NoDoubleUse, FreeInv
    <2> QED BY <2>1, <1>8, <1>11 DEF IInv, FreeInv
  <1>18. Accounted' BY <1>3, <1>8, <1>11 DEF IInv, Accounted
  <1> QED BY <1>8, <1>14, <1>15, <1>16, <1>17, <1>18 DEF IInv

LEMMA PushStep ==
  ASSUME IInv, Push
  PROVE  IInv'
  <1>0. PICK l : l = PushTo OBVIOUS
  <1>1. /\ pc = "push" /\ PushAt # 0 /\ pc' = "idle" /\ page' = INVALID
        /\ WritePage(l, FreelistPage(file[l].next, Append(file[l].array, page)))
        /\ next' = next /\ list' = list /\ owned' = owned /\ lost' = lost
    BY <1>0 DEF Push
  <1>2. l \in Lists /\ Len(file[l].array) < MaxSize BY <1>0, <1>1, PushAtFacts
  <1>3. list' = INVALID BY <1>1 DEF IInv, CallInv
  <1> QED BY <1>1, <1>2, <1>3, PushedStep

LEMMA FillStep ==
  ASSUME IInv, Fill
  PROVE  IInv'
  <1>0. PICK l : l = list OBVIOUS
  <1>1. /\ pc = "fill" /\ WritePage(l, FreelistPage(INVALID, <<page>>))
        /\ pc' = "idle" /\ page' = INVALID /\ list' = INVALID
        /\ next' = next /\ owned' = owned /\ lost' = lost
    BY <1>0 DEF Fill, Filled
  <1>2. l = Chain[Len(Chain)] /\ file[l].array = <<>> BY <1>0, <1>1 DEF IInv, CallInv
  <1>3. l \in Lists BY <1>2, ListFacts DEF IInv, ListMeaning
  <1>4. file[l].next = INVALID BY <1>2 DEF IInv, IsChain
  <1>5. Append(file[l].array, page) = <<page>> /\ Len(file[l].array) < MaxSize
    BY <1>2, DiskAssumption
  <1>6. WritePage(l, FreelistPage(file[l].next, Append(file[l].array, page))) BY <1>1, <1>4, <1>5
  <1> QED BY <1>1, <1>3, <1>5, <1>6, PushedStep

(* The new freelist page becomes the last one of the chain. *)
LEMMA LinkStep ==
  ASSUME IInv, Link
  PROVE  IInv'
  <1>0. PICK s, n, p, a : s = Chain /\ n = Len(s) /\ p = list /\ a = page OBVIOUS
  <1>1. /\ IsChain(s) /\ ListMeaning /\ FileInv BY <1>0, ListFacts DEF IInv
  <1>2. /\ s \in Seq(1..Len(file)) /\ n \in Nat /\ n >= 1 /\ s[1] = Root
        /\ \A i \in 1..n : s[i] \in 1..Len(file)
        /\ \A i, j \in 1..n : s[i] = s[j] => i = j
        /\ \A i \in 1..(n - 1) : file[s[i]].next = s[i + 1]
        /\ file[s[n]].next = INVALID
        /\ \A q \in 1..Len(file) : (\A i \in 1..n : s[i] # q) => file[q].next = INVALID
    <2>1. /\ s \in Seq(1..Len(file)) /\ n >= 1 /\ s[1] = Root
          /\ \A i, j \in 1..n : s[i] = s[j] => i = j
          /\ \A i \in 1..(n - 1) : file[s[i]].next = s[i + 1]
          /\ file[s[n]].next = INVALID
          /\ \A q \in 1..Len(file) : (\A i \in 1..n : s[i] # q) => file[q].next = INVALID
      BY <1>0, <1>1 DEF IsChain
    <2>2. n \in Nat /\ \A i \in 1..n : s[i] \in 1..Len(file) BY <2>1, <1>0, ElementOfSeq
    <2> QED BY <2>1, <2>2
  <1>3. PICK e : e = s[n] OBVIOUS
  <1>4. /\ pc = "link" /\ WritePage(e, FreelistPage(p, file[e].array)) /\ pc' = "fill"
        /\ next' = next /\ page' = page /\ list' = list /\ owned' = owned /\ lost' = lost
    BY <1>0, <1>3 DEF Link, Linked, Last
  <1>5. page # INVALID /\ list # INVALID /\ list # page /\ file[list].array = <<>>
    BY <1>4 DEF IInv, CallInv
  <1>6. InHand = {a, p} /\ InHand' = {a} BY <1>0, <1>4, <1>5 DEF InHand
  <1>7. /\ p \in 1..Len(file) /\ p \notin Lists /\ p \notin Entries /\ p \notin owned
        /\ p \notin Catalog /\ a \in 1..Len(file) /\ a \notin Lists /\ a # p
    BY <1>0, <1>5, <1>6, InFile DEF IInv, NoDoubleUse
  <1>8. e \in Lists /\ e \in 1..Len(file) /\ file[e] \in PageType /\ file[e].array \in Seq(Nat)
        /\ Len(file[e].array) <= MaxSize
    <2>1. n \in 1..n BY <1>2
    <2>2. e \in Lists BY <2>1, <1>0, <1>1, <1>3 DEF ListMeaning
    <2>3. e \in 1..Len(file) BY <2>1, <1>2, <1>3
    <2> QED BY <2>2, <2>3, <1>1 DEF ListMeaning, FileInv
  <1> DEFINE c == FreelistPage(p, file[e].array)
  <1>9. c \in PageType /\ c.next = p /\ c.array = file[e].array
    BY <1>7, <1>8 DEF FreelistPage, PageType
  <1> HIDE DEF c
  <1>10. /\ FileInv' /\ Len(file') = Len(file) /\ file'[e] = c
         /\ \A q \in 1..Len(file) : q # e => file'[q] = file[q]
    <2>1. WritePage(e, c) /\ e \in Nat \ {0} /\ Len(c.array) <= MaxSize
      BY <1>4, <1>8, <1>9 DEF c
    <2>2. /\ FileInv' /\ Len(file') = (IF e > Len(file) THEN e ELSE Len(file))
          /\ file'[e] = c
          /\ \A q \in 1..Len(file') : q # e => file'[q] = IF q <= Len(file) THEN file[q] ELSE Zeros
      BY <2>1, <1>1, <1>9, WriteFacts
    <2>3. Len(file') = Len(file) BY <2>2, <1>8, InFile
    <2> QED BY <2>2, <2>3, InFile
  <1>11. PICK t : t = Append(s, p) OBVIOUS
  <1>12. /\ t \in Seq(1..Len(file)) /\ Len(t) = n + 1 /\ t[n + 1] = p
         /\ \A i \in 1..n : t[i] = s[i]
    <2> DEFINE S == 1..Len(file)
    <2>1. s \in Seq(S) /\ p \in S BY <1>2, <1>7
    <2> HIDE DEF S
    <2>2. t \in Seq(S) /\ Len(t) = n + 1 /\ t[n + 1] = p /\ \A i \in 1..n : t[i] = s[i]
      BY <2>1, <1>0, <1>11
    <2> QED BY <2>2 DEF S
  <1>13. \A i \in 1..n : s[i] \in Lists /\ s[i] # p
    BY <1>0, <1>1, <1>7 DEF ListMeaning
  <1>14. IsChain(t)'
    <2>1. t \in Seq(1..Len(file')) /\ Len(t) >= 1 BY <1>2, <1>10, <1>12
    <2>2. t[1] = Root BY <1>2, <1>12
    <2>3. \A i, j \in 1..Len(t) : t[i] = t[j] => i = j
      <3>1. \A i \in 1..(n + 1) : i \in 1..n \/ i = n + 1 BY <1>2
      <3>2. \A i \in 1..n : t[i] # t[n + 1] BY <1>12, <1>13
      <3>3. \A i, j \in 1..n : t[i] = t[j] => i = j BY <1>2, <1>12
      <3> QED BY <3>1, <3>2, <3>3, <1>12
    <2>4. ASSUME NEW i \in 1..(Len(t) - 1) PROVE file'[t[i]].next = t[i + 1]
      <3>1. i \in 1..n BY <1>2, <1>12
      <3>2. CASE i = n
        <4>1. t[i] = e /\ t[i + 1] = p BY <3>1, <3>2, <1>3, <1>12
        <4> QED BY <4>1, <1>9, <1>10
      <3>3. CASE i # n
        <4>1. i \in 1..(n - 1) /\ i + 1 \in 1..n /\ n \in 1..n BY <3>1, <3>3, <1>2
        <4>2. s[i] # e BY <3>1, <3>3, <4>1, <1>2, <1>3
        <4>3. file'[s[i]] = file[s[i]] BY <3>1, <4>2, <1>2, <1>10
        <4>4. t[i] = s[i] /\ t[i + 1] = s[i + 1] BY <3>1, <4>1, <1>12
        <4>5. file[s[i]].next = s[i + 1] BY <4>1, <1>2
        <4> QED BY <4>3, <4>4, <4>5
      <3> QED BY <3>2, <3>3
    <2>5. file'[t[Len(t)]].next = INVALID
      <3>1. t[Len(t)] = p /\ p # e BY <1>7, <1>8, <1>12
      <3>2. file[p].next = INVALID BY <1>2, <1>7, <1>13
      <3> QED BY <3>1, <3>2, <1>7, <1>10
    <2>6. ASSUME NEW q \in 1..Len(file'), \A i \in 1..Len(t) : t[i] # q
          PROVE  file'[q].next = INVALID
      <3>1. q \in 1..Len(file) BY <1>10
      <3>2. \A i \in 1..n : i \in 1..Len(t) BY <1>2, <1>12
      <3>3. \A i \in 1..n : s[i] # q BY <2>6, <3>2, <1>12
      <3>4. q # e
        <4>1. n \in 1..n BY <1>2
        <4> QED BY <3>3, <4>1, <1>3
      <3> QED BY <3>1, <3>3, <3>4, <1>2, <1>10
    <2> QED BY <2>1, <2>2, <2>3, <2>4, <2>5, <2>6 DEF IsChain
  <1>15. Chain' = t
    <2>1. (FileInv => ChainDetermined)' BY ChainUnique, PTL
    <2> QED BY <2>1, <1>10, <1>14 DEF ChainDetermined
  <1>16. IsChain(Chain)' BY <1>14, <1>15
  <1>17. ListMeaning' BY <1>10, <1>16, ListFactsNext
  <1>18. Lists' = Lists \cup {p}
    <2>1. Lists' = {t[i] : i \in 1..(n + 1)} BY <1>12, <1>15, <1>17 DEF ListMeaning
    <2>2. Lists = {s[i] : i \in 1..n} BY <1>0, <1>1 DEF ListMeaning
    <2>3. 1..(n + 1) = 1..n \cup {n + 1} BY <1>2
    <2> QED BY <2>1, <2>2, <2>3, <1>12
  <1>19. /\ \A l \in Lists : file'[l].array = file[l].array
         /\ file'[p].array = <<>>
    <2>1. \A l \in Lists : l # e => file'[l] = file[l] BY <1>1, <1>10 DEF ListMeaning
    <2>2. p # e BY <1>7, <1>8
    <2> QED BY <2>1, <2>2, <1>0, <1>5, <1>7, <1>9, <1>10
  <1>20. Entries' = Entries
    <2>1. Range(file'[p].array) = {} BY <1>19 DEF Range
    <2>2. \A l \in Lists : Range(file'[l].array) = Range(file[l].array) BY <1>19
    <2> QED BY <2>1, <2>2, <1>18 DEF Entries
  <1>21. EntriesDistinct'
    <2>1. \A i \in 1..Len(file'[p].array) : FALSE BY <1>19
    <2>2. EntriesDistinct BY DEF IInv, NoDoubleUse
    <2> QED BY <2>1, <2>2, <1>18, <1>19 DEF EntriesDistinct
  <1>22. DOMAIN file' = 1..Len(file) BY <1>10 DEF FileInv
  <1>23. TypeOK'
    <2>1. \A q \in DOMAIN file' : Len(file'[q].array) <= MaxSize BY <1>10, <1>22 DEF FileInv
    <2> QED BY <2>1, <1>4, <1>10 DEF IInv, TypeOK
  <1>24. CallInv'
    <2>1. file'[a] = Zeros
      <3>1. file[a] = Zeros /\ a # e BY <1>0, <1>5, <1>7, <1>8 DEF IInv, CallInv
      <3> QED BY <3>1, <1>7, <1>10
    <2>2. p = t[Len(t)] BY <1>12
    <2> QED BY <2>1, <2>2, <1>0, <1>4, <1>5, <1>15, <1>19 DEF CallInv
  <1>25. NoDoubleUse'
    BY <1>4, <1>6, <1>7, <1>18, <1>20, <1>21, <1>22, InFile DEF IInv, NoDoubleUse
  <1>26. FreeInv'
    <2>1. \A x \in Entries : file'[x] = file[x]
      BY <1>8, <1>10, InFile DEF IInv, NoDoubleUse
    <2> QED BY <2>1, <1>7, <1>18, <1>20 DEF IInv, FreeInv
  <1>27. Accounted' BY <1>4, <1>6, <1>10, <1>18, <1>20 DEF IInv, Accounted
  <1> QED BY <1>10, <1>16, <1>23, <1>24, <1>25, <1>26, <1>27 DEF IInv

(* Steps that write nothing. *)
LEMMA UnwrittenStep ==
  ASSUME IInv, file' = file, EntriesDistinct', CallInv',
         pc' \in {"idle", "return", "push", "format", "link", "fill"},
         next' \in 6..(MaxPages + 1), Len(file) < next',
         {page', list'} \subseteq 0..MaxPages, owned' \subseteq 1..MaxPages, lost' \in BOOLEAN,
         owned' \cup InHand' \subseteq owned \cup InHand,
         owned' \cap InHand' = {},
         ~lost' => /\ ~lost /\ next' = next
                   /\ owned' \cup InHand' = owned \cup InHand
  PROVE  IInv'
  <1>1. Chain' = Chain /\ Lists' = Lists /\ Entries' = Entries BY FileKept
  <1>2. FileInv' /\ IsChain(Chain)' BY <1>1 DEF IInv, FileInv, IsChain
  <1>3. TypeOK' BY DEF IInv, TypeOK
  <1>4. NoDoubleUse' BY <1>1 DEF IInv, NoDoubleUse
  <1>5. FreeInv' BY <1>1 DEF IInv, FreeInv
  <1>6. Accounted' BY <1>1 DEF IInv, Accounted
  <1> QED BY <1>2, <1>3, <1>4, <1>5, <1>6 DEF IInv

LEMMA OtherSteps ==
  ASSUME IInv,
         \/ Return \/ AllocateFails \/ PushFails \/ Restart \/ UNCHANGED vars
         \/ \E p \in owned : DeallocateFails(p)
  PROVE  IInv'
  <1>0. file' = file
    BY DEF Return, AllocateFails, PushFails, Restart, DeallocateFails, vars
  <1>1. EntriesDistinct'
    <2>1. Lists' = Lists BY <1>0, FileKept
    <2> QED BY <1>0, <2>1 DEF IInv, NoDoubleUse, EntriesDistinct
  <1>t. /\ {page, list} \subseteq 0..MaxPages /\ owned \subseteq 1..MaxPages /\ lost \in BOOLEAN
        /\ next \in 6..(MaxPages + 1) /\ Len(file) < next /\ Len(file) \in Nat /\ Len(file) >= 5
        /\ pc \in {"idle", "return", "push", "format", "link", "fill"} /\ MaxPages \in Nat
    BY InFile DEF IInv, TypeOK
  <1>c. 0 \in 0..MaxPages BY <1>t
  <1>i. owned \cap InHand = {} BY DEF IInv, NoDoubleUse
  <1>2. CASE Return
    <2>1. /\ pc = "return" /\ owned' = owned \cup {page} /\ page' = INVALID /\ pc' = "idle"
          /\ next' = next /\ list' = list /\ lost' = lost
      BY <1>2 DEF Return
    <2>2. page # INVALID /\ list = INVALID BY <2>1 DEF IInv, CallInv
    <2>3. InHand = {page} /\ InHand' = {} BY <2>1, <2>2 DEF InHand
    <2>4. page \in 1..MaxPages BY <2>2, <1>t DEF INVALID
    <2>5. CallInv' BY <2>1, <2>2 DEF CallInv
    <2>6. owned' \subseteq 1..MaxPages BY <2>1, <2>4, <1>t
    <2>7. {page', list'} \subseteq 0..MaxPages BY <2>1, <1>c, <1>t DEF INVALID
    <2> QED BY <2>1, <2>3, <2>5, <2>6, <2>7, <1>0, <1>1, <1>t, UnwrittenStep
  <1>3. CASE AllocateFails
    <2>1. /\ pc \in {"idle", "push"} /\ next <= MaxPages
          /\ next' = next + 1 /\ pc' = "idle" /\ page' = INVALID /\ lost' = TRUE
          /\ list' = list /\ owned' = owned
      BY <1>3 DEF AllocateFails
    <2>2. list = INVALID BY <2>1 DEF IInv, CallInv
    <2>3. InHand' = {} BY <2>1 DEF InHand
    <2>4. next' \in 6..(MaxPages + 1) /\ Len(file) < next' BY <2>1, <1>t
    <2>5. CallInv' BY <2>1, <2>2 DEF CallInv
    <2>6. {page', list'} \subseteq 0..MaxPages BY <2>1, <1>c, <1>t DEF INVALID
    <2> QED BY <2>1, <2>3, <2>4, <2>5, <2>6, <1>0, <1>1, <1>t, UnwrittenStep
  <1>4. CASE PushFails
    <2>1. /\ pc' = "idle" /\ page' = INVALID /\ list' = INVALID /\ lost' = TRUE
          /\ next' = next /\ owned' = owned
      BY <1>4 DEF PushFails
    <2>2. InHand' = {} BY <2>1 DEF InHand
    <2>3. CallInv' BY <2>1 DEF CallInv
    <2>4. {page', list'} \subseteq 0..MaxPages BY <2>1, <1>c DEF INVALID
    <2> QED BY <2>1, <2>2, <2>3, <2>4, <1>0, <1>1, <1>t, UnwrittenStep
  <1>5. CASE Restart
    <2>1. /\ next' = Len(file) + 1 /\ pc' = "idle" /\ page' = INVALID /\ list' = INVALID
          /\ lost' = (lost \/ pc # "idle") /\ owned' = owned
      BY <1>5 DEF Restart
    <2>2. InHand' = {} BY <2>1 DEF InHand
    <2>3. CallInv' BY <2>1 DEF CallInv
    <2>4. {page', list'} \subseteq 0..MaxPages BY <2>1, <1>c DEF INVALID
    <2>5. next' \in 6..(MaxPages + 1) /\ Len(file) < next' BY <2>1, <1>t
    <2>6. lost' \in BOOLEAN BY <2>1
    <2>7. ASSUME ~lost'
          PROVE  ~lost /\ next' = next /\ owned' \cup InHand' = owned \cup InHand
      <3>1. ~lost /\ pc = "idle" BY <2>1, <2>7
      <3>2. page = INVALID BY <3>1 DEF IInv, CallInv
      <3>3. InHand = {} BY <3>1, <3>2 DEF InHand
      <3> QED BY <2>1, <2>2, <3>1, <3>3 DEF IInv, Accounted
    <2> QED BY <2>1, <2>2, <2>3, <2>4, <2>5, <2>6, <2>7, <1>0, <1>1, <1>t, UnwrittenStep
  <1>6. CASE UNCHANGED vars
    <2>1. /\ next' = next /\ pc' = pc /\ page' = page /\ list' = list /\ owned' = owned
          /\ lost' = lost
      BY <1>6 DEF vars
    <2>2. InHand' = InHand BY <2>1 DEF InHand
    <2>3. CallInv'
      <3>1. Chain' = Chain BY <1>0, FileKept
      <3> QED BY <2>1, <3>1, <1>0 DEF IInv, CallInv
    <2> QED BY <2>1, <2>2, <2>3, <1>0, <1>1, <1>i, <1>t, UnwrittenStep
  <1>7. ASSUME NEW p \in owned, DeallocateFails(p) PROVE IInv'
    <2>1. /\ pc = "idle" /\ owned' = owned \ {p} /\ lost' = TRUE
          /\ next' = next /\ pc' = pc /\ page' = page /\ list' = list
      BY <1>7 DEF DeallocateFails
    <2>2. InHand' = InHand BY <2>1 DEF InHand
    <2>3. CallInv'
      <3>1. Chain' = Chain BY <1>0, FileKept
      <3> QED BY <2>1, <3>1, <1>0 DEF IInv, CallInv
    <2> QED BY <2>1, <2>2, <2>3, <1>0, <1>1, <1>i, <1>t, UnwrittenStep
  <1> QED BY <1>2, <1>3, <1>4, <1>5, <1>6, <1>7

LEMMA NextInv ==
  ASSUME IInv, [Next]_vars
  PROVE  IInv'
  BY AllocateStep, PushGrowStep, ClientWritesStep, DeallocateStep, FormatStep, PushStep, FillStep,
     LinkStep, OtherSteps DEF Next

LEMMA InvHolds == Spec => []IInv
  BY InitInv, NextInv, PTL DEF Spec
-----------------------------------------------------------------------------
(* Every variable has its type, and freelist pages never overflow. *)
THEOREM TypeCorrect == Spec => []TypeOK
  <1>1. IInv => TypeOK BY DEF IInv
  <1> QED BY <1>1, InvHolds, PTL

(* Wherever a crash or a failed write stops allocate_page, deallocate_page *)
(* or freelist_push, no page number serves two purposes.                   *)
THEOREM PagesUsedOnce == Spec => []NoDoubleUse
  <1>1. IInv => NoDoubleUse BY DEF IInv
  <1> QED BY <1>1, InvHolds, PTL

(* allocate_page hands out zeroed pages only. *)
THEOREM AllocatesZeros == Spec => []HandedOutZeroed
  <1>1. IInv => HandedOutZeroed BY DEF IInv, CallInv, HandedOutZeroed
  <1> QED BY <1>1, InvHolds, PTL

(* Without a crash or an error, no page of the file is ever leaked. *)
THEOREM NoPageLost == Spec => []NothingLost
  <1>1. ASSUME IInv PROVE NothingLost
    <2> SUFFICES ASSUME ~lost, pc = "idle"
                 PROVE  owned \cup Catalog \cup Lists \cup Entries = 1..(next - 1)
      BY DEF NothingLost
    <2>1. InHand = {} BY <1>1 DEF IInv, CallInv, InHand
    <2>2. next = Len(file) + 1 /\ Len(file) \in Nat BY <1>1, InFile DEF IInv, Accounted
    <2>3. next - 1 = Len(file) BY <2>2
    <2> QED BY <1>1, <2>1, <2>3 DEF IInv, Accounted
  <1>2. IInv => NothingLost BY <1>1
  <1> QED BY <1>2, InvHolds, PTL
=============================================================================
