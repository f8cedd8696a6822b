-------------------------- MODULE TableHeapProofs ---------------------------
(***************************************************************************)
(* Scans of a TableHeap are exact, for pages and tuples of any size and    *)
(* any number of pages.                                                    *)
(***************************************************************************)
EXTENDS TableHeap, TLAPS, WellFoundedInduction, SequenceTheorems

Info == [offset : Nat, size : Nat, deleted : BOOLEAN]

IsPage(page) ==
  page = [next |-> page.next, infos |-> page.infos, num_deleted |-> page.num_deleted,
          bytes |-> page.bytes]

(* The s-th slot has tuple t, whole and behind the header. *)
Slot(page, s, t) ==
  /\ page.infos[s].size = Size[t]
  /\ HeaderLen(page.infos) <= page.infos[s].offset
  /\ page.infos[s].offset + Size[t] <= PageSize
  /\ \A i \in 1..Size[t] : page.bytes[page.infos[s].offset + i] = <<t, i>>

(* A page has tuples ts in its slots, each in front of the one before. *)
PageOK(page, ts) ==
  /\ IsPage(page)
  /\ page.infos \in Seq(Info) /\ ts \in Seq(Tuple) /\ Len(page.infos) = Len(ts)
  /\ \A s \in 1..Len(ts) : Slot(page, s, ts[s])
  /\ \A r, s \in 1..Len(ts) :
       r < s => page.infos[s].offset + page.infos[s].size <= page.infos[r].offset

(* The pages are a chain in the order of their allocation, of which only   *)
(* the last may be empty.                                                  *)
ChainOK(T) ==
  /\ pages \in Seq(Range(pages)) /\ Len(pages) >= 1 /\ Len(pages) <= MaxPages
  /\ T \in Seq(Seq(Tuple)) /\ Len(T) = Len(pages) /\ last = Len(pages)
  /\ \A p \in 1..Len(pages) :
       /\ PageOK(pages[p], T[p])
       /\ pages[p].next = IF p = Len(pages) THEN INVALID ELSE p + 1
       /\ p # Len(pages) => T[p] # <<>>

Row == (Nat \X Nat) \X Tuple

(* The rows are the tuples of the pages one behind the other: off[p] rows  *)
(* are on the first p pages.                                               *)
RowsAre(R, n, off, T) ==
  /\ off \in [0..n -> Nat] /\ off[0] = 0 /\ R \in Seq(Row) /\ Len(R) = off[n]
  /\ \A p \in 1..n :
       /\ off[p] = off[p - 1] + Len(T[p])
       /\ \A s \in 1..Len(T[p]) : R[off[p - 1] + s] = <<<<p, s>>, T[p][s]>>
RowsOK(off, T) == RowsAre(rows, Len(pages), off, T)

HeapOK(off, T) == ChainOK(T) /\ RowsOK(off, T)

IInv == \E off, T : HeapOK(off, T)
-----------------------------------------------------------------------------
(* Numbers.                                                                *)

(* Natural numbers are well ordered. *)
LEMMA NatMin ==
  ASSUME NEW T, T \subseteq Nat, T # {}
  PROVE  \E x \in T : \A y \in T : x <= y
  <1> DEFINE Less == {ss \in Nat \X Nat : ss[1] < ss[2]}
  <1>1. OpToRel(<, Nat) = Less BY DEF OpToRel
  <1>2. IsWellFoundedOn(Less, Nat) BY <1>1, NatLessThanWellFounded
  <1> HIDE DEF Less
  <1>3. PICK x \in T : \A y \in T : ~ (<<y, x>> \in Less) BY <1>2, WFMin
  <1>4. ASSUME NEW y \in T PROVE x <= y
    <2>1. x \in Nat /\ y \in Nat OBVIOUS
    <2>2. (y < x) => <<y, x>> \in Less BY <2>1 DEF Less
    <2> QED BY <1>3, <2>1, <2>2
  <1> QED BY <1>4

LEMMA Constants ==
  /\ PageSize \in Nat /\ HeaderSize \in Nat /\ InfoSize \in Nat /\ HeaderSize < PageSize
  /\ MaxPages \in Nat /\ MaxPages >= 1
  /\ \A t \in Tuple : Size[t] \in Nat /\ Size[t] >= 1
  BY HeapAssumption

LEMMA Times ==
  \A a \in Nat, n \in Nat : a * n \in Nat /\ a * (n + 1) = a * n + a
  OBVIOUS

(* The header grows by one info. *)
LEMMA HeaderGrows ==
  ASSUME NEW S, NEW infos \in Seq(S), NEW x \in S
  PROVE  /\ HeaderLen(infos) \in Nat /\ HeaderLen(infos) >= HeaderSize
         /\ HeaderLen(Append(infos, x)) = HeaderLen(infos) + InfoSize
  <1>1. PICK n \in Nat : n = Len(infos) OBVIOUS
  <1>2. Len(Append(infos, x)) = n + 1 BY <1>1
  <1>3. PICK m \in Nat : m = InfoSize * n /\ InfoSize * (n + 1) = m + InfoSize
    BY Times, Constants
  <1>4. /\ HeaderLen(infos) = HeaderSize + m
        /\ HeaderLen(Append(infos, x)) = HeaderSize + (m + InfoSize)
    BY <1>1, <1>2, <1>3 DEF HeaderLen
  <1> QED BY <1>4, Constants

LEMMA HeaderNat ==
  ASSUME NEW S, NEW infos \in Seq(S)
  PROVE  HeaderLen(infos) \in Nat
  <1>1. PICK n \in Nat : n = Len(infos) OBVIOUS
  <1>2. PICK m \in Nat : m = InfoSize * n BY Times, Constants
  <1> QED BY <1>1, <1>2, Constants DEF HeaderLen
-----------------------------------------------------------------------------
(* Pages.                                                                  *)

PageFacts(page, ts) ==
  /\ Len(ts) \in Nat /\ Len(page.infos) = Len(ts) /\ DOMAIN page.infos = 1..Len(ts)
  /\ DOMAIN ts = 1..Len(ts)
  /\ \A s \in 1..Len(ts) :
       /\ ts[s] \in Tuple /\ Size[ts[s]] \in Nat /\ Size[ts[s]] >= 1
       /\ page.infos[s] \in Info /\ page.infos[s].offset \in Nat
       /\ page.infos[s].size = Size[ts[s]]

LEMMA PageHas ==
  ASSUME NEW page, NEW ts, PageOK(page, ts)
  PROVE  PageFacts(page, ts)
  <1>1. page.infos \in Seq(Info) /\ ts \in Seq(Tuple) /\ Len(page.infos) = Len(ts)
    BY DEF PageOK
  <1>2. Len(ts) \in Nat /\ DOMAIN page.infos = 1..Len(ts) /\ DOMAIN ts = 1..Len(ts)
    BY <1>1, LenProperties
  <1>3. ASSUME NEW s \in 1..Len(ts)
        PROVE  /\ ts[s] \in Tuple /\ Size[ts[s]] \in Nat /\ Size[ts[s]] >= 1
               /\ page.infos[s] \in Info /\ page.infos[s].offset \in Nat
               /\ page.infos[s].size = Size[ts[s]]
    <2>1. ts[s] \in Tuple /\ page.infos[s] \in Info BY <1>1, ElementOfSeq
    <2>2. Size[ts[s]] \in Nat /\ Size[ts[s]] >= 1 BY <2>1, Constants
    <2>3. page.infos[s].offset \in Nat BY <2>1 DEF Info
    <2>4. page.infos[s].size = Size[ts[s]] BY DEF PageOK, Slot
    <2> QED BY <2>1, <2>2, <2>3, <2>4
  <1> QED BY <1>1, <1>2, <1>3 DEF PageFacts

(* A slot decodes to its tuple. *)
LEMMA DecodeSlot ==
  ASSUME NEW page, NEW ts, PageOK(page, ts), NEW s \in 1..Len(ts)
  PROVE  Decode(page, page.infos[s]) = ts[s]
  <1> DEFINE info == page.infos[s]
             whole(t) == /\ Size[t] = info.size
                         /\ \A i \in 1..Size[t] : page.bytes[info.offset + i] = <<t, i>>
  <1>1. PageFacts(page, ts) BY PageHas
  <1>2. ts[s] \in Tuple /\ Size[ts[s]] \in Nat /\ Size[ts[s]] >= 1 BY <1>1 DEF PageFacts
  <1>3. whole(ts[s]) BY DEF PageOK, Slot
  <1>4. ASSUME NEW t \in Tuple, whole(t) PROVE t = ts[s]
    <2>1. 1 \in 1..Size[t] /\ 1 \in 1..Size[ts[s]] BY <1>2, <1>4, Constants
    <2>2. page.bytes[info.offset + 1] = <<t, 1>> BY <1>4, <2>1
    <2>3. page.bytes[info.offset + 1] = <<ts[s], 1>> BY <1>3, <2>1
    <2> HIDE DEF info
    <2> QED BY <2>2, <2>3
  <1>5. Decode(page, info) = CHOOSE t \in Tuple : whole(t) BY <1>2, <1>3 DEF Decode
  <1> HIDE DEF info, whole
  <1> QED BY <1>2, <1>3, <1>4, <1>5 DEF info

(* Where the next tuple goes. *)
LEMMA SlotEndFacts ==
  ASSUME NEW page, NEW ts, PageOK(page, ts)
  PROVE  /\ SlotEnd(page) \in Nat /\ SlotEnd(page) <= PageSize
         /\ \A s \in 1..Len(ts) : SlotEnd(page) <= page.infos[s].offset
  <1>1. PageFacts(page, ts) BY PageHas
  <1>2. page.infos \in Seq(Info) BY DEF PageOK
  <1>3. CASE page.infos = <<>>
    <2>1. Len(<<>>) = 0 OBVIOUS
    <2>2. Len(ts) = 0 BY <1>1, <1>3, <2>1 DEF PageFacts
    <2>3. SlotEnd(page) = PageSize BY <1>3 DEF SlotEnd
    <2> QED BY <2>2, <2>3, Constants
  <1>4. CASE page.infos # <<>>
    <2>1. PICK n \in Nat : n = Len(ts) /\ n >= 1
      <3>1. Len(page.infos) # 0 BY <1>2, <1>4
      <3>2. Len(ts) \in Nat /\ Len(ts) # 0 BY <3>1, <1>1 DEF PageFacts
      <3>3. Len(ts) >= 1 BY <3>2
      <3> QED BY <3>2, <3>3
    <2>2. SlotEnd(page) = page.infos[n].offset BY <1>1, <1>4, <2>1 DEF SlotEnd, Last, PageFacts
    <2>3. n \in 1..Len(ts) BY <2>1
    <2>4. page.infos[n].offset \in Nat /\ Size[ts[n]] \in Nat BY <1>1, <2>3 DEF PageFacts
    <2>5. page.infos[n].offset + Size[ts[n]] <= PageSize BY <2>3 DEF PageOK, Slot
    <2>6. ASSUME NEW s \in 1..Len(ts) PROVE page.infos[n].offset <= page.infos[s].offset
      <3>1. CASE s = n BY <3>1, <2>4
      <3>2. CASE s # n
        <4>1. s < n BY <3>2, <2>1
        <4>2. page.infos[n].offset + page.infos[n].size <= page.infos[s].offset
          BY <4>1, <2>3 DEF PageOK
        <4>3. page.infos[n].size = Size[ts[n]] /\ page.infos[s].offset \in Nat
          BY <1>1, <2>3 DEF PageFacts
        <4> QED BY <2>4, <4>2, <4>3
      <3> QED BY <3>1, <3>2
    <2> QED BY <2>2, <2>4, <2>5, <2>6, Constants
  <1> QED BY <1>3, <1>4

(* What writing a tuple does to the bytes. *)
LEMMA PutFacts ==
  ASSUME NEW bytes, NEW offset \in Nat, NEW t \in Tuple, offset + Size[t] <= PageSize
  PROVE  /\ \A i \in 1..Size[t] : Put(bytes, offset, t)[offset + i] = <<t, i>>
         /\ \A b \in 1..PageSize : b <= offset \/ offset + Size[t] < b =>
              Put(bytes, offset, t)[b] = bytes[b]
  <1>1. PICK z \in Nat : z = Size[t] BY Constants
  <1>2. Put(bytes, offset, t) = [b \in 1..PageSize |->
          IF b \in (offset + 1)..(offset + z) THEN <<t, b - offset>> ELSE bytes[b]]
    BY <1>1 DEF Put
  <1>3. ASSUME NEW i \in 1..z PROVE Put(bytes, offset, t)[offset + i] = <<t, i>>
    <2>1. /\ offset + i \in 1..PageSize /\ offset + i \in (offset + 1)..(offset + z)
          /\ (offset + i) - offset = i
      BY <1>1, Constants
    <2> QED BY <1>2, <2>1
  <1>4. ASSUME NEW b \in 1..PageSize, b <= offset \/ offset + z < b
        PROVE  Put(bytes, offset, t)[b] = bytes[b]
    <2>1. ~(b \in (offset + 1)..(offset + z)) BY <1>4, Constants
    <2> QED BY <1>2, <2>1
  <1> QED BY <1>1, <1>3, <1>4

(* A slot stays as it is when the bytes of its tuple do. *)
LEMMA SlotStays ==
  ASSUME NEW page, NEW ts, PageOK(page, ts), NEW new, NEW s \in 1..Len(ts),
         new.infos[s].offset = page.infos[s].offset, new.infos[s].size = page.infos[s].size,
         HeaderLen(new.infos) <= page.infos[s].offset,
         \A b \in 1..PageSize : /\ page.infos[s].offset < b
                                /\ b <= page.infos[s].offset + Size[ts[s]]
                                => new.bytes[b] = page.bytes[b]
  PROVE  Slot(new, s, ts[s])
  <1>1. PageFacts(page, ts) BY PageHas
  <1>2. PICK o \in Nat, z \in Nat : o = page.infos[s].offset /\ z = Size[ts[s]]
    BY <1>1 DEF PageFacts
  <1>3. Slot(page, s, ts[s]) BY DEF PageOK
  <1>4. o + z <= PageSize /\ page.infos[s].size = z BY <1>2, <1>3 DEF Slot
  <1>5. ASSUME NEW i \in 1..z PROVE new.bytes[o + i] = <<ts[s], i>>
    <2>1. o + i \in 1..PageSize /\ o < o + i /\ o + i <= o + z BY <1>4, Constants
    <2>2. new.bytes[o + i] = page.bytes[o + i] BY <1>2, <2>1
    <2> QED BY <1>2, <1>3, <2>2 DEF Slot
  <1> QED BY <1>2, <1>3, <1>5 DEF Slot

(* insert_tuple of a page that has room. *)
LEMMA InsertPage ==
  ASSUME NEW page, NEW ts, PageOK(page, ts), NEW t \in Tuple, NEW d \in BOOLEAN, Fits(page, t)
  PROVE  /\ PageOK(PageInsert(page, t, d), Append(ts, t))
         /\ PageInsert(page, t, d).next = page.next
  <1>1. PICK new : new = PageInsert(page, t, d) OBVIOUS
  <1>2. PageFacts(page, ts) BY PageHas
  <1>3. PICK e \in Nat, z \in Nat, n \in Nat : e = SlotEnd(page) /\ z = Size[t] /\ n = Len(ts)
    BY <1>2, SlotEndFacts, Constants DEF PageFacts
  <1>4. page.infos \in Seq(Info) /\ ts \in Seq(Tuple) /\ IsPage(page) BY DEF PageOK
  <1>5. PICK h \in Nat : h = HeaderLen(page.infos) BY <1>4, HeaderNat
  <1>6. e >= (z + h) + InfoSize /\ InfoSize \in Nat /\ PageSize \in Nat /\ e <= PageSize /\ z >= 1
    BY <1>3, <1>5, SlotEndFacts, Constants DEF Fits
  <1>7. PICK o \in Nat : o = e - z BY <1>6
  <1>8. o + z = e /\ h + InfoSize <= o /\ o + z <= PageSize BY <1>6, <1>7
  <1>9. PICK info \in Info : info = [offset |-> o, size |-> z, deleted |-> d] BY DEF Info
  <1>10. /\ new.infos = Append(page.infos, info) /\ new.bytes = Put(page.bytes, o, t)
         /\ new.next = page.next /\ IsPage(new)
    BY <1>1, <1>3, <1>4, <1>7, <1>9 DEF PageInsert, IsPage
  <1>11. /\ new.infos \in Seq(Info) /\ Len(new.infos) = n + 1 /\ new.infos[n + 1] = info
         /\ \A s \in 1..n : new.infos[s] = page.infos[s]
    BY <1>2, <1>3, <1>4, <1>10 DEF PageFacts
  <1>12. PICK ts2 : ts2 = Append(ts, t) OBVIOUS
  <1>13. /\ ts2 \in Seq(Tuple) /\ Len(ts2) = n + 1 /\ ts2[n + 1] = t
         /\ \A s \in 1..n : ts2[s] = ts[s]
    BY <1>3, <1>4, <1>12
  <1>14. HeaderLen(new.infos) = h + InfoSize BY <1>4, <1>5, <1>10, HeaderGrows
  <1>15. /\ \A i \in 1..z : new.bytes[o + i] = <<t, i>>
         /\ \A b \in 1..PageSize : b <= o \/ o + z < b => new.bytes[b] = page.bytes[b]
    <2>1. o + Size[t] <= PageSize BY <1>3, <1>8
    <2>2. /\ \A i \in 1..Size[t] : Put(page.bytes, o, t)[o + i] = <<t, i>>
          /\ \A b \in 1..PageSize : b <= o \/ o + Size[t] < b =>
               Put(page.bytes, o, t)[b] = page.bytes[b]
      BY <2>1, PutFacts
    <2> QED BY <1>3, <1>10, <2>2
  <1>16. info.offset = o /\ info.size = z BY <1>9
  <1>17. ASSUME NEW s \in 1..(n + 1) PROVE Slot(new, s, ts2[s])
    <2>1. CASE s = n + 1
      BY <1>3, <1>8, <1>11, <1>13, <1>14, <1>15, <1>16, <2>1 DEF Slot
    <2>2. CASE s # n + 1
      <3>1. s \in 1..n /\ s \in 1..Len(ts) BY <1>3, <2>2
      <3>2. PICK p \in Nat : p = page.infos[s].offset BY <1>2, <3>1 DEF PageFacts
      <3>3. e <= p BY <1>3, <3>1, <3>2, SlotEndFacts
      <3>4. HeaderLen(new.infos) <= p BY <1>6, <1>8, <1>14, <3>3
      <3>5. \A b \in 1..PageSize : p < b => o + z < b BY <1>6, <1>8, <3>3
      <3>6. Slot(new, s, ts[s])
        <4>1. new.infos[s] = page.infos[s] BY <1>11, <3>1
        <4>2. \A b \in 1..PageSize : p < b /\ b <= p + Size[ts[s]] => new.bytes[b] = page.bytes[b]
          BY <1>15, <3>5
        <4> QED BY <3>1, <3>2, <3>4, <4>1, <4>2, SlotStays
      <3> QED BY <1>13, <3>1, <3>6
    <2> QED BY <2>1, <2>2
  <1>18. ASSUME NEW r \in 1..(n + 1), NEW s \in 1..(n + 1), r < s
         PROVE  new.infos[s].offset + new.infos[s].size <= new.infos[r].offset
    <2>1. r \in 1..n /\ r \in 1..Len(ts) BY <1>3, <1>18
    <2>2. new.infos[r] = page.infos[r] BY <1>11, <2>1
    <2>3. CASE s = n + 1
      <3>1. e <= page.infos[r].offset BY <1>3, <2>1, SlotEndFacts
      <3>2. new.infos[s].offset = o /\ new.infos[s].size = z BY <1>11, <1>16, <2>3
      <3> QED BY <1>8, <2>2, <3>1, <3>2
    <2>4. CASE s # n + 1
      <3>1. s \in 1..n /\ s \in 1..Len(ts) BY <1>3, <2>4
      <3>2. new.infos[s] = page.infos[s] BY <1>11, <3>1
      <3> QED BY <1>18, <2>1, <2>2, <3>1, <3>2 DEF PageOK
    <2> QED BY <2>3, <2>4
  <1>19. PageOK(new, ts2) BY <1>10, <1>11, <1>13, <1>17, <1>18 DEF PageOK
  <1> QED BY <1>1, <1>10, <1>12, <1>19

(* Encoding writes the header over no tuple. *)
LEMMA EncodePage ==
  ASSUME NEW page, NEW ts, PageOK(page, ts)
  PROVE  PageOK(Encode(page), ts) /\ Encode(page).next = page.next
  <1>1. PICK new : new = Encode(page) OBVIOUS
  <1>2. PageFacts(page, ts) BY PageHas
  <1>3. page.infos \in Seq(Info) /\ ts \in Seq(Tuple) /\ IsPage(page) BY DEF PageOK
  <1>4. PICK h \in Nat : h = HeaderLen(page.infos) BY <1>3, HeaderNat
  <1>5. /\ new.infos = page.infos /\ new.next = page.next /\ IsPage(new)
        /\ new.bytes = [b \in 1..PageSize |-> IF b <= h THEN Header ELSE page.bytes[b]]
    BY <1>1, <1>3, <1>4 DEF Encode, IsPage
  <1>6. ASSUME NEW s \in 1..Len(ts) PROVE Slot(new, s, ts[s])
    <2>1. PICK p \in Nat : p = page.infos[s].offset BY <1>2 DEF PageFacts
    <2>2. h <= p BY <1>4, <2>1 DEF PageOK, Slot
    <2>3. \A b \in 1..PageSize : p < b => new.bytes[b] = page.bytes[b]
      <3> SUFFICES ASSUME NEW b \in 1..PageSize, p < b PROVE new.bytes[b] = page.bytes[b]
        OBVIOUS
      <3>1. ~(b <= h) BY <2>2, Constants
      <3> QED BY <1>5, <3>1
    <2>4. HeaderLen(new.infos) <= page.infos[s].offset BY <1>4, <1>5, <2>1, <2>2
    <2>5. /\ new.infos[s].offset = page.infos[s].offset /\ new.infos[s].size = page.infos[s].size
      BY <1>5
    <2>6. \A b \in 1..PageSize : /\ page.infos[s].offset < b
                                 /\ b <= page.infos[s].offset + Size[ts[s]]
                                 => new.bytes[b] = page.bytes[b]
      BY <2>1, <2>3
    <2> QED BY <2>4, <2>5, <2>6, SlotStays
  <1>7. PageOK(new, ts) BY <1>3, <1>5, <1>6 DEF PageOK
  <1> QED BY <1>1, <1>5, <1>7

(* update_tuple in place. *)
LEMMA PutPage ==
  ASSUME NEW page, NEW ts, PageOK(page, ts), NEW s \in 1..Len(ts), NEW t \in Tuple,
         InPlace(page.infos[s], t)
  PROVE  LET new == [page EXCEPT !.bytes = Put(@, page.infos[s].offset, t)]
         IN  PageOK(new, [ts EXCEPT ![s] = t]) /\ new.next = page.next
  <1>1. PICK new : new = [page EXCEPT !.bytes = Put(@, page.infos[s].offset, t)] OBVIOUS
  <1>2. PageFacts(page, ts) BY PageHas
  <1>3. page.infos \in Seq(Info) /\ ts \in Seq(Tuple) /\ IsPage(page) BY DEF PageOK
  <1>4. PICK o \in Nat, z \in Nat : o = page.infos[s].offset /\ z = Size[t]
    BY <1>2, Constants DEF PageFacts
  <1>5. /\ new.infos = page.infos /\ new.next = page.next /\ IsPage(new)
        /\ new.bytes = Put(page.bytes, o, t)
    BY <1>1, <1>3, <1>4 DEF IsPage
  <1>6. PICK ts2 : ts2 = [ts EXCEPT ![s] = t] OBVIOUS
  <1>7. /\ ts2 \in Seq(Tuple) /\ Len(ts2) = Len(ts) /\ ts2[s] = t
        /\ \A r \in 1..Len(ts) : r # s => ts2[r] = ts[r]
    BY <1>3, <1>6
  <1>8. /\ Slot(page, s, ts[s]) /\ page.infos[s].size = z /\ Size[ts[s]] = z
    BY <1>2, <1>4 DEF PageOK, InPlace, PageFacts
  <1>9. o + z <= PageSize /\ HeaderLen(page.infos) <= o BY <1>4, <1>8 DEF Slot
  <1>10. /\ \A i \in 1..z : new.bytes[o + i] = <<t, i>>
         /\ \A b \in 1..PageSize : b <= o \/ o + z < b => new.bytes[b] = page.bytes[b]
    <2>1. o + Size[t] <= PageSize BY <1>4, <1>9
    <2>2. /\ \A i \in 1..Size[t] : Put(page.bytes, o, t)[o + i] = <<t, i>>
          /\ \A b \in 1..PageSize : b <= o \/ o + Size[t] < b =>
               Put(page.bytes, o, t)[b] = page.bytes[b]
      BY <2>1, PutFacts
    <2> QED BY <1>4, <1>5, <2>2
  <1>11. ASSUME NEW r \in 1..Len(ts) PROVE Slot(new, r, ts2[r])
    <2>1. CASE r = s BY <1>4, <1>5, <1>7, <1>8, <1>9, <1>10, <2>1 DEF Slot
    <2>2. CASE r # s
      <3>1. PICK p \in Nat, y \in Nat : p = page.infos[r].offset /\ y = Size[ts[r]]
        BY <1>2 DEF PageFacts
      <3>2. page.infos[r].size = y BY <1>2, <3>1 DEF PageFacts
      <3>3. p + y <= o \/ o + z <= p
        <4>1. CASE s < r BY <4>1, <1>4, <3>1, <3>2 DEF PageOK
        <4>2. CASE r < s BY <4>2, <1>4, <1>8, <3>1 DEF PageOK
        <4>3. Len(ts) \in Nat BY <1>2 DEF PageFacts
        <4> QED BY <2>2, <4>1, <4>2, <4>3
      <3>4. \A b \in 1..PageSize : p < b /\ b <= p + y => b <= o \/ o + z < b
        BY <3>3, Constants
      <3>5. \A b \in 1..PageSize : /\ page.infos[r].offset < b
                                   /\ b <= page.infos[r].offset + Size[ts[r]]
                                   => new.bytes[b] = page.bytes[b]
        BY <1>10, <3>1, <3>4
      <3>6. HeaderLen(new.infos) <= page.infos[r].offset BY <1>5 DEF PageOK, Slot
      <3>7. /\ new.infos[r].offset = page.infos[r].offset
            /\ new.infos[r].size = page.infos[r].size
        BY <1>5
      <3>8. Slot(new, r, ts[r]) BY <3>5, <3>6, <3>7, SlotStays
      <3> QED BY <1>7, <2>2, <3>8
    <2> QED BY <2>1, <2>2
  <1>12. \A q, r \in 1..Len(ts2) :
           q < r => new.infos[r].offset + new.infos[r].size <= new.infos[q].offset
    BY <1>5, <1>7 DEF PageOK
  <1>13. new.infos \in Seq(Info) /\ Len(new.infos) = Len(ts2) BY <1>3, <1>5, <1>7 DEF PageOK
  <1>14. \A r \in 1..Len(ts2) : Slot(new, r, ts2[r]) BY <1>7, <1>11
  <1>15. PageOK(new, ts2) BY <1>5, <1>7, <1>12, <1>13, <1>14 DEF PageOK
  <1> QED BY <1>1, <1>5, <1>6, <1>15

(* update_tuple_meta changes no tuple. *)
Marked(page, s, d, count) == [page EXCEPT !.infos[s].deleted = d, !.num_deleted = count]

LEMMA MetaPage ==
  ASSUME NEW page, NEW ts, PageOK(page, ts), NEW s \in 1..Len(ts), NEW d \in BOOLEAN, NEW count
  PROVE  PageOK(Marked(page, s, d, count), ts) /\ Marked(page, s, d, count).next = page.next
  <1>1. PICK new : new = Marked(page, s, d, count) OBVIOUS
  <1>2. PageFacts(page, ts) BY PageHas
  <1>3. page.infos \in Seq(Info) /\ ts \in Seq(Tuple) /\ IsPage(page) BY DEF PageOK
  <1>4. PICK i : i = [page.infos EXCEPT ![s] = [page.infos[s] EXCEPT !.deleted = d]] OBVIOUS
  <1>5. new.infos = i /\ new.bytes = page.bytes /\ new.next = page.next /\ IsPage(new)
    BY <1>1, <1>3, <1>4 DEF IsPage, Marked
  <1>6. PICK x \in Info : /\ x = [page.infos[s] EXCEPT !.deleted = d]
                          /\ x.offset = page.infos[s].offset /\ x.size = page.infos[s].size
    <2>1. PICK y \in Info : y = page.infos[s] BY <1>2 DEF PageFacts
    <2>2. PICK x : x = [y EXCEPT !.deleted = d] OBVIOUS
    <2>3. x \in Info /\ x.offset = y.offset /\ x.size = y.size BY <2>2 DEF Info
    <2> QED BY <2>1, <2>2, <2>3
  <1>7. s \in 1..Len(page.infos) BY <1>2 DEF PageFacts
  <1>8. /\ i \in Seq(Info) /\ Len(i) = Len(page.infos) /\ i[s] = x
        /\ \A r \in 1..Len(page.infos) : r # s => i[r] = page.infos[r]
    BY <1>3, <1>4, <1>6, <1>7
  <1>9. ASSUME NEW r \in 1..Len(ts)
        PROVE  i[r].offset = page.infos[r].offset /\ i[r].size = page.infos[r].size
    <2>1. r \in 1..Len(page.infos) BY <1>2 DEF PageFacts
    <2> QED BY <1>6, <1>8, <2>1
  <1>10. HeaderLen(i) = HeaderLen(page.infos) BY <1>8 DEF HeaderLen
  <1>11. ASSUME NEW r \in 1..Len(ts) PROVE Slot(new, r, ts[r])
    <2>1. Slot(page, r, ts[r]) BY DEF PageOK
    <2> QED BY <1>5, <1>9, <1>10, <2>1 DEF Slot
  <1>12. \A q, r \in 1..Len(ts) :
           q < r => new.infos[r].offset + new.infos[r].size <= new.infos[q].offset
    BY <1>5, <1>9 DEF PageOK
  <1>13. new.infos \in Seq(Info) /\ Len(new.infos) = Len(ts) BY <1>2, <1>5, <1>8 DEF PageFacts
  <1>14. PageOK(new, ts) BY <1>3, <1>5, <1>11, <1>12, <1>13 DEF PageOK
  <1> QED BY <1>1, <1>5, <1>14

LEMMA NewPage ==
  ASSUME NEW n
  PROVE  /\ PageOK([EmptyPage EXCEPT !.next = n], <<>>)
         /\ [EmptyPage EXCEPT !.next = n].next = n
  <1>1. PICK new : new = [EmptyPage EXCEPT !.next = n] OBVIOUS
  <1>2. new.next = n /\ new.infos = <<>> /\ IsPage(new) BY <1>1 DEF EmptyPage, IsPage
  <1>3. <<>> \in Seq(Info) /\ <<>> \in Seq(Tuple) /\ Len(<<>>) = 0 OBVIOUS
  <1>4. PageOK(new, <<>>) BY <1>2, <1>3 DEF PageOK
  <1> QED BY <1>1, <1>2, <1>4

LEMMA FreshPage == PageOK(EmptyPage, <<>>) /\ EmptyPage.next = INVALID /\ IsPage(EmptyPage)
  <1>1. EmptyPage.next = INVALID /\ EmptyPage.infos = <<>> /\ IsPage(EmptyPage)
    BY DEF EmptyPage, IsPage
  <1>2. <<>> \in Seq(Info) /\ <<>> \in Seq(Tuple) /\ Len(<<>>) = 0 OBVIOUS
  <1> QED BY <1>1, <1>2 DEF PageOK
-----------------------------------------------------------------------------
(* Pages that are built anew.                                              *)

BuildStep(page, ts, b, n) ==
  IF b = Overflow \/ ~Fits(b, ts[n]) THEN Overflow ELSE PageInsert(b, ts[n], page.infos[n].deleted)

(* f is the page after each of the first m insertions. *)
Builds(f, page, ts, m) ==
  f = [n \in 0..m |-> IF n = 0 THEN [EmptyPage EXCEPT !.next = page.next]
                      ELSE BuildStep(page, ts, f[n - 1], n)]

LEMMA BuildExists ==
  ASSUME NEW page, NEW ts
  PROVE  \A m \in Nat : \E f : Builds(f, page, ts, m)
  <1> DEFINE start == [EmptyPage EXCEPT !.next = page.next]
             Bad == {m \in Nat : ~\E f : Builds(f, page, ts, m)}
  <1> HIDE DEF start
  <1> SUFFICES ASSUME Bad # {} PROVE FALSE
    OBVIOUS
  <1>1. PICK m \in Bad : \A y \in Bad : m <= y BY NatMin
  <1>2. m \in Nat /\ ~\E f : Builds(f, page, ts, m) OBVIOUS
  <1>3. CASE m = 0
    <2>1. PICK f : f = [n \in 0..0 |-> start] OBVIOUS
    <2>2. \A n \in 0..0 : n = 0 OBVIOUS
    <2>3. f = [n \in 0..0 |-> IF n = 0 THEN start ELSE BuildStep(page, ts, f[n - 1], n)]
      BY <2>1, <2>2
    <2>4. Builds(f, page, ts, 0) BY <2>3 DEF Builds, start
    <2> QED BY <1>2, <1>3, <2>4
  <1>4. CASE m # 0
    <2>1. m - 1 \in Nat /\ ~(m <= m - 1) /\ (m - 1) + 1 = m BY <1>2, <1>4
    <2>2. ~(m - 1 \in Bad) BY <1>1, <2>1
    <2>3. PICK g : Builds(g, page, ts, m - 1) BY <2>1, <2>2
    <2>4. g = [n \in 0..(m - 1) |-> IF n = 0 THEN start ELSE BuildStep(page, ts, g[n - 1], n)]
      BY <2>3 DEF Builds, start
    <2>5. PICK f : f = [n \in 0..m |-> IF n = m THEN BuildStep(page, ts, g[m - 1], m) ELSE g[n]]
      OBVIOUS
    <2>6. ASSUME NEW n \in 0..m
          PROVE  f[n] = IF n = 0 THEN start ELSE BuildStep(page, ts, f[n - 1], n)
      <3>1. CASE n = m
        <4>1. m - 1 \in 0..m /\ m - 1 # m BY <1>2, <1>4
        <4>2. f[m - 1] = g[m - 1] BY <2>5, <4>1
        <4>3. f[m] = BuildStep(page, ts, g[m - 1], m) BY <1>2, <2>5
        <4> QED BY <1>4, <3>1, <4>2, <4>3
      <3>2. CASE n # m
        <4>1. n \in 0..(m - 1) BY <1>2, <3>2
        <4>2. f[n] = g[n] BY <2>5, <3>2
        <4>3. CASE n = 0
          <5>1. g[0] = start BY <2>4, <4>1, <4>3
          <5> QED BY <4>2, <4>3, <5>1
        <4>4. CASE n # 0
          <5>1. n - 1 \in 0..m /\ n - 1 # m BY <1>2, <3>2, <4>4
          <5>2. f[n - 1] = g[n - 1] BY <2>5, <5>1
          <5>3. g[n] = BuildStep(page, ts, g[n - 1], n) BY <2>4, <4>1, <4>4
          <5> QED BY <4>2, <4>4, <5>2, <5>3
        <4> QED BY <4>3, <4>4
      <3> QED BY <3>1, <3>2
    <2>7. f = [n \in 0..m |-> f[n]] BY <2>5
    <2>8. f = [n \in 0..m |-> IF n = 0 THEN start ELSE BuildStep(page, ts, f[n - 1], n)]
      BY <2>6, <2>7
    <2>9. Builds(f, page, ts, m) BY <2>8 DEF Builds, start
    <2> QED BY <1>2, <2>9
  <1> QED BY <1>3, <1>4

(* The page that update_tuple builds anew has the tuples it was built of. *)
LEMMA RebuiltPage ==
  ASSUME NEW page, NEW ts, PageOK(page, ts), NEW new \in Seq(Tuple), Len(new) = Len(ts),
         Rebuilt(page, new) # Overflow
  PROVE  PageOK(Rebuilt(page, new), new) /\ Rebuilt(page, new).next = page.next
  <1>1. PICK n \in Nat : n = Len(new) OBVIOUS
  <1> DEFINE g == CHOOSE f : Builds(f, page, new, Len(new))
  <1>2. Builds(g, page, new, Len(new)) BY <1>1, BuildExists
  <1>3. Rebuilt(page, new) = g[Len(new)] BY DEF Rebuilt, Builds, BuildStep
  <1> HIDE DEF g
  <1>4. PICK f : f = g OBVIOUS
  <1>5. f = [k \in 0..n |-> IF k = 0 THEN [EmptyPage EXCEPT !.next = page.next]
                            ELSE BuildStep(page, new, f[k - 1], k)]
    BY <1>1, <1>2, <1>4 DEF Builds
  <1>6. PageFacts(page, ts) BY PageHas
  <1> DEFINE P(k) == f[k] = Overflow
                     \/ (PageOK(f[k], SubSeq(new, 1, k)) /\ f[k].next = page.next)
             Bad == {k \in 0..n : ~P(k)}
  <1>7. Bad = {}
    <2> SUFFICES ASSUME Bad # {} PROVE FALSE
      OBVIOUS
    <2>1. Bad \subseteq Nat BY <1>1
    <2>2. PICK k \in Bad : \A y \in Bad : k <= y BY <2>1, NatMin
    <2>3. k \in 0..n /\ k \in Nat /\ ~P(k) BY <2>1
    <2>4. CASE k = 0
      <3>1. f[0] = [EmptyPage EXCEPT !.next = page.next] BY <1>5, <2>3, <2>4
      <3>2. PageOK(f[0], <<>>) /\ f[0].next = page.next BY <3>1, NewPage
      <3>3. SubSeq(new, 1, 0) = <<>> OBVIOUS
      <3> QED BY <2>3, <2>4, <3>2, <3>3
    <2>5. CASE k # 0
      <3>1. PICK j \in Nat : j = k - 1 BY <2>3, <2>5
      <3>2. j \in 0..n /\ ~(k <= j) /\ k = j + 1 /\ k \in 1..n BY <1>1, <2>3, <2>5, <3>1
      <3>3. P(j) BY <2>2, <3>2
      <3>4. f[k] = BuildStep(page, new, f[j], k) BY <1>5, <2>3, <2>5, <3>1
      <3>5. f[k] # Overflow BY <2>3
      <3>6. /\ f[j] # Overflow /\ Fits(f[j], new[k])
            /\ f[k] = PageInsert(f[j], new[k], page.infos[k].deleted)
        BY <3>4, <3>5 DEF BuildStep
      <3>7. PageOK(f[j], SubSeq(new, 1, j)) /\ f[j].next = page.next BY <3>3, <3>6
      <3>8. new[k] \in Tuple /\ page.infos[k].deleted \in BOOLEAN
        <4>1. page.infos[k] \in Info BY <1>1, <1>6, <3>2 DEF PageFacts
        <4>2. new[k] \in Tuple BY <1>1, <3>2, ElementOfSeq
        <4> QED BY <4>1, <4>2 DEF Info
      <3>9. PageOK(f[k], Append(SubSeq(new, 1, j), new[k])) /\ f[k].next = f[j].next
        BY <3>6, <3>7, <3>8, InsertPage
      <3>10. Append(SubSeq(new, 1, j), new[k]) = SubSeq(new, 1, k)
        <4>1. SubSeq(new, 1, j) = [i \in 1..j |-> new[i]] BY <1>1, <3>1, <3>2
        <4>2. SubSeq(new, 1, k) = [i \in 1..k |-> new[i]] BY <1>1, <3>1, <3>2
        <4> QED BY <1>1, <3>1, <3>2
      <3> QED BY <2>3, <3>7, <3>9, <3>10
    <2> QED BY <2>4, <2>5
  <1>8. n \in 0..n BY <1>1
  <1>9. P(n) BY <1>7, <1>8
  <1>10. SubSeq(new, 1, n) = new BY <1>1
  <1> QED BY <1>1, <1>3, <1>4, <1>9, <1>10
-----------------------------------------------------------------------------
(* The chain of pages.                                                     *)

LEMMA IsSeq ==
  ASSUME NEW n \in Nat, NEW s, DOMAIN s = 1..n, s = [i \in 1..n |-> s[i]]
  PROVE  s \in Seq(Range(s)) /\ Len(s) = n
  <1>1. \A i \in 1..n : s[i] \in Range(s) BY DEF Range
  <1>2. s \in [1..n -> Range(s)] BY <1>1
  <1>3. s \in Seq(Range(s)) BY <1>2
  <1> QED BY <1>3, LenProperties

LEMMA SeqIs ==
  ASSUME NEW S, NEW s \in Seq(S)
  PROVE  Len(s) \in Nat /\ DOMAIN s = 1..Len(s) /\ s = [i \in 1..Len(s) |-> s[i]]
  BY LenProperties

LEMMA ChainHas ==
  ASSUME NEW T, ChainOK(T)
  PROVE  /\ Len(pages) \in Nat /\ DOMAIN pages = 1..Len(pages)
         /\ pages = [p \in 1..Len(pages) |-> pages[p]]
         /\ Len(pages) \in 1..Len(pages) /\ last = Len(pages) /\ Len(pages) <= MaxPages
         /\ T \in Seq(Seq(Tuple)) /\ Len(T) = Len(pages)
         /\ \A p \in 1..Len(pages) : PageOK(pages[p], T[p]) /\ PageFacts(pages[p], T[p])
  <1>1. pages \in Seq(Range(pages)) /\ Len(pages) >= 1 BY DEF ChainOK
  <1>2. Len(pages) \in Nat /\ DOMAIN pages = 1..Len(pages)
        /\ pages = [p \in 1..Len(pages) |-> pages[p]]
    BY <1>1, SeqIs
  <1>3. \A p \in 1..Len(pages) : PageOK(pages[p], T[p]) BY DEF ChainOK
  <1>4. \A p \in 1..Len(pages) : PageFacts(pages[p], T[p]) BY <1>3, PageHas
  <1>5. Len(pages) \in 1..Len(pages) BY <1>1, <1>2
  <1> QED BY <1>2, <1>3, <1>4, <1>5 DEF ChainOK

(* A page is replaced by one with other tuples. *)
LEMMA PageReplaced ==
  ASSUME NEW T, ChainOK(T), NEW q \in 1..Len(pages), NEW N, NEW U, PageOK(N, U),
         N.next = pages[q].next, T[q] # <<>> => U # <<>>,
         pages' = [pages EXCEPT ![q] = N], last' = last,
         NEW T2, T2 = [T EXCEPT ![q] = U]
  PROVE  ChainOK(T2)' /\ Len(pages') = Len(pages)
  <1>1. PICK n \in Nat : n = Len(pages) BY ChainHas
  <1>2. /\ DOMAIN pages = 1..n /\ pages = [p \in 1..n |-> pages[p]] /\ last = n /\ n <= MaxPages
        /\ T \in Seq(Seq(Tuple)) /\ Len(T) = n /\ n >= 1
    BY <1>1, ChainHas
  <1>3. PICK P : P = pages' OBVIOUS
  <1>4. /\ DOMAIN P = 1..n /\ P = [p \in 1..n |-> P[p]] /\ P[q] = N
        /\ \A p \in 1..n : p # q => P[p] = pages[p]
    BY <1>1, <1>2, <1>3
  <1>5. P \in Seq(Range(P)) /\ Len(P) = n BY <1>4, IsSeq
  <1>6. U \in Seq(Tuple) BY DEF PageOK
  <1>7. /\ T2 \in Seq(Seq(Tuple)) /\ Len(T2) = n /\ T2[q] = U
        /\ \A p \in 1..n : p # q => T2[p] = T[p]
    BY <1>1, <1>2, <1>6
  <1>8. ASSUME NEW p \in 1..n
        PROVE  /\ PageOK(P[p], T2[p]) /\ P[p].next = (IF p = n THEN INVALID ELSE p + 1)
               /\ p # n => T2[p] # <<>>
    <2>1. /\ PageOK(pages[p], T[p]) /\ pages[p].next = (IF p = n THEN INVALID ELSE p + 1)
          /\ p # n => T[p] # <<>>
      BY <1>1 DEF ChainOK
    <2>2. CASE p = q BY <1>4, <1>7, <2>1, <2>2
    <2>3. CASE p # q BY <1>4, <1>7, <2>1, <2>3
    <2> QED BY <2>2, <2>3
  <1>9. pages' \in Seq(Range(pages)') BY <1>3, <1>5 DEF Range
  <1>10. Len(pages') = n BY <1>3, <1>5
  <1> QED BY <1>1, <1>2, <1>3, <1>7, <1>8, <1>9, <1>10 DEF ChainOK

(* A page is put behind the last one, which is linked to it. *)
PageBehind(n, N, M) ==
  pages' = [p \in 1..(n + 1) |-> IF p = n + 1 THEN N ELSE IF p = n THEN M ELSE pages[p]]

LEMMA PageAdded ==
  ASSUME NEW T, ChainOK(T), NEW n, n = Len(pages), T[n] # <<>>, n < MaxPages,
         NEW N, NEW U, PageOK(N, U), N.next = INVALID,
         NEW M, PageOK(M, T[n]), M.next = n + 1,
         PageBehind(n, N, M), last' = n + 1, NEW T2, T2 = Append(T, U)
  PROVE  ChainOK(T2)' /\ Len(pages') = n + 1
  <1>1. n \in Nat /\ n >= 1 /\ n \in 1..n /\ MaxPages \in Nat BY ChainHas, Constants
  <1>2. T \in Seq(Seq(Tuple)) /\ Len(T) = n BY ChainHas
  <1>3. PICK P : P = pages' OBVIOUS
  <1>4. /\ DOMAIN P = 1..(n + 1) /\ P = [p \in 1..(n + 1) |-> P[p]] /\ P[n + 1] = N /\ P[n] = M
        /\ \A p \in 1..n : p # n => P[p] = pages[p]
    <2>1. \A p \in 1..n : p \in 1..(n + 1) /\ p # n + 1 BY <1>1
    <2>2. n + 1 \in 1..(n + 1) BY <1>1
    <2> QED BY <1>1, <1>3, <2>1, <2>2 DEF PageBehind
  <1>5. P \in Seq(Range(P)) /\ Len(P) = n + 1
    <2>1. PICK m \in Nat : m = n + 1 BY <1>1
    <2>2. DOMAIN P = 1..m /\ P = [p \in 1..m |-> P[p]] BY <1>4, <2>1
    <2>3. P \in Seq(Range(P)) /\ Len(P) = m BY <2>2, IsSeq
    <2> QED BY <2>1, <2>3
  <1>6. U \in Seq(Tuple) BY DEF PageOK
  <1>7. /\ T2 \in Seq(Seq(Tuple)) /\ Len(T2) = n + 1 /\ T2[n + 1] = U
        /\ \A p \in 1..n : T2[p] = T[p]
    BY <1>2, <1>6
  <1>8. ASSUME NEW p \in 1..(n + 1)
        PROVE  /\ PageOK(P[p], T2[p]) /\ P[p].next = (IF p = n + 1 THEN INVALID ELSE p + 1)
               /\ p # n + 1 => T2[p] # <<>>
    <2>1. CASE p = n + 1 BY <1>4, <1>7, <2>1
    <2>2. CASE p = n
      <3>1. p # n + 1 BY <1>1, <2>2
      <3> QED BY <1>1, <1>4, <1>7, <2>2, <3>1
    <2>3. CASE p # n + 1 /\ p # n
      <3>1. p \in 1..n BY <1>1, <2>3
      <3>2. /\ PageOK(pages[p], T[p]) /\ pages[p].next = p + 1 /\ T[p] # <<>>
        BY <2>3, <3>1 DEF ChainOK
      <3> QED BY <1>4, <1>7, <2>3, <3>1, <3>2
    <2> QED BY <2>1, <2>2, <2>3
  <1>9. pages' \in Seq(Range(pages)') BY <1>3, <1>5 DEF Range
  <1>10. Len(pages') = n + 1 /\ n + 1 >= 1 /\ n + 1 <= MaxPages BY <1>1, <1>3, <1>5
  <1> QED BY <1>3, <1>7, <1>8, <1>9, <1>10 DEF ChainOK

(* load_table_last_page_id finds the end of the chain. *)
LEMMA LastPageIs ==
  ASSUME NEW T, ChainOK(T)
  PROVE  LastPage = Len(pages)
  <1>1. PICK n \in Nat : n = Len(pages) BY ChainHas
  <1>2. n >= 1 /\ DOMAIN pages = 1..n BY <1>1, ChainHas
  <1>3. \A p \in 1..n : pages[p].next = IF p = n THEN INVALID ELSE p + 1 BY <1>1 DEF ChainOK
  <1> DEFINE step(f) == [p \in DOMAIN pages |-> IF pages[p].next = INVALID THEN p
                                                ELSE f[pages[p].next]]
             from == CHOOSE f : f = step(f)
  <1>4. \A p \in 1..n : (pages[p].next = INVALID <=> p = n)
                        /\ (p # n => p + 1 \in 1..n /\ pages[p].next = p + 1)
    BY <1>3 DEF INVALID
  <1>5. PICK w : w = [p \in 1..n |-> n] OBVIOUS
  <1>6. w = step(w)
    <2>1. \A p \in 1..n : step(w)[p] = n BY <1>2, <1>4, <1>5
    <2> QED BY <1>2, <1>5, <2>1
  <1>7. from = step(from) BY <1>6
  <1>8. LastPage = from[First] BY DEF LastPage
  <1>9. PICK f : f = from OBVIOUS
  <1>10. \A p \in 1..n : f[p] = IF p = n THEN n ELSE f[p + 1]
    <2>1. f = step(f) BY <1>7, <1>9
    <2> QED BY <1>2, <1>4, <2>1
  <1> HIDE DEF from, step
  <1> DEFINE Bad == {k \in 0..(n - 1) : f[n - k] # n}
  <1>11. Bad = {}
    <2> SUFFICES ASSUME Bad # {} PROVE FALSE
      OBVIOUS
    <2>1. Bad \subseteq Nat BY <1>2
    <2>2. PICK k \in Bad : \A y \in Bad : k <= y BY <2>1, NatMin
    <2>3. k \in 0..(n - 1) /\ k \in Nat /\ f[n - k] # n BY <2>1
    <2>4. CASE k = 0
      <3>1. n - k = n /\ n \in 1..n BY <1>2, <2>3, <2>4
      <3> QED BY <1>10, <2>3, <3>1
    <2>5. CASE k # 0
      <3>1. /\ k - 1 \in 0..(n - 1) /\ ~(k <= k - 1) /\ n - k \in 1..n /\ n - k # n
            /\ (n - k) + 1 = n - (k - 1)
        BY <1>2, <2>3, <2>5
      <3>2. f[n - (k - 1)] = n BY <2>2, <3>1
      <3> QED BY <1>10, <2>3, <3>1, <3>2
    <2> QED BY <2>4, <2>5
  <1>12. n - 1 \in 0..(n - 1) /\ n - (n - 1) = 1 BY <1>2
  <1>13. f[1] = n BY <1>11, <1>12
  <1> QED BY <1>1, <1>8, <1>9, <1>13 DEF First
-----------------------------------------------------------------------------
(* The rows.                                                               *)

LEMMA RowIn ==
  ASSUME NEW p \in Nat, NEW s \in Nat, NEW t \in Tuple
  PROVE  <<<<p, s>>, t>> \in Row
  <1>1. <<p, s>> \in Nat \X Nat OBVIOUS
  <1> QED BY <1>1 DEF Row

LEMMA AppendIs ==
  ASSUME NEW S, NEW s \in Seq(S), NEW x \in S
  PROVE  /\ Append(s, x) \in Seq(S) /\ Len(Append(s, x)) = Len(s) + 1
         /\ Append(s, x)[Len(s) + 1] = x
         /\ \A k \in 1..Len(s) : Append(s, x)[k] = s[k]
  OBVIOUS

RowsHave(off, T) ==
  /\ Len(pages) \in Nat /\ Len(pages) >= 1 /\ Len(rows) \in Nat /\ DOMAIN rows = 1..Len(rows)
  /\ rows \in Seq(Row)
  /\ off \in [0..Len(pages) -> Nat] /\ \A p \in 0..Len(pages) : off[p] \in Nat
  /\ \A p \in 1..Len(pages) : p - 1 \in 0..Len(pages) /\ Len(T[p]) \in Nat
  /\ \A p \in 0..Len(pages) : off[p] <= Len(rows)
  /\ \A p \in 1..Len(pages) : \A s \in 1..Len(T[p]) : off[p - 1] + s \in 1..Len(rows)
  /\ \A k \in 1..Len(rows) :
       \E p \in 1..Len(pages) : \E s \in 1..Len(T[p]) : k = off[p - 1] + s

LEMMA RowsFacts ==
  ASSUME NEW off, NEW T, HeapOK(off, T)
  PROVE  RowsHave(off, T)
  <1>1. PICK n \in Nat : n = Len(pages) /\ n >= 1 BY ChainHas DEF HeapOK
  <1>2. \A p \in 1..n : Len(T[p]) \in Nat BY <1>1, ChainHas DEF HeapOK, PageFacts
  <1>3. /\ off \in [0..n -> Nat] /\ off[0] = 0 /\ rows \in Seq(Row)
        /\ Len(rows) = off[n] /\ \A p \in 1..n : off[p] = off[p - 1] + Len(T[p])
    BY <1>1 DEF HeapOK, RowsOK, RowsAre
  <1>4. /\ Len(rows) \in Nat /\ DOMAIN rows = 1..Len(rows) /\ \A p \in 0..n : off[p] \in Nat
    BY <1>3, LenProperties
  <1>5. \A p \in 1..n : p - 1 \in 0..n BY <1>1
  <1>6. \A p \in 0..n : off[p] <= off[n]
    <2> DEFINE Bad == {k \in 0..n : ~(off[n - k] <= off[n])}
    <2>1. Bad = {}
      <3> SUFFICES ASSUME Bad # {} PROVE FALSE
        OBVIOUS
      <3>1. Bad \subseteq Nat OBVIOUS
      <3>2. PICK k \in Bad : \A y \in Bad : k <= y BY <3>1, NatMin
      <3>3. k \in 0..n /\ k \in Nat /\ ~(off[n - k] <= off[n]) BY <3>1
      <3>4. k # 0
        <4> SUFFICES ASSUME k = 0 PROVE FALSE
          OBVIOUS
        <4>1. n - k = n /\ n \in 0..n BY <3>3
        <4> QED BY <1>4, <3>3, <4>1
      <3>5. /\ k - 1 \in 0..n /\ ~(k <= k - 1) /\ (n - k) + 1 = n - (k - 1)
            /\ n - (k - 1) \in 1..n /\ (n - (k - 1)) - 1 = n - k /\ n - k \in 0..n
        BY <3>3, <3>4
      <3>6. off[n - (k - 1)] <= off[n] BY <3>2, <3>5
      <3>7. off[n - (k - 1)] = off[n - k] + Len(T[n - (k - 1)]) BY <1>3, <3>5
      <3>8. /\ off[n - k] \in Nat /\ Len(T[n - (k - 1)]) \in Nat /\ off[n] \in Nat
            /\ off[n - (k - 1)] \in Nat
        BY <1>2, <1>4, <3>5
      <3> QED BY <3>3, <3>6, <3>7, <3>8
    <2> SUFFICES ASSUME NEW p \in 0..n PROVE off[p] <= off[n]
      OBVIOUS
    <2>2. n - p \in 0..n /\ n - (n - p) = p OBVIOUS
    <2> QED BY <2>1, <2>2
  <1>7. ASSUME NEW p \in 1..n, NEW s \in 1..Len(T[p]) PROVE off[p - 1] + s \in 1..Len(rows)
    <2>1. off[p] <= off[n] /\ off[p] = off[p - 1] + Len(T[p]) /\ off[p - 1] \in Nat
          /\ Len(T[p]) \in Nat /\ off[n] \in Nat
      BY <1>2, <1>3, <1>4, <1>5, <1>6
    <2>2. PICK a \in Nat, l \in Nat, m \in Nat : a = off[p - 1] /\ l = Len(T[p]) /\ m = off[n]
      BY <2>1
    <2>3. a + l <= m /\ s \in 1..l BY <2>1, <2>2
    <2>4. a + s \in 1..m BY <2>3
    <2> QED BY <1>3, <2>2, <2>4
  <1>8. ASSUME NEW k \in 1..Len(rows)
        PROVE  \E p \in 1..n : \E s \in 1..Len(T[p]) : k = off[p - 1] + s
    <2> DEFINE S == {p \in 0..n : k <= off[p]}
    <2>1. n \in S BY <1>3, <1>4
    <2>2. S \subseteq Nat OBVIOUS
    <2>3. PICK p \in S : \A y \in S : p <= y BY <2>1, <2>2, NatMin
    <2>4. p \in 0..n /\ k <= off[p] OBVIOUS
    <2>5. p # 0 BY <1>3, <1>4, <2>4
    <2>6. p \in 1..n /\ p - 1 \in 0..n /\ ~(p <= p - 1) BY <2>4, <2>5
    <2>7. ~(k <= off[p - 1]) BY <2>3, <2>6
    <2>8. off[p] = off[p - 1] + Len(T[p]) /\ off[p - 1] \in Nat /\ Len(T[p]) \in Nat
      BY <1>2, <1>3, <1>4, <2>6
    <2>9. k - off[p - 1] \in 1..Len(T[p]) /\ k = off[p - 1] + (k - off[p - 1])
      BY <1>4, <2>4, <2>7, <2>8
    <2> QED BY <2>6, <2>9
  <1>9. \A p \in 0..n : off[p] <= Len(rows) BY <1>3, <1>6
  <1> QED BY <1>1, <1>2, <1>3, <1>4, <1>5, <1>7, <1>8, <1>9 DEF RowsHave

(* A row is added to the last page. *)
LEMMA RowAppended ==
  ASSUME NEW off, NEW T, HeapOK(off, T), NEW n, n = Len(pages), NEW t \in Tuple,
         Len(pages') = n, rows' = Append(rows, <<<<n, Len(T[n]) + 1>>, t>>),
         NEW T2, T2 = [T EXCEPT ![n] = Append(T[n], t)],
         NEW off2, off2 = [off EXCEPT ![n] = off[n] + 1]
  PROVE  RowsOK(off2, T2)'
  <1>1. RowsHave(off, T) BY RowsFacts
  <1>2. n \in Nat /\ n >= 1 /\ n \in 1..n /\ n \in 0..n /\ n - 1 \in 0..n /\ n - 1 # n
    BY <1>1 DEF RowsHave
  <1>3. PICK m \in Nat : m = Len(T[n]) BY <1>1, <1>2 DEF RowsHave
  <1>4. PICK x \in Row : x = <<<<n, m + 1>>, t>> BY <1>2, <1>3, RowIn
  <1>5. PICK R : R = rows' OBVIOUS
  <1>6. /\ rows \in Seq(Row) /\ Len(rows) \in Nat /\ Len(rows) = off[n]
        /\ R = Append(rows, x)
    BY <1>1, <1>3, <1>4, <1>5 DEF RowsHave, HeapOK, RowsOK, RowsAre
  <1>7. /\ R \in Seq(Row) /\ Len(R) = Len(rows) + 1 /\ R[Len(rows) + 1] = x
        /\ \A k \in 1..Len(rows) : R[k] = rows[k]
    BY <1>6, AppendIs
  <1>8. /\ off2 \in [0..n -> Nat] /\ off2[n] = off[n] + 1
        /\ \A p \in 0..n : p # n => off2[p] = off[p]
    <2>1. off \in [0..n -> Nat] /\ off[n] + 1 \in Nat BY <1>1, <1>2 DEF RowsHave
    <2>2. off2 \in [0..n -> Nat] BY <2>1
    <2> QED BY <1>2, <2>1, <2>2
  <1>9. /\ T \in Seq(Seq(Tuple)) /\ Len(T) = n /\ T[n] \in Seq(Tuple)
    BY <1>2, ChainHas DEF HeapOK, PageOK
  <1>10. PICK U : U = Append(T[n], t) OBVIOUS
  <1>11. /\ U \in Seq(Tuple) /\ Len(U) = m + 1 /\ U[m + 1] = t
         /\ \A s \in 1..m : U[s] = T[n][s]
    BY <1>3, <1>9, <1>10
  <1>12. T2[n] = U /\ \A p \in 1..n : p # n => T2[p] = T[p] BY <1>2, <1>9, <1>10
  <1>13. ASSUME NEW p \in 1..n
         PROVE  /\ off2[p] = off2[p - 1] + Len(T2[p])
                /\ \A s \in 1..Len(T2[p]) : R[off2[p - 1] + s] = <<<<p, s>>, T2[p][s]>>
    <2>1. off[p] = off[p - 1] + Len(T[p]) /\ p - 1 \in 0..n /\ p - 1 # n
      BY <1>1, <1>2 DEF RowsHave, HeapOK, RowsOK, RowsAre
    <2>2. PICK a \in Nat, l \in Nat : a = off[p - 1] /\ l = Len(T[p]) /\ off[p] = a + l
      BY <1>1, <2>1 DEF RowsHave
    <2>3. off2[p - 1] = a BY <1>8, <2>1, <2>2
    <2>4. \A s \in 1..l : rows[a + s] = <<<<p, s>>, T[p][s]>> /\ a + s \in 1..Len(rows)
      BY <1>1, <2>2 DEF RowsHave, HeapOK, RowsOK, RowsAre
    <2>5. \A s \in 1..l : R[a + s] = <<<<p, s>>, T[p][s]>> BY <1>7, <2>4
    <2>6. CASE p # n
      <3>1. off2[p] = off[p] /\ T2[p] = T[p] BY <1>8, <1>12, <2>6
      <3> QED BY <2>2, <2>3, <2>5, <3>1
    <2>7. CASE p = n
      <3>1. l = m /\ a + m = Len(rows) BY <1>3, <1>6, <2>2, <2>7
      <3>2. off2[p] = (a + m) + 1 BY <1>6, <1>8, <2>7, <3>1
      <3>3. off2[p] = off2[p - 1] + Len(U) BY <1>11, <2>3, <3>2
      <3>4. ASSUME NEW s \in 1..(m + 1) PROVE R[a + s] = <<<<p, s>>, U[s]>>
        <4>1. CASE s = m + 1
          <5>1. a + s = Len(rows) + 1 BY <3>1, <4>1
          <5> QED BY <1>4, <1>7, <1>11, <2>7, <4>1, <5>1
        <4>2. CASE s # m + 1
          <5>1. s \in 1..m BY <4>2
          <5> QED BY <1>11, <2>5, <2>7, <3>1, <5>1
        <4> QED BY <4>1, <4>2
      <3> QED BY <1>11, <1>12, <2>3, <2>7, <3>3, <3>4
    <2> QED BY <2>6, <2>7
  <1>14. off2[0] = 0 BY <1>2, <1>8 DEF HeapOK, RowsOK, RowsAre
  <1>15. Len(R) = off2[n] BY <1>6, <1>7, <1>8
  <1>16. RowsAre(R, n, off2, T2) BY <1>7, <1>8, <1>13, <1>14, <1>15 DEF RowsAre
  <1> QED BY <1>5, <1>16 DEF RowsOK

(* A page is added, with the rows that are added. *)
RowsBehind(n, U) ==
  \/ U = <<>> /\ rows' = rows
  \/ \E t \in Tuple : U = <<t>> /\ rows' = Append(rows, <<<<n + 1, 1>>, t>>)

OffBehind(off, n, U) ==
  [p \in 0..(n + 1) |-> IF p = n + 1 THEN off[n] + Len(U) ELSE off[p]]

LEMMA RowsGrown ==
  ASSUME NEW off, NEW T, HeapOK(off, T), NEW n, n = Len(pages), NEW U \in Seq(Tuple),
         Len(pages') = n + 1, RowsBehind(n, U),
         NEW T2, T2 = Append(T, U),
         NEW off2, off2 = OffBehind(off, n, U)
  PROVE  RowsOK(off2, T2)'
  <1>1. RowsHave(off, T) BY RowsFacts
  <1>2. n \in Nat /\ n >= 1 /\ n \in 0..n BY <1>1 DEF RowsHave
  <1>3. PICK R : R = rows' OBVIOUS
  <1>4. rows \in Seq(Row) /\ Len(rows) \in Nat /\ Len(rows) = off[n]
    BY <1>1 DEF RowsHave, HeapOK, RowsOK, RowsAre
  <1>5. /\ R \in Seq(Row) /\ Len(R) = Len(rows) + Len(U) /\ Len(U) \in Nat
        /\ \A k \in 1..Len(rows) : R[k] = rows[k]
        /\ \A s \in 1..Len(U) : R[Len(rows) + s] = <<<<n + 1, s>>, U[s]>>
    <2>1. CASE U = <<>> /\ rows' = rows
      <3>1. Len(U) = 0 /\ 1..Len(U) = {} BY <2>1
      <3> QED BY <1>3, <1>4, <2>1, <3>1
    <2>2. CASE \E t \in Tuple : U = <<t>> /\ rows' = Append(rows, <<<<n + 1, 1>>, t>>)
      <3>1. PICK t \in Tuple : U = <<t>> /\ rows' = Append(rows, <<<<n + 1, 1>>, t>>) BY <2>2
      <3>2. PICK x \in Row : x = <<<<n + 1, 1>>, t>>
        <4>1. n + 1 \in Nat /\ 1 \in Nat BY <1>2
        <4> QED BY <4>1, RowIn
      <3>3. R = Append(rows, x) BY <1>3, <3>1, <3>2
      <3>4. /\ R \in Seq(Row) /\ Len(R) = Len(rows) + 1
            /\ R[Len(rows) + 1] = x /\ \A k \in 1..Len(rows) : R[k] = rows[k]
        BY <1>4, <3>3, AppendIs
      <3>5. Len(U) = 1 /\ U[1] = t BY <3>1
      <3>6. \A s \in 1..Len(U) : s = 1 BY <3>5
      <3> QED BY <3>2, <3>4, <3>5, <3>6
    <2> QED BY <2>1, <2>2 DEF RowsBehind
  <1>6. /\ off2[n + 1] = off[n] + Len(U)
        /\ \A p \in 0..n : off2[p] = off[p] /\ off[p] \in Nat /\ p \in 0..(n + 1) /\ p # n + 1
    <2>1. n + 1 \in 0..(n + 1) /\ \A p \in 0..n : p \in 0..(n + 1) /\ p # n + 1 BY <1>2
    <2> QED BY <1>1, <2>1 DEF RowsHave, OffBehind
  <1>7. off2 \in [0..(n + 1) -> Nat]
    <2>1. off2 = [p \in 0..(n + 1) |-> off2[p]] BY DEF OffBehind
    <2>2. ASSUME NEW p \in 0..(n + 1) PROVE off2[p] \in Nat
      <3>1. CASE p = n + 1
        <4>1. off[n] \in Nat BY <1>2, <1>6
        <4>2. off[n] + Len(U) \in Nat BY <1>5, <4>1
        <4> QED BY <1>6, <3>1, <4>2
      <3>2. CASE p # n + 1
        <4>1. p \in 0..n BY <1>2, <3>2
        <4> QED BY <1>6, <4>1
      <3> QED BY <3>1, <3>2
    <2> QED BY <2>1, <2>2
  <1>8. T \in Seq(Seq(Tuple)) /\ Len(T) = n BY ChainHas DEF HeapOK
  <1>9. T2[n + 1] = U /\ \A p \in 1..n : T2[p] = T[p] BY <1>8
  <1>10. ASSUME NEW p \in 1..(n + 1)
         PROVE  /\ off2[p] = off2[p - 1] + Len(T2[p])
                /\ \A s \in 1..Len(T2[p]) : R[off2[p - 1] + s] = <<<<p, s>>, T2[p][s]>>
    <2>1. CASE p = n + 1
      <3>1. p - 1 = n /\ off2[n] = off[n] BY <1>2, <1>6, <2>1
      <3>2. off2[p] = off2[p - 1] + Len(T2[p]) BY <1>6, <1>9, <2>1, <3>1
      <3>3. \A s \in 1..Len(U) : R[off[n] + s] = <<<<p, s>>, U[s]>> BY <1>4, <1>5, <2>1
      <3>4. T2[p] = U /\ off2[p - 1] = off[n] BY <1>9, <2>1, <3>1
      <3>5. \A s \in 1..Len(T2[p]) : R[off2[p - 1] + s] = <<<<p, s>>, T2[p][s]>>
        BY <3>3, <3>4
      <3> QED BY <3>2, <3>5
    <2>2. CASE p # n + 1
      <3>1. p \in 1..n /\ p \in 0..n /\ p - 1 \in 0..n BY <1>2, <2>2
      <3>2. /\ off[p] = off[p - 1] + Len(T[p])
            /\ \A s \in 1..Len(T[p]) : /\ rows[off[p - 1] + s] = <<<<p, s>>, T[p][s]>>
                                       /\ off[p - 1] + s \in 1..Len(rows)
        BY <1>1, <3>1 DEF RowsHave, HeapOK, RowsOK, RowsAre
      <3>3. off2[p] = off[p] /\ off2[p - 1] = off[p - 1] /\ T2[p] = T[p] BY <1>6, <1>9, <3>1
      <3> QED BY <1>5, <3>2, <3>3
    <2> QED BY <2>1, <2>2
  <1>11. off2[0] = 0 BY <1>2, <1>6 DEF HeapOK, RowsOK, RowsAre
  <1>12. Len(R) = off2[n + 1] BY <1>4, <1>5, <1>6
  <1>13. RowsAre(R, n + 1, off2, T2) BY <1>5, <1>7, <1>10, <1>11, <1>12 DEF RowsAre
  <1> QED BY <1>3, <1>13 DEF RowsOK

(* The tuple of one row changes. *)
LEMMA RowUpdated ==
  ASSUME NEW off, NEW T, HeapOK(off, T), NEW q \in 1..Len(pages), NEW s \in 1..Len(T[q]),
         NEW t \in Tuple, Len(pages') = Len(pages),
         rows' = [i \in DOMAIN rows |-> IF rows[i][1] = <<q, s>> THEN <<<<q, s>>, t>> ELSE rows[i]],
         NEW T2, T2 = [T EXCEPT ![q] = [T[q] EXCEPT ![s] = t]]
  PROVE  RowsOK(off, T2)'
  <1>1. RowsHave(off, T) BY RowsFacts
  <1>2. PICK n \in Nat : n = Len(pages) BY <1>1 DEF RowsHave
  <1>3. PICK R : R = rows' OBVIOUS
  <1>4. PICK m \in Nat : m = Len(rows) BY <1>1 DEF RowsHave
  <1>5. /\ rows \in Seq(Row) /\ DOMAIN rows = 1..m /\ m = off[n]
        /\ off \in [0..n -> Nat] /\ off[0] = 0
    BY <1>1, <1>2, <1>4 DEF RowsHave, HeapOK, RowsOK, RowsAre
  <1>6. R = [i \in 1..m |-> IF rows[i][1] = <<q, s>> THEN <<<<q, s>>, t>> ELSE rows[i]]
    BY <1>3, <1>5
  <1>7. R \in Seq(Row) /\ Len(R) = m
    <2>1. ASSUME NEW i \in 1..m PROVE R[i] \in Row
      <3>1. rows[i] \in Row BY <1>4, <1>5, ElementOfSeq
      <3>2. s \in Nat /\ q \in Nat OBVIOUS
      <3>3. <<<<q, s>>, t>> \in Row BY <3>2, RowIn
      <3>4. R[i] = rows[i] \/ R[i] = <<<<q, s>>, t>> BY <1>6
      <3> QED BY <3>1, <3>3, <3>4
    <2>2. R = [i \in 1..m |-> R[i]] /\ DOMAIN R = 1..m BY <1>6
    <2>3. R \in Seq(Row) BY <2>1, <2>2
    <2> QED BY <2>2, <2>3, LenProperties
  <1>8. T \in Seq(Seq(Tuple)) /\ Len(T) = n /\ T[q] \in Seq(Tuple)
    BY <1>2, ChainHas DEF HeapOK, PageOK
  <1>9. PICK U : U = [T[q] EXCEPT ![s] = t] OBVIOUS
  <1>10. /\ Len(U) = Len(T[q]) /\ U[s] = t /\ \A r \in 1..Len(T[q]) : r # s => U[r] = T[q][r]
    BY <1>8, <1>9
  <1>11. T2[q] = U /\ \A p \in 1..n : p # q => T2[p] = T[p] BY <1>2, <1>8, <1>9
  <1>12. ASSUME NEW p \in 1..n
         PROVE  /\ off[p] = off[p - 1] + Len(T2[p])
                /\ \A r \in 1..Len(T2[p]) : R[off[p - 1] + r] = <<<<p, r>>, T2[p][r]>>
    <2>1. off[p] = off[p - 1] + Len(T[p]) BY <1>2 DEF HeapOK, RowsOK, RowsAre
    <2>2. Len(T2[p]) = Len(T[p]) BY <1>10, <1>11
    <2>3. ASSUME NEW r \in 1..Len(T[p]) PROVE R[off[p - 1] + r] = <<<<p, r>>, T2[p][r]>>
      <3>1. PICK k \in 1..m : k = off[p - 1] + r BY <1>1, <1>2, <1>4 DEF RowsHave
      <3>2. rows[k] = <<<<p, r>>, T[p][r]>> BY <1>2, <3>1 DEF HeapOK, RowsOK, RowsAre
      <3>3. rows[k][1] = <<p, r>> BY <3>2
      <3>4. CASE p = q /\ r = s
        <4>1. R[k] = <<<<q, s>>, t>> BY <1>6, <3>3, <3>4
        <4> QED BY <1>10, <1>11, <3>1, <3>4, <4>1
      <3>5. CASE ~(p = q /\ r = s)
        <4>1. <<p, r>> # <<q, s>> BY <3>5
        <4>2. R[k] = <<<<p, r>>, T[p][r]>> BY <1>6, <3>2, <3>3, <4>1
        <4>3. T2[p][r] = T[p][r] BY <1>10, <1>11, <3>5
        <4> QED BY <3>1, <4>2, <4>3
      <3> QED BY <3>4, <3>5
    <2> QED BY <2>1, <2>2, <2>3
  <1>13. Len(pages') = n BY <1>2
  <1>14. RowsAre(R, n, off, T2) BY <1>5, <1>7, <1>12 DEF RowsAre
  <1> QED BY <1>3, <1>13, <1>14 DEF RowsOK
-----------------------------------------------------------------------------
(* The operations.                                                         *)

LEMMA RidIs ==
  ASSUME NEW T, ChainOK(T), NEW rid \in Rids, Exists(rid)
  PROVE  \E q \in 1..Len(pages) : \E s \in 1..Len(T[q]) : rid = <<q, s>>
  <1>1. PICK q \in DOMAIN pages : rid \in {<<q, s>> : s \in 1..(Len(pages[q].infos) + 1)}
    BY DEF Rids
  <1>2. PICK s : rid = <<q, s>> BY <1>1
  <1>3. rid[1] = q /\ rid[2] = s BY <1>2
  <1>4. q \in 1..Len(pages) /\ s \in DOMAIN pages[q].infos BY <1>3, ChainHas DEF Exists
  <1>5. s \in 1..Len(T[q]) BY <1>4, ChainHas DEF PageFacts
  <1> QED BY <1>2, <1>4, <1>5

LEMMA TuplesAre ==
  ASSUME NEW page, NEW ts, PageOK(page, ts)
  PROVE  Tuples(page) = ts
  <1>1. ts \in Seq(Tuple) BY DEF PageOK
  <1>2. DOMAIN page.infos = 1..Len(ts) BY PageHas DEF PageFacts
  <1>3. \A s \in 1..Len(ts) : Decode(page, page.infos[s]) = ts[s] BY DecodeSlot
  <1>4. Tuples(page) = [s \in 1..Len(ts) |-> ts[s]] BY <1>2, <1>3 DEF Tuples
  <1>5. ts = [s \in 1..Len(ts) |-> ts[s]] BY <1>1, SeqIs
  <1> QED BY <1>4, <1>5

LEMMA UpdatedPage ==
  ASSUME NEW page, NEW ts, PageOK(page, ts), NEW s \in 1..Len(ts), NEW t \in Tuple,
         Updated(page, s, t) # Overflow
  PROVE  /\ PageOK(Updated(page, s, t), [ts EXCEPT ![s] = t])
         /\ Updated(page, s, t).next = page.next
  <1>1. PICK new : new = [ts EXCEPT ![s] = t] OBVIOUS
  <1>2. CASE InPlace(page.infos[s], t)
    <2>1. PICK u : u = [page EXCEPT !.bytes = Put(@, page.infos[s].offset, t)] OBVIOUS
    <2>2. Updated(page, s, t) = u BY <1>2, <2>1 DEF Updated
    <2>3. PageOK(u, new) /\ u.next = page.next BY <1>1, <1>2, <2>1, PutPage
    <2> QED BY <1>1, <2>2, <2>3
  <1>3. CASE ~InPlace(page.infos[s], t)
    <2>1. Updated(page, s, t) = Rebuilt(page, new) BY <1>1, <1>3, TuplesAre DEF Updated
    <2>2. ts \in Seq(Tuple) BY DEF PageOK
    <2>3. new \in Seq(Tuple) /\ Len(new) = Len(ts) BY <1>1, <2>2
    <2>4. PageOK(Rebuilt(page, new), new) /\ Rebuilt(page, new).next = page.next
      BY <2>1, <2>3, RebuiltPage
    <2> QED BY <1>1, <2>1, <2>4
  <1> QED BY <1>2, <1>3

LEMMA InsertStep ==
  ASSUME NEW off, NEW T, HeapOK(off, T), NEW t \in Tuple, Insert(t)
  PROVE  IInv'
  <1>1. ChainOK(T) BY DEF HeapOK
  <1>2. PICK n \in Nat : n = Len(pages) BY <1>1, ChainHas
  <1>3. /\ n \in 1..n /\ last = n /\ DOMAIN pages = 1..n /\ PageOK(pages[n], T[n])
        /\ PageFacts(pages[n], T[n])
    BY <1>1, <1>2, ChainHas
  <1>4. PICK I : I = PageInsert(pages[n], t, FALSE) OBVIOUS
  <1>5. PICK U : U = Append(T[n], t) OBVIOUS
  <1>6. PageOK(I, U) /\ I.next = pages[n].next
    <2>1. Fits(pages[n], t) BY <1>3 DEF Insert
    <2> QED BY <1>3, <1>4, <1>5, <2>1, InsertPage
  <1>7. PICK N : N = Encode(I) OBVIOUS
  <1>8. PageOK(N, U) /\ N.next = pages[n].next BY <1>6, <1>7, EncodePage
  <1>9. pages' = [pages EXCEPT ![n] = N] /\ last' = last BY <1>3, <1>4, <1>7 DEF Insert
  <1>10. T[n] \in Seq(Tuple) BY <1>3 DEF PageOK
  <1>11. PICK m \in Nat : m = Len(T[n]) BY <1>10
  <1>12. Len(U) = m + 1 /\ U # <<>>
    <2>1. Len(U) = m + 1 BY <1>5, <1>10, <1>11
    <2>2. Len(<<>>) = 0 OBVIOUS
    <2> QED BY <2>1, <2>2
  <1>13. PICK T2 : T2 = [T EXCEPT ![n] = U] OBVIOUS
  <1>14. ChainOK(T2)' /\ Len(pages') = n
    BY <1>1, <1>2, <1>3, <1>8, <1>9, <1>12, <1>13, PageReplaced
  <1>15. Len(pages'[n].infos) = m + 1
    <2>1. pages'[n] = N BY <1>3, <1>9
    <2>2. Len(N.infos) = m + 1 BY <1>8, <1>12 DEF PageOK
    <2> QED BY <2>1, <2>2
  <1>16. rows' = Append(rows, <<<<n, m + 1>>, t>>) BY <1>3, <1>15 DEF Insert
  <1>17. PICK off2 : off2 = [off EXCEPT ![n] = off[n] + 1] OBVIOUS
  <1>18. RowsOK(off2, T2)' BY <1>2, <1>5, <1>11, <1>13, <1>14, <1>16, <1>17, RowAppended
  <1> QED BY <1>14, <1>18 DEF IInv, HeapOK

(* A page is linked behind the last one. *)
LEMMA GrowStep ==
  ASSUME NEW off, NEW T, HeapOK(off, T), NEW n, n = Len(pages), n < MaxPages,
         pages[n].infos # <<>>, NEW N, NEW U, PageOK(N, U), N.next = INVALID, last' = n + 1,
         PageBehind(n, N, Encode(Linked(pages[n], n + 1))), RowsBehind(n, U)
  PROVE  IInv'
  <1>1. ChainOK(T) BY DEF HeapOK
  <1>2. n \in 1..n /\ PageOK(pages[n], T[n]) /\ PageFacts(pages[n], T[n]) BY <1>1, ChainHas
  <1>3. T[n] # <<>>
    <2>1. pages[n].infos \in Seq(Info) /\ T[n] \in Seq(Tuple) /\ Len(pages[n].infos) = Len(T[n])
      BY <1>2 DEF PageOK
    <2>2. Len(pages[n].infos) # 0 BY <2>1, EmptySeq
    <2>3. Len(<<>>) = 0 OBVIOUS
    <2> QED BY <2>1, <2>2, <2>3
  <1>4. PICK L : L = Linked(pages[n], n + 1) OBVIOUS
  <1>5. PageOK(L, T[n]) /\ L.next = n + 1
    <2>1. IsPage(pages[n]) BY <1>2 DEF PageOK
    <2>2. /\ L.infos = pages[n].infos /\ L.bytes = pages[n].bytes /\ L.next = n + 1 /\ IsPage(L)
      BY <1>4, <2>1 DEF Linked, IsPage
    <2> QED BY <1>2, <2>2 DEF PageOK, Slot
  <1>6. PICK M : M = Encode(L) OBVIOUS
  <1>7. PageOK(M, T[n]) /\ M.next = n + 1 BY <1>5, <1>6, EncodePage
  <1>8. PageBehind(n, N, M) BY <1>4, <1>6
  <1>9. PICK T2 : T2 = Append(T, U) OBVIOUS
  <1>10. ChainOK(T2)' /\ Len(pages') = n + 1 BY <1>1, <1>3, <1>7, <1>8, <1>9, PageAdded
  <1>11. U \in Seq(Tuple) BY DEF PageOK
  <1>12. PICK off2 : off2 = OffBehind(off, n, U) OBVIOUS
  <1>13. RowsOK(off2, T2)' BY <1>9, <1>10, <1>11, <1>12, RowsGrown
  <1> QED BY <1>10, <1>13 DEF IInv, HeapOK

LEMMA GrownIs ==
  ASSUME NEW T, ChainOK(T), NEW n, n = Len(pages), NEW P, P = Grown(pages, n + 1)
  PROVE  P = [p \in 1..(n + 1) |-> IF p = n + 1 THEN Encode(EmptyPage)
                                   ELSE IF p = n THEN Encode(Linked(pages[n], n + 1))
                                   ELSE pages[p]]
  <1>1. n \in Nat /\ DOMAIN pages = 1..n /\ last = n BY ChainHas
  <1>2. (1..n) \cup {n + 1} = 1..(n + 1) BY <1>1
  <1> QED BY <1>1, <1>2 DEF Grown

LEMMA InsertGrowStep ==
  ASSUME NEW off, NEW T, HeapOK(off, T), NEW t \in Tuple, InsertGrow(t)
  PROVE  IInv'
  <1>1. ChainOK(T) BY DEF HeapOK
  <1>2. PICK n \in Nat : n = Len(pages) BY <1>1, ChainHas
  <1>3. last = n BY <1>1, <1>2, ChainHas
  <1>4. PICK I : I = PageInsert(EmptyPage, t, FALSE) OBVIOUS
  <1>5. PICK N : N = Encode(I) OBVIOUS
  <1>6. PageOK(N, <<t>>) /\ N.next = INVALID
    <2>1. Fits(EmptyPage, t) BY DEF InsertGrow
    <2>2. PageOK(EmptyPage, <<>>) /\ EmptyPage.next = INVALID BY FreshPage
    <2>3. Append(<<>>, t) = <<t>> OBVIOUS
    <2>4. PageOK(I, <<t>>) /\ I.next = INVALID BY <1>4, <2>1, <2>2, <2>3, InsertPage
    <2> QED BY <1>5, <2>4, EncodePage
  <1>7. PageBehind(n, N, Encode(Linked(pages[n], n + 1)))
    <2>1. PICK P : P = Grown(pages, n + 1) OBVIOUS
    <2>2. pages' = [P EXCEPT ![n + 1] = N] BY <1>2, <1>4, <1>5, <2>1 DEF InsertGrow
    <2>3. P = [p \in 1..(n + 1) |-> IF p = n + 1 THEN Encode(EmptyPage)
                                    ELSE IF p = n THEN Encode(Linked(pages[n], n + 1))
                                    ELSE pages[p]]
      BY <1>1, <1>2, <2>1, GrownIs
    <2> QED BY <2>2, <2>3 DEF PageBehind
  <1>8. RowsBehind(n, <<t>>) BY <1>2 DEF RowsBehind, InsertGrow
  <1>9. last' = n + 1 /\ n < MaxPages /\ pages[n].infos # <<>> BY <1>2, <1>3 DEF InsertGrow
  <1> QED BY <1>2, <1>6, <1>7, <1>8, <1>9, GrowStep

LEMMA InsertTooLargeStep ==
  ASSUME NEW off, NEW T, HeapOK(off, T), NEW t \in Tuple, InsertTooLarge(t)
  PROVE  IInv'
  <1>1. ChainOK(T) BY DEF HeapOK
  <1>2. PICK n \in Nat : n = Len(pages) BY <1>1, ChainHas
  <1>3. last = n BY <1>1, <1>2, ChainHas
  <1>4. CASE pages[last].infos = <<>>
    <2>1. UNCHANGED vars BY <1>4 DEF InsertTooLarge, vars
    <2> QED BY <2>1 DEF IInv, HeapOK, ChainOK, RowsOK, vars, Range
  <1>5. CASE pages[last].infos # <<>>
    <2>1. /\ n < MaxPages /\ last' = n + 1 /\ pages' = Grown(pages, n + 1) /\ rows' = rows
          /\ pages[n].infos # <<>>
      BY <1>2, <1>3, <1>5 DEF InsertTooLarge
    <2>2. PICK N : N = Encode(EmptyPage) OBVIOUS
    <2>3. PageOK(N, <<>>) /\ N.next = INVALID BY <2>2, FreshPage, EncodePage
    <2>4. PageBehind(n, N, Encode(Linked(pages[n], n + 1)))
      BY <1>1, <1>2, <2>1, <2>2, GrownIs DEF PageBehind
    <2>5. RowsBehind(n, <<>>) BY <2>1 DEF RowsBehind
    <2> QED BY <1>2, <2>1, <2>3, <2>4, <2>5, GrowStep
  <1> QED BY <1>4, <1>5

LEMMA UpdateStep ==
  ASSUME NEW off, NEW T, HeapOK(off, T), NEW rid \in Rids, NEW t \in Tuple, Update(rid, t)
  PROVE  IInv'
  <1>1. ChainOK(T) BY DEF HeapOK
  <1>2. PICK q \in 1..Len(pages) : \E s \in 1..Len(T[q]) : rid = <<q, s>>
    BY <1>1, RidIs DEF Update
  <1>3. PICK s \in 1..Len(T[q]) : rid = <<q, s>> BY <1>2
  <1>4. rid[1] = q /\ rid[2] = s BY <1>3
  <1>5. PICK I : I = Updated(pages[q], s, t) OBVIOUS
  <1>6. PICK U : U = [T[q] EXCEPT ![s] = t] OBVIOUS
  <1>7. PICK N : N = Encode(I) OBVIOUS
  <1>8. PageOK(pages[q], T[q]) /\ DOMAIN pages = 1..Len(pages) BY <1>1, ChainHas
  <1>9. PageOK(I, U) /\ I.next = pages[q].next
    <2>1. I # Overflow BY <1>4, <1>5 DEF Update
    <2> QED BY <1>5, <1>6, <1>8, <2>1, UpdatedPage
  <1>10. PageOK(N, U) /\ N.next = pages[q].next BY <1>7, <1>9, EncodePage
  <1>11. pages' = [pages EXCEPT ![q] = N] /\ last' = last BY <1>4, <1>5, <1>7 DEF Update
  <1>12. T[q] # <<>> => U # <<>>
    <2>1. T[q] \in Seq(Tuple) BY <1>8 DEF PageOK
    <2>2. Len(U) = Len(T[q]) BY <1>6, <2>1
    <2>3. Len(T[q]) \in Nat /\ Len(T[q]) # 0 BY <2>1
    <2>4. Len(<<>>) = 0 OBVIOUS
    <2> QED BY <2>2, <2>3, <2>4
  <1>13. PICK T2 : T2 = [T EXCEPT ![q] = U] OBVIOUS
  <1>14. ChainOK(T2)' /\ Len(pages') = Len(pages)
    BY <1>1, <1>10, <1>11, <1>12, <1>13, PageReplaced
  <1>15. rows' = [i \in DOMAIN rows |-> IF rows[i][1] = <<q, s>> THEN <<<<q, s>>, t>> ELSE rows[i]]
    BY <1>3 DEF Update
  <1>16. RowsOK(off, T2)' BY <1>6, <1>13, <1>14, <1>15, RowUpdated
  <1> QED BY <1>14, <1>16 DEF IInv, HeapOK

LEMMA UpdateMetaStep ==
  ASSUME NEW off, NEW T, HeapOK(off, T), NEW rid \in Rids, NEW d \in BOOLEAN, UpdateMeta(rid, d)
  PROVE  IInv'
  <1>1. ChainOK(T) BY DEF HeapOK
  <1>2. PICK q \in 1..Len(pages) : \E s \in 1..Len(T[q]) : rid = <<q, s>>
    BY <1>1, RidIs DEF UpdateMeta
  <1>3. PICK s \in 1..Len(T[q]) : rid = <<q, s>> BY <1>2
  <1>4. rid[1] = q /\ rid[2] = s BY <1>3
  <1>5. PICK count : count = Deleted(pages[q], s, d) OBVIOUS
  <1>6. PICK I : I = Marked(pages[q], s, d, count) OBVIOUS
  <1>7. PICK N : N = Encode(I) OBVIOUS
  <1>8. /\ PageOK(pages[q], T[q]) /\ DOMAIN pages = 1..Len(pages) /\ Len(pages) \in Nat
        /\ T \in Seq(Seq(Tuple)) /\ Len(T) = Len(pages)
    BY <1>1, ChainHas
  <1>9. PageOK(I, T[q]) /\ I.next = pages[q].next BY <1>6, <1>8, MetaPage
  <1>10. PageOK(N, T[q]) /\ N.next = pages[q].next BY <1>7, <1>9, EncodePage
  <1>11. pages' = [pages EXCEPT ![q] = N] /\ last' = last /\ rows' = rows
    BY <1>4, <1>5, <1>6, <1>7 DEF UpdateMeta, Marked
  <1>12. T = [T EXCEPT ![q] = T[q]] BY <1>8
  <1>13. ChainOK(T)' /\ Len(pages') = Len(pages) BY <1>1, <1>10, <1>11, <1>12, PageReplaced
  <1>14. RowsOK(off, T)' BY <1>11, <1>13 DEF HeapOK, RowsOK
  <1> QED BY <1>13, <1>14 DEF IInv, HeapOK

LEMMA Same ==
  ASSUME NEW off, NEW T, HeapOK(off, T), UNCHANGED vars
  PROVE  IInv'
  <1>1. pages' = pages /\ last' = last /\ rows' = rows BY DEF vars
  <1>2. ChainOK(T)' BY <1>1 DEF HeapOK, ChainOK, Range
  <1>3. RowsOK(off, T)' BY <1>1 DEF HeapOK, RowsOK
  <1> QED BY <1>2, <1>3 DEF IInv, HeapOK

LEMMA InitHeap == Init => IInv
  <1> SUFFICES ASSUME Init PROVE IInv
    OBVIOUS
  <1>1. pages = <<EmptyPage>> /\ last = 1 /\ rows = <<>> BY DEF Init, First
  <1>2. PICK T : T = << <<>> >> OBVIOUS
  <1>3. PICK off : off = [p \in 0..1 |-> 0] OBVIOUS
  <1>4. Len(pages) = 1 /\ pages[1] = EmptyPage /\ DOMAIN pages = 1..1
        /\ pages = [p \in 1..1 |-> pages[p]]
    BY <1>1
  <1>5. pages \in Seq(Range(pages)) BY <1>4, IsSeq
  <1>6. T \in Seq(Seq(Tuple)) /\ Len(T) = 1 /\ T[1] = <<>>
    <2>1. <<>> \in Seq(Tuple) OBVIOUS
    <2> QED BY <1>2, <2>1
  <1>7. ChainOK(T)
    <2>1. \A p \in 1..1 : p = 1 OBVIOUS
    <2> QED BY <1>1, <1>4, <1>5, <1>6, <2>1, FreshPage, Constants DEF ChainOK
  <1>8. RowsOK(off, T)
    <2>1. off \in [0..1 -> Nat] /\ off[0] = 0 /\ off[1] = 0 BY <1>3
    <2>2. rows \in Seq(Row) /\ Len(rows) = 0 BY <1>1
    <2>3. \A p \in 1..1 : p = 1 /\ p - 1 = 0 OBVIOUS
    <2>4. Len(<<>>) = 0 /\ 1..0 = {} OBVIOUS
    <2>5. RowsAre(rows, 1, off, T) BY <1>6, <2>1, <2>2, <2>3, <2>4 DEF RowsAre
    <2> QED BY <1>4, <2>5 DEF RowsOK
  <1> QED BY <1>7, <1>8 DEF IInv, HeapOK

(* Every operation keeps the chain of pages and the rows on it. *)
LEMMA NextHeap == IInv /\ [Next]_vars => IInv'
  <1> SUFFICES ASSUME IInv, [Next]_vars PROVE IInv'
    OBVIOUS
  <1>1. PICK off, T : HeapOK(off, T) BY DEF IInv
  <1>2. ASSUME NEW t \in Tuple, Insert(t) \/ InsertGrow(t) \/ InsertTooLarge(t) PROVE IInv'
    BY <1>1, <1>2, InsertStep, InsertGrowStep, InsertTooLargeStep
  <1>3. ASSUME NEW rid \in Rids, NEW t \in Tuple, Update(rid, t) PROVE IInv'
    BY <1>1, <1>3, UpdateStep
  <1>4. ASSUME NEW rid \in Rids, NEW t \in Tuple, UpdateFails(rid, t) PROVE IInv'
    <2>1. UNCHANGED vars BY <1>4 DEF UpdateFails
    <2> QED BY <1>1, <2>1, Same
  <1>5. ASSUME NEW rid \in Rids, NEW d \in BOOLEAN, UpdateMeta(rid, d) PROVE IInv'
    BY <1>1, <1>5, UpdateMetaStep
  <1>6. CASE Reload
    <2>1. LastPage = last BY <1>1, LastPageIs, ChainHas DEF HeapOK
    <2>2. UNCHANGED vars BY <1>6, <2>1 DEF Reload, vars
    <2> QED BY <1>1, <2>2, Same
  <1>7. CASE UNCHANGED vars BY <1>1, <1>7, Same
  <1> QED BY <1>2, <1>3, <1>4, <1>5, <1>6, <1>7 DEF Next

LEMMA HeapInvariant == Spec => []IInv
  BY InitHeap, NextHeap, PTL DEF Spec
-----------------------------------------------------------------------------
(* The iterator.  pos[r] rows are up to record id r, and the iterator goes *)
(* from any record id to the one of the next row.                          *)

RidSeq == [i \in DOMAIN rows |-> rows[i][1]]

FlatOK(m, R, pos) ==
  /\ m \in Nat /\ R \in Seq(Nat \X Nat) /\ Len(R) = m
  /\ \A k \in 1..m : R[k] \in Rids /\ pos[R[k]] = k /\ R[k] # None
  /\ \A r \in Rids : /\ pos[r] \in 0..m
                     /\ GetNextRid(r) = IF pos[r] < m THEN R[pos[r] + 1] ELSE None

Pos(off, T, r) == IF r[2] <= Len(T[r[1]]) THEN off[r[1] - 1] + r[2] ELSE off[r[1]]

(* The row at a slot. *)
LEMMA RowAt ==
  ASSUME NEW off, NEW T, HeapOK(off, T), NEW p \in 1..Len(pages), NEW s \in 1..Len(T[p])
  PROVE  /\ off[p - 1] + s \in 1..Len(rows)
         /\ rows[off[p - 1] + s] = <<<<p, s>>, T[p][s]>>
         /\ RidSeq[off[p - 1] + s] = <<p, s>>
  <1>1. off[p - 1] + s \in 1..Len(rows) /\ DOMAIN rows = 1..Len(rows)
    BY RowsFacts DEF RowsHave
  <1>2. rows[off[p - 1] + s] = <<<<p, s>>, T[p][s]>> BY DEF HeapOK, RowsOK, RowsAre
  <1> QED BY <1>1, <1>2 DEF RidSeq

LEMMA EmptyIff ==
  ASSUME NEW T, ChainOK(T), NEW p \in 1..Len(pages)
  PROVE  /\ Len(pages[p].infos) = Len(T[p]) /\ Len(T[p]) \in Nat
         /\ pages[p].infos = <<>> <=> Len(T[p]) = 0
         /\ p # Len(pages) => Len(T[p]) # 0
  <1>1. PageOK(pages[p], T[p]) BY ChainHas
  <1>2. pages[p].infos \in Seq(Info) /\ T[p] \in Seq(Tuple) /\ Len(pages[p].infos) = Len(T[p])
    BY <1>1 DEF PageOK
  <1>3. p # Len(pages) => T[p] # <<>> BY DEF ChainOK
  <1>4. Len(<<>>) = 0 OBVIOUS
  <1>5. pages[p].infos = <<>> <=> Len(T[p]) = 0 BY <1>2, <1>4, EmptySeq
  <1>6. p # Len(pages) => Len(T[p]) # 0 BY <1>2, <1>3, EmptySeq
  <1> QED BY <1>2, <1>5, <1>6

LEMMA RidParts ==
  ASSUME NEW T, ChainOK(T), NEW r \in Rids
  PROVE  \E p \in 1..Len(pages) : \E s \in 1..(Len(T[p]) + 1) : r = <<p, s>>
  <1>1. PICK p \in DOMAIN pages : r \in {<<p, s>> : s \in 1..(Len(pages[p].infos) + 1)}
    BY DEF Rids
  <1>2. p \in 1..Len(pages) BY ChainHas
  <1>3. Len(pages[p].infos) = Len(T[p]) BY <1>2, EmptyIff
  <1>4. PICK s \in 1..(Len(T[p]) + 1) : r = <<p, s>> BY <1>1, <1>3
  <1> QED BY <1>2, <1>4

LEMMA PosNext ==
  ASSUME NEW off, NEW T, HeapOK(off, T), NEW r \in Rids, NEW k, k = Pos(off, T, r),
         NEW m, m = Len(rows)
  PROVE  /\ k \in 0..m
         /\ GetNextRid(r) = IF k < m THEN RidSeq[k + 1] ELSE None
  <1>1. ChainOK(T) /\ RowsHave(off, T) BY RowsFacts DEF HeapOK
  <1>2. PICK n \in Nat : n = Len(pages) /\ n >= 1 BY <1>1 DEF RowsHave
  <1>3. m \in Nat /\ m = off[n] BY <1>1, <1>2 DEF RowsHave, HeapOK, RowsOK, RowsAre
  <1>4. PICK p \in 1..n : \E s \in 1..(Len(T[p]) + 1) : r = <<p, s>> BY <1>1, <1>2, RidParts
  <1>5. PICK l \in Nat : l = Len(T[p]) BY <1>1, <1>2, EmptyIff
  <1>6. PICK s \in 1..(l + 1) : r = <<p, s>> BY <1>4, <1>5
  <1>7. r[1] = p /\ r[2] = s BY <1>6
  <1>8. Len(pages[p].infos) = l BY <1>1, <1>2, <1>5, EmptyIff
  <1>9. PICK a \in Nat, b \in Nat : a = off[p - 1] /\ b = off[p] /\ b = a + l /\ b <= m
    <2>1. p - 1 \in 0..n /\ p \in 0..n OBVIOUS
    <2>2. off[p - 1] \in Nat /\ off[p] \in Nat /\ off[p] <= m BY <1>1, <1>2, <2>1 DEF RowsHave
    <2>3. off[p] = off[p - 1] + l BY <1>2, <1>5 DEF HeapOK, RowsOK, RowsAre
    <2> QED BY <2>2, <2>3
  <1>10. CASE s < l
    <2>1. k = a + s BY <1>5, <1>7, <1>9, <1>10 DEF Pos
    <2>2. PICK z \in 1..l : z = s + 1 BY <1>10
    <2>3. a + z \in 1..m /\ RidSeq[a + z] = <<p, z>>
      <3>1. off[p - 1] + z \in 1..m BY <1>1, <1>2, <1>5 DEF RowsHave
      <3>2. rows[off[p - 1] + z] = <<<<p, z>>, T[p][z]>>
        BY <1>2, <1>5 DEF HeapOK, RowsOK, RowsAre
      <3>3. DOMAIN rows = 1..m BY <1>1 DEF RowsHave
      <3>4. RidSeq[off[p - 1] + z] = <<p, z>> BY <3>1, <3>2, <3>3 DEF RidSeq
      <3> QED BY <1>9, <3>1, <3>4
    <2>4. GetNextRid(r) = <<p, z>> BY <1>7, <1>8, <1>10, <2>2 DEF GetNextRid
    <2>5. k \in 0..m /\ k < m /\ k + 1 = a + z BY <1>3, <2>1, <2>2, <2>3
    <2> QED BY <2>3, <2>4, <2>5
  <1>11. CASE ~(s < l)
    <2>1. k = b
      <3>1. CASE s <= l
        <4>1. k = a + s BY <1>5, <1>7, <1>9, <3>1 DEF Pos
        <4> QED BY <1>9, <1>11, <3>1, <4>1
      <3>2. CASE ~(s <= l) BY <1>5, <1>7, <1>9, <3>2 DEF Pos
      <3> QED BY <3>1, <3>2
    <2>2. k \in 0..m BY <1>3, <1>9, <2>1
    <2>3. /\ GetNextRid(r) = IF pages[p].next = INVALID \/ pages[pages[p].next].infos = <<>>
                             THEN None ELSE <<pages[p].next, 1>>
      BY <1>7, <1>8, <1>11 DEF GetNextRid
    <2>4. pages[p].next = IF p = n THEN INVALID ELSE p + 1 BY <1>1, <1>2 DEF ChainOK
    <2>5. CASE p = n
      <3>1. GetNextRid(r) = None BY <2>3, <2>4, <2>5
      <3>2. k = m BY <1>3, <1>9, <2>1, <2>5
      <3>3. ~(k < m) BY <1>3, <3>2
      <3> QED BY <2>2, <3>1, <3>3
    <2>6. CASE p # n
      <3>1. p + 1 \in 1..n /\ p + 1 # INVALID /\ (p + 1) - 1 = p BY <2>6 DEF INVALID
      <3>2. pages[p].next = p + 1 BY <2>4, <2>6
      <3>3. PICK c \in Nat : c = Len(T[p + 1]) BY <1>1, <1>2, <3>1, EmptyIff
      <3>4. off[p + 1] = b + c
        BY <1>2, <1>9, <3>1, <3>3 DEF HeapOK, RowsOK, RowsAre
      <3>5. pages[p + 1].infos = <<>> <=> c = 0 BY <1>1, <1>2, <3>1, <3>3, EmptyIff
      <3>6. CASE c = 0
        <4>1. p + 1 = n BY <1>1, <1>2, <3>1, <3>3, <3>6, EmptyIff
        <4>2. m = b BY <1>3, <3>4, <3>6, <4>1
        <4>3. GetNextRid(r) = None BY <2>3, <3>2, <3>5, <3>6
        <4>4. ~(k < m) BY <2>1, <4>2
        <4> QED BY <2>2, <4>3, <4>4
      <3>7. CASE c # 0
        <4>1. 1 \in 1..c BY <3>7
        <4>2. off[(p + 1) - 1] = b BY <1>9, <3>1
        <4>3. b + 1 \in 1..m /\ RidSeq[b + 1] = <<p + 1, 1>>
          BY <1>2, <3>1, <3>3, <4>1, <4>2, RowAt
        <4>4. GetNextRid(r) = <<p + 1, 1>> BY <2>3, <3>1, <3>2, <3>5, <3>7
        <4>5. k < m BY <1>3, <2>1, <4>3
        <4> QED BY <2>1, <2>2, <4>3, <4>4, <4>5
      <3> QED BY <3>6, <3>7
    <2> QED BY <2>5, <2>6
  <1> QED BY <1>10, <1>11

LEMMA HeapIsFlat ==
  ASSUME NEW off, NEW T, HeapOK(off, T)
  PROVE  \E pos : FlatOK(Len(rows), RidSeq, pos)
  <1>1. ChainOK(T) /\ RowsHave(off, T) BY RowsFacts DEF HeapOK
  <1>2. PICK m \in Nat : m = Len(rows) BY <1>1 DEF RowsHave
  <1>3. rows \in Seq(Row) /\ DOMAIN rows = 1..m BY <1>1, <1>2 DEF RowsHave
  <1>4. PICK R : R = RidSeq OBVIOUS
  <1>5. R = [i \in 1..m |-> rows[i][1]] BY <1>3, <1>4 DEF RidSeq
  <1>6. R \in Seq(Nat \X Nat) /\ Len(R) = m
    <2>1. \A i \in 1..m : rows[i] \in Row BY <1>2, <1>3, ElementOfSeq
    <2>2. \A i \in 1..m : rows[i][1] \in Nat \X Nat BY <2>1 DEF Row
    <2>3. R \in [1..m -> Nat \X Nat] BY <1>5, <2>2
    <2>4. R \in Seq(Nat \X Nat) BY <2>3
    <2> QED BY <2>3, <2>4, LenProperties
  <1>7. PICK pos : pos = [r \in Rids |-> Pos(off, T, r)] OBVIOUS
  <1>8. ASSUME NEW k \in 1..m PROVE R[k] \in Rids /\ pos[R[k]] = k /\ R[k] # None
    <2>1. PICK p \in 1..Len(pages) : \E s \in 1..Len(T[p]) : k = off[p - 1] + s
      BY <1>1, <1>2 DEF RowsHave
    <2>2. PICK s \in 1..Len(T[p]) : k = off[p - 1] + s BY <2>1
    <2>3. R[k] = <<p, s>> BY <1>4, <2>2, RowAt
    <2>4. /\ p \in DOMAIN pages /\ Len(pages[p].infos) = Len(T[p]) /\ Len(T[p]) \in Nat
      BY <1>1, ChainHas, EmptyIff
    <2>5. s \in 1..(Len(pages[p].infos) + 1) BY <2>4
    <2>6. <<p, s>> \in Rids BY <2>4, <2>5 DEF Rids
    <2>7. s <= Len(T[p]) BY <2>4
    <2>8. Pos(off, T, <<p, s>>) = k BY <2>2, <2>7 DEF Pos
    <2>9. <<p, s>> # None BY DEF None
    <2> QED BY <1>7, <2>3, <2>6, <2>8, <2>9
  <1>9. ASSUME NEW r \in Rids
        PROVE  pos[r] \in 0..m /\ GetNextRid(r) = IF pos[r] < m THEN R[pos[r] + 1] ELSE None
    <2>1. PICK k : k = pos[r] OBVIOUS
    <2>2. k = Pos(off, T, r) BY <1>7, <2>1
    <2>3. k \in 0..m /\ GetNextRid(r) = IF k < m THEN R[k + 1] ELSE None
      BY <1>2, <1>4, <2>2, PosNext
    <2> QED BY <2>1, <2>3
  <1>10. FlatOK(m, R, pos) BY <1>6, <1>8, <1>9 DEF FlatOK
  <1> QED BY <1>2, <1>4, <1>10

LEMMA FirstIs ==
  ASSUME NEW off, NEW T, HeapOK(off, T)
  PROVE  GetFirstRid = IF Len(rows) = 0 THEN None ELSE RidSeq[1]
  <1>1. ChainOK(T) /\ RowsHave(off, T) BY RowsFacts DEF HeapOK
  <1>2. PICK n \in Nat : n = Len(pages) /\ n >= 1 BY <1>1 DEF RowsHave
  <1>3. 1 \in 1..n /\ 1 - 1 = 0 BY <1>2
  <1>4. PICK l \in Nat : l = Len(T[1]) BY <1>1, <1>2, <1>3, EmptyIff
  <1>5. /\ off[0] = 0 /\ Len(rows) = off[n] BY <1>2 DEF HeapOK, RowsOK, RowsAre
  <1>6. off[1] = off[1 - 1] + l BY <1>2, <1>3, <1>4 DEF HeapOK, RowsOK, RowsAre
  <1>7. pages[1].infos = <<>> <=> l = 0 BY <1>1, <1>2, <1>3, <1>4, EmptyIff
  <1>8. CASE l = 0
    <2>1. n = 1 BY <1>1, <1>2, <1>3, <1>4, <1>8, EmptyIff
    <2>2. Len(rows) = 0 BY <1>3, <1>5, <1>6, <1>8, <2>1
    <2> QED BY <1>7, <1>8, <2>2 DEF GetFirstRid, First
  <1>9. CASE l # 0
    <2>1. 1 \in 1..l BY <1>9
    <2>2. off[1 - 1] + 1 \in 1..Len(rows) /\ RidSeq[off[1 - 1] + 1] = <<1, 1>>
      BY <1>2, <1>3, <1>4, <2>1, RowAt
    <2>3. off[1 - 1] + 1 = 1 BY <1>3, <1>5
    <2>4. Len(rows) \in Nat BY <1>1 DEF RowsHave
    <2>5. Len(rows) # 0 /\ RidSeq[1] = <<1, 1>> BY <2>2, <2>3, <2>4
    <2> QED BY <1>7, <1>9, <2>5 DEF GetFirstRid, First
  <1> QED BY <1>8, <1>9

LEMMA CutOne ==
  ASSUME NEW S, NEW s \in Seq(S), NEW k \in Nat, k < Len(s)
  PROVE  SubSeq(s, k + 1, k + 1) = <<s[k + 1]>>
  <1>1. PICK a \in 1..Len(s) : a = k + 1 OBVIOUS
  <1>2. a \in a..Len(s) /\ a \in Int /\ a + 1 \in Int /\ a < a + 1 OBVIOUS
  <1>3. SubSeq(s, a, a) = <<s[a]>> \o SubSeq(s, a + 1, a) BY <1>2, SubSeqRecursiveFirst
  <1>4. SubSeq(s, a + 1, a) = <<>> BY <1>2, SubSeqEmpty
  <1>5. s[a] \in S BY ElementOfSeq
  <1>6. <<s[a]>> \o <<>> = <<s[a]>> BY <1>5
  <1> QED BY <1>1, <1>3, <1>4, <1>6

LEMMA CutCons ==
  ASSUME NEW S, NEW s \in Seq(S), NEW k \in Nat, NEW e \in Nat, k + 1 <= e, e <= Len(s)
  PROVE  SubSeq(s, k + 1, e) = <<s[k + 1]>> \o SubSeq(s, (k + 1) + 1, e)
  OBVIOUS

(* The bound of an iteration is the h-th row; there is none if h is 0. *)
BoundAt(hi, m, R, h) ==
  \/ hi.kind = "unbounded" /\ h = 0
  \/ hi.kind \in {"included", "excluded"} /\ h \in 1..m /\ R[h] = hi.rid

(* The last row that an iteration returns behind the k-th. *)
EndOf(hi, m, h, k) == IF k >= h THEN m ELSE IF hi.kind = "included" THEN h ELSE h - 1

Wanted(hi, m, R, h, k) == SubSeq(R, k + 1, EndOf(hi, m, h, k))

IterateStep(f, r, hi) ==
  LET n == GetNextRid(r)
  IN  IF n = None \/ (hi.kind = "excluded" /\ n = hi.rid) THEN <<>>
      ELSE IF hi.kind = "included" /\ n = hi.rid THEN <<n>> ELSE <<n>> \o f[n]

(* A step of the iterator ends it, or leaves what the row behind wants. *)
StepEnds(r, hi, w) == \A f : IterateStep(f, r, hi) = w
StepGoes(r, hi, m, R, pos, h, k) ==
  /\ k < m /\ R[k + 1] \in Rids /\ pos[R[k + 1]] = k + 1
  /\ Wanted(hi, m, R, h, k) = <<R[k + 1]>> \o Wanted(hi, m, R, h, k + 1)
  /\ \A f : IterateStep(f, r, hi) = <<R[k + 1]>> \o f[R[k + 1]]

LEMMA StepCases ==
  ASSUME NEW m, NEW R, NEW pos, FlatOK(m, R, pos), NEW hi, NEW h, BoundAt(hi, m, R, h),
         NEW r \in Rids, NEW k, k = pos[r]
  PROVE  StepEnds(r, hi, Wanted(hi, m, R, h, k)) \/ StepGoes(r, hi, m, R, pos, h, k)
  <1>1. /\ m \in Nat /\ R \in Seq(Nat \X Nat) /\ Len(R) = m /\ k \in 0..m
        /\ GetNextRid(r) = IF k < m THEN R[k + 1] ELSE None
    BY DEF FlatOK
  <1>2. h \in 0..m BY <1>1 DEF BoundAt
  <1>3. CASE ~(k < m)
    <2>1. GetNextRid(r) = None BY <1>1, <1>3
    <2>2. k = m /\ k \in Nat /\ k >= h BY <1>1, <1>2, <1>3
    <2>3. EndOf(hi, m, h, k) = k BY <2>2 DEF EndOf
    <2>4. Wanted(hi, m, R, h, k) = <<>> BY <1>1, <2>2, <2>3, SubSeqEmpty DEF Wanted
    <2>5. \A f : IterateStep(f, r, hi) = <<>> BY <2>1 DEF IterateStep
    <2> QED BY <2>4, <2>5 DEF StepEnds
  <1>4. CASE k < m
    <2>1. PICK z \in 1..m : z = k + 1 BY <1>1, <1>4
    <2>2. GetNextRid(r) = R[z] /\ R[z] \in Rids /\ pos[R[z]] = z /\ R[z] # None
      BY <1>1, <1>4, <2>1 DEF FlatOK
    <2>3. k \in Nat /\ k < Len(R) BY <1>1, <1>4
    <2>4. CASE hi.kind # "unbounded" /\ z = h
      <3>1. R[z] = hi.rid /\ hi.kind \in {"included", "excluded"} BY <2>4 DEF BoundAt
      <3>2. ~(k >= h) /\ h - 1 = k /\ h = k + 1 BY <1>1, <2>1, <2>4
      <3>3. CASE hi.kind = "excluded"
        <4>1. EndOf(hi, m, h, k) = k BY <3>2, <3>3 DEF EndOf
        <4>2. Wanted(hi, m, R, h, k) = <<>> BY <1>1, <2>3, <4>1, SubSeqEmpty DEF Wanted
        <4>3. \A f : IterateStep(f, r, hi) = <<>> BY <2>2, <3>1, <3>3 DEF IterateStep
        <4> QED BY <4>2, <4>3 DEF StepEnds
      <3>4. CASE hi.kind = "included"
        <4>1. EndOf(hi, m, h, k) = k + 1 BY <3>2, <3>4 DEF EndOf
        <4>2. Wanted(hi, m, R, h, k) = <<R[z]>> BY <1>1, <2>1, <2>3, <4>1, CutOne DEF Wanted
        <4>3. \A f : IterateStep(f, r, hi) = <<R[z]>> BY <2>2, <3>1, <3>4 DEF IterateStep
        <4> QED BY <4>2, <4>3 DEF StepEnds
      <3> QED BY <3>1, <3>3, <3>4
    <2>5. CASE ~(hi.kind # "unbounded" /\ z = h)
      <3>1. hi.kind = "unbounded" \/ R[z] # hi.rid
        <4> SUFFICES ASSUME hi.kind # "unbounded", R[z] = hi.rid PROVE FALSE
          OBVIOUS
        <4>1. h \in 1..m /\ R[h] = hi.rid BY DEF BoundAt
        <4>2. pos[R[h]] = h BY <4>1 DEF FlatOK
        <4>3. z = h BY <2>2, <4>1, <4>2
        <4> QED BY <2>5, <4>3
      <3>2. \A f : IterateStep(f, r, hi) = <<R[z]>> \o f[R[z]] BY <2>2, <3>1 DEF IterateStep
      <3>3. /\ EndOf(hi, m, h, z) = EndOf(hi, m, h, k) /\ z <= EndOf(hi, m, h, k)
            /\ EndOf(hi, m, h, k) <= m /\ EndOf(hi, m, h, k) \in Nat
        <4>1. CASE k >= h
          <5>1. z >= h BY <1>1, <1>2, <2>1, <4>1
          <5> QED BY <1>1, <4>1, <5>1 DEF EndOf
        <4>2. CASE ~(k >= h)
          <5>1. hi.kind # "unbounded" BY <1>1, <4>2 DEF BoundAt
          <5>2. z # h BY <2>5, <5>1
          <5>3. /\ ~(z >= h) /\ z <= h - 1 /\ h - 1 \in Nat /\ h \in Nat /\ z <= h
                /\ h <= m /\ h - 1 <= m
            BY <1>1, <1>2, <2>1, <4>2, <5>2
          <5> QED BY <4>2, <5>3 DEF EndOf
        <4> QED BY <4>1, <4>2
      <3>4. PICK e \in Nat : e = EndOf(hi, m, h, k) BY <3>3
      <3>5. SubSeq(R, k + 1, e) = <<R[k + 1]>> \o SubSeq(R, (k + 1) + 1, e)
        <4>1. k + 1 <= e /\ e <= Len(R) BY <1>1, <2>1, <3>3, <3>4
        <4> QED BY <1>1, <2>3, <4>1, CutCons
      <3>6. Wanted(hi, m, R, h, k) = <<R[z]>> \o Wanted(hi, m, R, h, z)
        BY <2>1, <3>3, <3>4, <3>5 DEF Wanted
      <3> QED BY <1>4, <2>1, <2>2, <3>2, <3>6 DEF StepGoes
    <2> QED BY <2>4, <2>5
  <1> QED BY <1>3, <1>4

(* The iterator returns the rows behind a record id up to its bound. *)
LEMMA IterateIs ==
  ASSUME NEW m, NEW R, NEW pos, FlatOK(m, R, pos), NEW hi, NEW h, BoundAt(hi, m, R, h),
         NEW rid \in Rids
  PROVE  IterateFrom(rid, hi) = Wanted(hi, m, R, h, pos[rid])
  <1> DEFINE W(k) == Wanted(hi, m, R, h, k)
             step(f) == [r \in Rids |-> IterateStep(f, r, hi)]
             from == CHOOSE f : f = step(f)
  <1>1. m \in Nat /\ \A r \in Rids : pos[r] \in 0..m BY DEF FlatOK
  <1>2. ASSUME NEW r \in Rids
        PROVE  StepEnds(r, hi, W(pos[r])) \/ StepGoes(r, hi, m, R, pos, h, pos[r])
    BY StepCases
  <1>3. PICK w : w = [r \in Rids |-> W(pos[r])] OBVIOUS
  <1>4. \A r \in Rids : w[r] = IterateStep(w, r, hi)
    <2> SUFFICES ASSUME NEW r \in Rids PROVE w[r] = IterateStep(w, r, hi)
      OBVIOUS
    <2>1. PICK k : k = pos[r] OBVIOUS
    <2>2. w[r] = W(k) BY <1>3, <2>1
    <2> HIDE DEF W
    <2>3. CASE StepEnds(r, hi, W(k)) BY <2>2, <2>3 DEF StepEnds
    <2>4. CASE StepGoes(r, hi, m, R, pos, h, k)
      <3>1. R[k + 1] \in Rids /\ pos[R[k + 1]] = k + 1 /\ W(k) = <<R[k + 1]>> \o W(k + 1)
            /\ IterateStep(w, r, hi) = <<R[k + 1]>> \o w[R[k + 1]]
        BY <2>4 DEF StepGoes, W
      <3>2. w[R[k + 1]] = W(k + 1) BY <1>3, <3>1
      <3> QED BY <2>2, <3>1, <3>2
    <2> QED BY <1>2, <2>1, <2>3, <2>4
  <1>5. w = step(w) BY <1>3, <1>4
  <1>6. from = step(from) BY <1>5
  <1>7. IterateFrom(rid, hi) = from[rid] BY DEF IterateFrom, IterateStep
  <1>8. PICK f : f = from OBVIOUS
  <1>9. \A r \in Rids : f[r] = IterateStep(f, r, hi)
    <2>1. f = step(f) BY <1>6, <1>8
    <2> QED BY <2>1
  <1> HIDE DEF from, step, W
  <1> DEFINE Bad == {j \in 0..m : \E r \in Rids : pos[r] = m - j /\ f[r] # W(pos[r])}
  <1>10. Bad = {}
    <2> SUFFICES ASSUME Bad # {} PROVE FALSE
      OBVIOUS
    <2>1. Bad \subseteq Nat OBVIOUS
    <2>2. PICK j \in Bad : \A y \in Bad : j <= y BY <2>1, NatMin
    <2>3. PICK r \in Rids : pos[r] = m - j /\ f[r] # W(pos[r]) OBVIOUS
    <2>4. PICK k \in 0..m : k = pos[r] BY <1>1
    <2>5. f[r] = IterateStep(f, r, hi) BY <1>9
    <2>6. CASE StepEnds(r, hi, W(k)) BY <2>3, <2>4, <2>5, <2>6 DEF StepEnds
    <2>7. CASE StepGoes(r, hi, m, R, pos, h, k)
      <3>1. k < m /\ R[k + 1] \in Rids /\ pos[R[k + 1]] = k + 1 /\ W(k) = <<R[k + 1]>> \o W(k + 1)
            /\ IterateStep(f, r, hi) = <<R[k + 1]>> \o f[R[k + 1]]
        BY <2>7 DEF StepGoes, W
      <3>2. f[R[k + 1]] # W(k + 1) BY <2>3, <2>4, <2>5, <3>1
      <3>3. j \in 0..m /\ j - 1 \in 0..m /\ ~(j <= j - 1) /\ k + 1 = m - (j - 1)
        BY <1>1, <2>3, <2>4, <3>1
      <3>4. j - 1 \in Bad BY <3>1, <3>2, <3>3
      <3> QED BY <2>2, <3>3, <3>4
    <2> QED BY <1>2, <2>4, <2>6, <2>7
  <1>11. f[rid] = W(pos[rid])
    <2>1. m - pos[rid] \in 0..m /\ pos[rid] = m - (m - pos[rid]) BY <1>1
    <2> QED BY <1>10, <2>1
  <1> QED BY <1>7, <1>8, <1>11 DEF W
-----------------------------------------------------------------------------
(* Scans and ranges.                                                       *)

LEMMA BoundIs ==
  ASSUME NEW b \in Bounds, NEW m, m = Len(rows), DOMAIN rows = 1..m, NEW R, R = RidSeq
  PROVE  /\ b.kind = "unbounded" => BoundAt(b, m, R, 0)
         /\ b.kind # "unbounded" =>
              /\ b.kind \in {"included", "excluded"}
              /\ \E h \in 1..m : R[h] = b.rid /\ BoundAt(b, m, R, h)
  <1>1. CASE b \in {[kind |-> "unbounded", rid |-> None]} BY <1>1 DEF BoundAt
  <1>2. CASE b \in [kind : {"included", "excluded"}, rid : {rows[i][1] : i \in DOMAIN rows}]
    <2>1. b.kind \in {"included", "excluded"} /\ b.kind # "unbounded" BY <1>2
    <2>2. PICK h \in 1..m : b.rid = rows[h][1] BY <1>2
    <2>3. R[h] = b.rid BY <2>2 DEF RidSeq
    <2> QED BY <2>1, <2>3 DEF BoundAt
  <1> QED BY <1>1, <1>2 DEF Bounds

(* An iteration that starts at the a-th row. *)
Beginning(R, hi, a) == <<R[a]>> \o IterateFrom(R[a], hi)

LEMMA IterateAt ==
  ASSUME NEW m, NEW R, NEW pos, FlatOK(m, R, pos), NEW hi, NEW h, BoundAt(hi, m, R, h),
         NEW a \in 1..m, NEW to, to = EndOf(hi, m, h, a), to \in Nat, a <= to, to <= m
  PROVE  Beginning(R, hi, a) = SubSeq(R, a, to)
  <1>1. m \in Nat /\ R \in Seq(Nat \X Nat) /\ Len(R) = m /\ R[a] \in Rids /\ pos[R[a]] = a
    BY DEF FlatOK
  <1>2. PICK r \in Rids : r = R[a] BY <1>1
  <1>3. IterateFrom(r, hi) = Wanted(hi, m, R, h, a) BY <1>1, <1>2, IterateIs
  <1>4. IterateFrom(R[a], hi) = SubSeq(R, a + 1, to) BY <1>2, <1>3 DEF Wanted
  <1>5. PICK k \in Nat : k + 1 = a
    <2>1. a - 1 \in Nat /\ (a - 1) + 1 = a BY <1>1
    <2> QED BY <2>1
  <1>6. k + 1 <= to BY <1>5
  <1>7. SubSeq(R, k + 1, to) = <<R[k + 1]>> \o SubSeq(R, (k + 1) + 1, to)
    BY <1>1, <1>6, CutCons
  <1> QED BY <1>4, <1>5, <1>7 DEF Beginning

LEMMA ScansRight == IInv => ScanExact
  <1> SUFFICES ASSUME IInv PROVE ScanExact
    OBVIOUS
  <1>1. PICK off, T : HeapOK(off, T) BY DEF IInv
  <1>2. RowsHave(off, T) /\ ChainOK(T) BY <1>1, RowsFacts DEF HeapOK
  <1>3. PICK m \in Nat : m = Len(rows) BY <1>2 DEF RowsHave
  <1>4. rows \in Seq(Row) /\ DOMAIN rows = 1..m BY <1>2, <1>3 DEF RowsHave
  <1>5. PICK R : R = RidSeq OBVIOUS
  <1>6. PICK pos : FlatOK(m, R, pos) BY <1>1, <1>3, <1>5, HeapIsFlat
  <1>7. R \in Seq(Nat \X Nat) /\ Len(R) = m BY <1>6 DEF FlatOK
  <1>8. PICK u : u = [kind |-> "unbounded", rid |-> None] OBVIOUS
  <1>9. u.kind = "unbounded" BY <1>8
  <1>10. Iterate(u, u) = IF GetFirstRid = None THEN <<>>
                         ELSE <<GetFirstRid>> \o IterateFrom(GetFirstRid, u)
    BY <1>9 DEF Iterate
  <1>11. GetFirstRid = IF m = 0 THEN None ELSE R[1] BY <1>1, <1>3, <1>5, FirstIs
  <1>12. Iterate(u, u) = R
    <2>1. CASE m = 0
      <3>1. R = <<>> BY <1>7, <2>1, EmptySeq
      <3> QED BY <1>10, <1>11, <2>1, <3>1
    <2>2. CASE m # 0
      <3>1. 1 \in 1..m /\ 1 <= m BY <2>2
      <3>2. R[1] # None BY <1>6, <3>1 DEF FlatOK
      <3>3. BoundAt(u, m, R, 0) BY <1>9 DEF BoundAt
      <3>4. EndOf(u, m, 0, 1) = m BY DEF EndOf
      <3>5. Beginning(R, u, 1) = SubSeq(R, 1, m)
        BY <1>6, <3>1, <3>3, <3>4, IterateAt
      <3>6. SubSeq(R, 1, m) = R BY <1>7, SubSeqFull
      <3> QED BY <1>10, <1>11, <2>2, <3>2, <3>5, <3>6 DEF Beginning
    <2> QED BY <2>1, <2>2
  <1>13. Scan = [i \in 1..m |-> <<R[i], TupleAt(R[i])>>]
    <2>1. DOMAIN R = 1..m BY <1>7, LenProperties
    <2> QED BY <1>8, <1>12, <2>1 DEF Scan
  <1>14. ASSUME NEW i \in 1..m PROVE <<R[i], TupleAt(R[i])>> = rows[i]
    <2>1. PICK p \in 1..Len(pages) : \E s \in 1..Len(T[p]) : i = off[p - 1] + s
      BY <1>2, <1>3 DEF RowsHave
    <2>2. PICK s \in 1..Len(T[p]) : i = off[p - 1] + s BY <2>1
    <2>3. R[i] = <<p, s>> /\ rows[i] = <<<<p, s>>, T[p][s]>>
      <3>1. RidSeq[off[p - 1] + s] = <<p, s>> BY <1>1, RowAt
      <3>2. rows[off[p - 1] + s] = <<<<p, s>>, T[p][s]>> BY <1>1 DEF HeapOK, RowsOK, RowsAre
      <3> QED BY <1>5, <2>2, <3>1, <3>2
    <2>4. PageOK(pages[p], T[p]) BY <1>2, ChainHas
    <2>5. Decode(pages[p], pages[p].infos[s]) = T[p][s] BY <2>4, DecodeSlot
    <2>6. TupleAt(R[i]) = T[p][s] BY <2>3, <2>5 DEF TupleAt
    <2> QED BY <2>3, <2>6
  <1>15. rows = [i \in 1..m |-> rows[i]] BY <1>3, <1>4, SeqIs
  <1> QED BY <1>13, <1>14, <1>15 DEF ScanExact

LEMMA RangesRight == IInv => RangeExact
  <1> SUFFICES ASSUME IInv PROVE RangeExact
    OBVIOUS
  <1>1. PICK off, T : HeapOK(off, T) BY DEF IInv
  <1>2. RowsHave(off, T) BY <1>1, RowsFacts
  <1>3. PICK m \in Nat : m = Len(rows) BY <1>2 DEF RowsHave
  <1>4. DOMAIN rows = 1..m BY <1>2, <1>3 DEF RowsHave
  <1>5. PICK R : R = RidSeq OBVIOUS
  <1>6. PICK pos : FlatOK(m, R, pos) BY <1>1, <1>3, <1>5, HeapIsFlat
  <1>7. R \in Seq(Nat \X Nat) /\ Len(R) = m BY <1>6 DEF FlatOK
  <1>8. GetFirstRid = IF m = 0 THEN None ELSE R[1] BY <1>1, <1>3, <1>5, FirstIs
  <1>9. \A k \in 1..m : R[k] \in Rids /\ pos[R[k]] = k /\ R[k] # None BY <1>6 DEF FlatOK
  <1>10. \A k \in 1..m : GetNextRid(R[k]) = IF k < m THEN R[k + 1] ELSE None
    BY <1>6, <1>9 DEF FlatOK
  <1> DEFINE at(b, none) == IF b.kind = "unbounded" THEN none
                            ELSE CHOOSE i \in DOMAIN rows : rows[i][1] = b.rid
             first(lo) == at(lo, 1) + (IF lo.kind = "excluded" THEN 1 ELSE 0)
             end(hi) == at(hi, Len(rows) + 1)
             final(lo, hi) == IF end(hi) <= first(lo) THEN Len(rows)
                              ELSE IF hi.kind = "included" THEN end(hi) ELSE end(hi) - 1
  <1>11. ASSUME NEW b, NEW none, NEW h \in 1..m, R[h] = b.rid, b.kind # "unbounded"
         PROVE  at(b, none) = h
    <2>1. \A i \in 1..m : rows[i][1] = R[i] BY <1>4, <1>5 DEF RidSeq
    <2>2. \A i \in 1..m : R[i] = R[h] => i = h BY <1>9
    <2>3. rows[h][1] = b.rid /\ \A i \in 1..m : rows[i][1] = b.rid => i = h
      BY <1>11, <2>1, <2>2
    <2>4. (CHOOSE i \in 1..m : rows[i][1] = b.rid) = h BY <2>3
    <2> QED BY <1>4, <1>11, <2>4
  <1>12. ASSUME NEW lo \in Bounds, NEW hi \in Bounds
         PROVE  Iterate(lo, hi) = SubSeq(R, first(lo), final(lo, hi))
    <2> DEFINE start == IF lo.kind = "included" THEN lo.rid
                        ELSE IF lo.kind = "excluded" THEN GetNextRid(lo.rid) ELSE GetFirstRid
    <2>1. PICK a, e, z : /\ a = first(lo) /\ e = end(hi) /\ z = final(lo, hi)
                         /\ z = IF e <= a THEN m ELSE IF hi.kind = "included" THEN e ELSE e - 1
      <3> HIDE DEF first, end
      <3> QED BY <1>3
    <2>a. z = IF e <= a THEN m ELSE IF hi.kind = "included" THEN e ELSE e - 1
      <3> HIDE DEF first, end, final
      <3> QED BY <2>1
    <2>2. /\ a \in Nat /\ a >= 1 /\ start = IF a <= m THEN R[a] ELSE None
      <3>1. CASE lo.kind = "unbounded"
        <4>1. a = 1 + 0 BY <2>1, <3>1
        <4> QED BY <1>8, <3>1, <4>1
      <3>2. CASE lo.kind # "unbounded"
        <4>1. lo.kind \in {"included", "excluded"} /\ \E h \in 1..m : R[h] = lo.rid
          BY <1>3, <1>4, <1>5, <3>2, BoundIs
        <4>2. PICK l \in 1..m : R[l] = lo.rid BY <4>1
        <4>3. at(lo, 1) = l BY <1>11, <3>2, <4>2
        <4> HIDE DEF at
        <4>4. CASE lo.kind = "included"
          <5>1. a = l + 0 BY <2>1, <4>3, <4>4
          <5>2. start = R[l] BY <4>2, <4>4
          <5> QED BY <5>1, <5>2
        <4>5. CASE lo.kind = "excluded"
          <5>1. a = l + 1 BY <2>1, <4>3, <4>5
          <5>2. start = GetNextRid(R[l]) BY <4>2, <4>5
          <5>3. a \in Nat /\ a >= 1 /\ (a <= m <=> l < m) BY <5>1
          <5>4. GetNextRid(R[l]) = IF l < m THEN R[l + 1] ELSE None BY <1>10
          <5> QED BY <5>1, <5>2, <5>3, <5>4
        <4> QED BY <4>1, <4>4, <4>5
      <3> QED BY <3>1, <3>2
    <2>3. \E h : BoundAt(hi, m, R, h) /\ z \in Nat /\ z <= m /\ EndOf(hi, m, h, a) = z
                 /\ (a <= m => a <= z)
      <3>1. CASE hi.kind = "unbounded"
        <4>1. e = m + 1 BY <1>3, <2>1, <3>1
        <4>2. BoundAt(hi, m, R, 0) BY <3>1 DEF BoundAt
        <4>3. hi.kind # "included" BY <3>1
        <4>4. z = m BY <2>a, <2>2, <4>1, <4>3
        <4>5. EndOf(hi, m, 0, a) = m BY <2>2 DEF EndOf
        <4> QED BY <4>2, <4>4, <4>5
      <3>2. CASE hi.kind # "unbounded"
        <4>1. PICK h \in 1..m : R[h] = hi.rid /\ BoundAt(hi, m, R, h)
          BY <1>3, <1>4, <1>5, <3>2, BoundIs
        <4>2. e = h BY <1>11, <2>1, <3>2, <4>1
        <4>3. z = EndOf(hi, m, h, a) BY <2>a, <2>2, <4>2 DEF EndOf
        <4>4. z \in Nat /\ z <= m /\ (a <= m => a <= z) BY <2>a, <2>2, <4>2
        <4> QED BY <4>1, <4>3, <4>4
      <3> QED BY <3>1, <3>2
    <2>4. PICK h : BoundAt(hi, m, R, h) /\ z \in Nat /\ z <= m /\ EndOf(hi, m, h, a) = z
                   /\ (a <= m => a <= z)
      BY <2>3
    <2>5. Iterate(lo, hi) = IF start = None THEN <<>> ELSE <<start>> \o IterateFrom(start, hi)
      BY DEF Iterate
    <2> HIDE DEF start
    <2>6. CASE a <= m
      <3>1. a \in 1..m /\ a <= z BY <2>2, <2>4, <2>6
      <3>2. start = R[a] /\ R[a] # None BY <1>9, <2>2, <2>6, <3>1
      <3>3. Iterate(lo, hi) = Beginning(R, hi, a) BY <2>5, <3>2 DEF Beginning
      <3>4. Beginning(R, hi, a) = SubSeq(R, a, z)
        BY <1>6, <2>4, <3>1, IterateAt
      <3> QED BY <2>1, <3>3, <3>4
    <2>7. CASE ~(a <= m)
      <3>1. Iterate(lo, hi) = <<>> BY <2>2, <2>5, <2>7
      <3>2. z < a /\ a \in Int /\ z \in Int BY <2>2, <2>4, <2>7
      <3>3. SubSeq(R, a, z) = <<>> BY <1>7, <3>2, SubSeqEmpty
      <3> QED BY <2>1, <3>1, <3>3
    <2> QED BY <2>2, <2>6, <2>7
  <1> HIDE DEF at
  <1> QED BY <1>5, <1>12 DEF RangeExact, RidSeq, at

(* Every scan of a table heap returns every row, under the record id that  *)
(* insert_tuple returned and with the tuple last written to it, in         *)
(* insertion order, whatever inserts, updates, marks and reloads went      *)
(* before: TableIterator and TablePage agree for all page and tuple sizes. *)
THEOREM ScansAreExact == Spec => []ScanExact
  BY HeapInvariant, ScansRight, PTL

(* Every range of the iterator, whatever its bounds, is the rows from its  *)
(* start on, up to its end if that is a row behind the first one and to    *)
(* the end of the table otherwise.                                         *)
THEOREM RangesAreExact == Spec => []RangeExact
  BY HeapInvariant, RangesRight, PTL
=============================================================================
