--------------------------- MODULE JournalProofs ----------------------------
(***************************************************************************)
(* The properties of Journal, for any processes, images of any size and    *)
(* any number of versions: every write may stop after every cell.          *)
(***************************************************************************)
EXTENDS Journal, TLAPS, WellFoundedInduction, SequenceTheorems

USE DEF HEADER, COMMIT

(* The record of the last of v versions. *)
RecordOf(imgs, v) == IF v = 0 THEN NoRecord ELSE [ver |-> v - 1, img |-> imgs[v]]

(* b begins with the complete records of imgs, the v-th of which ends at   *)
(* off[v].                                                                 *)
WholeRecords(b, imgs, off) ==
  /\ b \in Seq(Cell) /\ imgs \in Seq(Image) /\ Len(imgs) <= MaxVersion + 1
  /\ off \in [0..Len(imgs) -> Nat] /\ off[0] = 0 /\ off[Len(imgs)] <= Len(b)
  /\ \A v \in 1..Len(imgs) : off[v] = off[v - 1] + RecordLen(imgs[v])
  /\ \A v \in 1..Len(imgs) : \A i \in 1..RecordLen(imgs[v]) :
       b[off[v - 1] + i] = [ver |-> v - 1, img |-> imgs[v], at |-> i]

(* What b has from position o on is a part of the record of version n and  *)
(* image j that is not all of it.                                          *)
Part(b, n, o, j) ==
  /\ n <= MaxVersion /\ Len(b) - o < RecordLen(j)
  /\ \A i \in 1..(Len(b) - o) : b[o + i] = [ver |-> n, img |-> j, at |-> i]

(* b is complete records and then, perhaps, a torn one. *)
Shape(b, imgs, off) ==
  /\ WholeRecords(b, imgs, off)
  /\ Len(b) > off[Len(imgs)] => \E j \in Image : Part(b, Len(imgs), off[Len(imgs)], j)

(* q is what write_all has yet to write of that record, t cells of which   *)
(* are in the file.                                                        *)
Rest(q, n, t, j) ==
  /\ Len(q) = RecordLen(j) - t
  /\ \A i \in 1..Len(q) : q[i] = [ver |-> n, img |-> j, at |-> t + i]

(* A process that has the file open works on the file as it is: only it    *)
(* has the lock, what it read is still there, its latest record is the     *)
(* last one, and it writes at the end, the record that it began.           *)
Handle(p, imgs, off) ==
  LET n == Len(imgs) IN
  /\ pc[p] # "closed" => lock = p
  /\ pc[p] # "write" => pos[p] = 0
  /\ pc[p] \in {"scan", "cut"} => bytes[p] = cells
  /\ pc[p] \in {"cut", "usable"} => latest[p] = RecordOf(imgs, n)
  /\ pc[p] = "cut" => n # 0
  /\ pc[p] = "usable" => off[n] = Len(cells)
  /\ pc[p] = "write" => pos[p] = Len(cells)
  /\ pc[p] = "write" /\ pending[p] = <<>> => n # 0 /\ off[n] = Len(cells)
  /\ pc[p] = "write" /\ pending[p] # <<>> =>
       \E j \in Image : Part(cells, n, off[n], j) /\ Rest(pending[p], n, Len(cells) - off[n], j)

(* The file has the records of imgs; all that were ever acknowledged or    *)
(* shown are among them.                                                   *)
FileOf(imgs, off) ==
  /\ Shape(cells, imgs, off)
  /\ \A p \in Proc : Handle(p, imgs, off)
  /\ \A r \in acked : \E v \in 1..Len(imgs) : r = RecordOf(imgs, v)

IInv == TypeOK /\ \E imgs, off : FileOf(imgs, off)
-----------------------------------------------------------------------------
(* The scan.                                                               *)

(* Natural numbers are well ordered. *)
LEMMA NatMin ==
  ASSUME NEW T, T \subseteq Nat, T # {}
  PROVE  \E x \in T : \A y \in T : x <= y
  <1> DEFINE Less == {ss \in Nat \X Nat : ss[1] < ss[2]}
  <1>1. OpToRel(<, Nat) = Less BY DEF OpToRel
  <1>2. IsWellFoundedOn(Less, Nat) BY <1>1, NatLessThanWellFounded
  <1> HIDE DEF Less
  <1>3. PICK x \in T : \A y \in T : ~ (<<y, x>> \in Less) BY <1>2, WFMin
  <1>4. ASSUME NEW y \in T PROVE x <= y
    <2>1. x \in Nat /\ y \in Nat OBVIOUS
    <2>2. (y < x) => <<y, x>> \in Less BY <2>1 DEF Less
    <2> QED BY <1>3, <2>1, <2>2
  <1> QED BY <1>4

(* A record has at least five cells. *)
LEMMA RecordLength ==
  \A j \in Image : RecordLen(j) \in Nat /\ RecordLen(j) >= 5
  BY JournalAssumption DEF RecordLen

(* Offsets grow, and each position before the last lies in one record. *)
LEMMA Offsets ==
  ASSUME NEW b, NEW imgs, NEW off, WholeRecords(b, imgs, off)
  PROVE  /\ Len(imgs) \in Nat /\ Len(b) \in Nat
         /\ \A v \in 1..Len(imgs) : imgs[v] \in Image /\ off[v] \in Nat /\ off[v - 1] \in Nat
         /\ \A v \in 0..Len(imgs) : off[v] \in Nat /\ off[v] <= off[Len(imgs)]
         /\ \A cur \in Nat : cur < off[Len(imgs)] =>
              \E v \in 1..Len(imgs) : off[v - 1] <= cur /\ cur < off[v]
  <1> DEFINE n == Len(imgs)
  <1>1. /\ n \in Nat /\ Len(b) \in Nat
        /\ \A v \in 1..n : imgs[v] \in Image
        /\ off \in [0..n -> Nat] /\ off[0] = 0
        /\ \A v \in 1..n : off[v] = off[v - 1] + RecordLen(imgs[v])
    BY DEF WholeRecords
  <1> HIDE DEF n
  <1>2. \A v \in 1..n : off[v] \in Nat /\ off[v - 1] \in Nat
    <2> SUFFICES ASSUME NEW v \in 1..n PROVE off[v] \in Nat /\ off[v - 1] \in Nat
      OBVIOUS
    <2>1. v \in 0..n /\ v - 1 \in 0..n BY <1>1
    <2> QED BY <2>1, <1>1
  <1>3. \A v \in 1..n : off[v - 1] < off[v]
    <2> SUFFICES ASSUME NEW v \in 1..n PROVE off[v - 1] < off[v]
      OBVIOUS
    <2>1. RecordLen(imgs[v]) \in Nat /\ RecordLen(imgs[v]) >= 5 BY <1>1, RecordLength
    <2>2. off[v] = off[v - 1] + RecordLen(imgs[v]) /\ off[v] \in Nat /\ off[v - 1] \in Nat
      BY <1>1, <1>2
    <2> QED BY <2>1, <2>2
  <1>4. \A v \in 0..n : off[v] \in Nat /\ off[v] <= off[n]
    <2> DEFINE bad == {k \in 0..n : ~(off[n - k] <= off[n])}
    <2>1. bad = {}
      <3> SUFFICES ASSUME bad # {} PROVE FALSE
        OBVIOUS
      <3>1. bad \subseteq Nat BY <1>1
      <3>2. PICK k \in bad : \A j \in bad : k <= j BY <3>1, NatMin
      <3>3. k \in 0..n /\ ~(off[n - k] <= off[n]) OBVIOUS
      <3>4. k # 0
        <4>1. off[n] \in Nat BY <1>1
        <4>2. n - 0 = n BY <1>1
        <4> QED BY <3>3, <4>1, <4>2
      <3>5. k - 1 \in 0..n /\ ~(k <= k - 1) /\ n - (k - 1) \in 1..n /\ (n - (k - 1)) - 1 = n - k
        BY <3>3, <3>4, <1>1
      <3>6. k - 1 \notin bad BY <3>2, <3>5
      <3>7. off[n - (k - 1)] <= off[n] BY <3>5, <3>6
      <3>8. off[n - k] < off[n - (k - 1)] BY <3>5, <1>3
      <3>9. off[n - k] \in Nat /\ off[n - (k - 1)] \in Nat /\ off[n] \in Nat
        BY <3>5, <1>1, <1>2
      <3> QED BY <3>3, <3>7, <3>8, <3>9
    <2> SUFFICES ASSUME NEW v \in 0..n PROVE off[v] \in Nat /\ off[v] <= off[n]
      OBVIOUS
    <2>2. n - v \in 0..n /\ n - (n - v) = v BY <1>1
    <2>3. n - v \notin bad BY <2>1
    <2>4. off[v] <= off[n] BY <2>2, <2>3
    <2> QED BY <2>4, <1>1
  <1>5. ASSUME NEW cur \in Nat, cur < off[n]
        PROVE  \E v \in 1..n : off[v - 1] <= cur /\ cur < off[v]
    <2> DEFINE T == {v \in 0..n : cur < off[v]}
    <2>1. n \in T /\ T \subseteq Nat BY <1>1, <1>5
    <2>2. PICK v \in T : \A y \in T : v <= y BY <2>1, NatMin
    <2>3. v \in 0..n /\ cur < off[v] OBVIOUS
    <2>4. v # 0 BY <2>3, <1>1
    <2>5. v \in 1..n /\ v - 1 \in 0..n /\ ~(v <= v - 1) BY <2>3, <2>4, <1>1
    <2>6. v - 1 \notin T BY <2>2, <2>5
    <2>7. off[v - 1] \in Nat /\ ~(cur < off[v - 1]) BY <2>5, <2>6, <1>1
    <2> QED BY <2>3, <2>5, <2>7
  <1> QED BY <1>1, <1>2, <1>4, <1>5 DEF n

(* What the scan finds at the end of a record: the next record, complete,  *)
(* or the rest of the file, which is too short for one.                    *)
NextRecord(b, imgs, off, v) ==
  /\ Len(b) - off[v] >= HEADER
  /\ HeaderOK(b, off[v]) /\ Complete(b, off[v]) /\ BodyOK(b, off[v])
  /\ b[off[v] + 1].ver = v /\ b[off[v] + 1].img = imgs[v + 1]
  /\ off[v] + RecordLen(imgs[v + 1]) = off[v + 1]

LEMMA AtOffset ==
  ASSUME NEW b, NEW imgs, NEW off, WholeRecords(b, imgs, off),
         NEW v \in 0..Len(imgs), v # Len(imgs)
  PROVE  NextRecord(b, imgs, off, v)
  <1> DEFINE n == Len(imgs)
             o == off[v]
             j == imgs[v + 1]
  <1>1. n \in Nat /\ v \in Nat /\ v + 1 \in 1..n /\ (v + 1) - 1 = v /\ v + 1 \in 0..n
    BY Offsets
  <1>2. /\ Len(b) \in Nat /\ o \in Nat /\ off[v + 1] \in Nat /\ j \in Image
        /\ off[v + 1] <= off[n] /\ off[n] \in Nat
    BY <1>1, Offsets
  <1>3. off[v + 1] = o + RecordLen(j) /\ off[n] <= Len(b)
    BY <1>1 DEF WholeRecords
  <1>4. \A i \in 1..RecordLen(j) : b[o + i] = [ver |-> v, img |-> j, at |-> i]
    BY <1>1 DEF WholeRecords
  <1>5. RecordLen(j) \in Nat /\ RecordLen(j) >= 5 BY <1>2, RecordLength
  <1> HIDE DEF n, o, j
  <1>6. 1 \in 1..RecordLen(j) /\ 2 \in 1..RecordLen(j) BY <1>5
  <1>7. b[o + 1] = [ver |-> v, img |-> j, at |-> 1] /\ b[o + 2] = [ver |-> v, img |-> j, at |-> 2]
    BY <1>4, <1>6
  <1>8. b[o + 1].ver = v /\ b[o + 1].img = j /\ b[o + 1].at = 1
        /\ \A i : [b[o + 1] EXCEPT !.at = i] = [ver |-> v, img |-> j, at |-> i]
    BY <1>7
  <1>9. HeaderOK(b, o) BY <1>7, <1>8 DEF HeaderOK
  <1>10. Len(b) - o >= RecordLen(j) BY <1>2, <1>3, <1>5
  <1>11. Complete(b, o) BY <1>8, <1>10 DEF Complete
  <1>12. BodyOK(b, o)
    <2> SUFFICES ASSUME NEW i \in 1..RecordLen(b[o + 1].img)
                 PROVE  b[o + i] = [b[o + 1] EXCEPT !.at = i]
      BY DEF BodyOK
    <2>1. i \in 1..RecordLen(j) BY <1>8
    <2>2. b[o + i] = [ver |-> v, img |-> j, at |-> i] BY <1>4, <2>1
    <2> QED BY <1>7, <2>2
  <1>13. Len(b) - o >= HEADER BY <1>2, <1>5, <1>10
  <1> QED BY <1>3, <1>8, <1>9, <1>11, <1>12, <1>13 DEF NextRecord, n, o, j

LEMMA AtEnd ==
  ASSUME NEW b, NEW imgs, NEW off, Shape(b, imgs, off)
  PROVE  Len(b) - off[Len(imgs)] < HEADER
         \/ (HeaderOK(b, off[Len(imgs)]) /\ ~Complete(b, off[Len(imgs)]))
  <1> DEFINE n == Len(imgs)
             o == off[n]
  <1>1. Len(b) \in Nat /\ n \in Nat /\ o \in Nat /\ o <= Len(b)
    <2>1. WholeRecords(b, imgs, off) BY DEF Shape
    <2>2. n \in Nat /\ Len(b) \in Nat BY <2>1, Offsets
    <2>3. n \in 0..n BY <2>2
    <2> QED BY <2>1, <2>2, <2>3, Offsets DEF WholeRecords
  <1> HIDE DEF n, o
  <1> SUFFICES ASSUME Len(b) - o >= 2 PROVE HeaderOK(b, o) /\ ~Complete(b, o)
    BY <1>1 DEF n, o
  <1>2. Len(b) > o BY <1>1
  <1>3. PICK j \in Image : Part(b, n, o, j) BY <1>2 DEF Shape, n, o
  <1>4. RecordLen(j) \in Nat /\ RecordLen(j) >= 5 BY RecordLength
  <1>5. 1 \in 1..(Len(b) - o) /\ 2 \in 1..(Len(b) - o) BY <1>1
  <1>6. b[o + 1] = [ver |-> n, img |-> j, at |-> 1] /\ b[o + 2] = [ver |-> n, img |-> j, at |-> 2]
    BY <1>3, <1>5 DEF Part
  <1>7. HeaderOK(b, o) BY <1>6 DEF HeaderOK
  <1>8. Len(b) - o < RecordLen(j) BY <1>3 DEF Part
  <1>9. b[o + 1].img = j BY <1>6
  <1>10. ~(Len(b) - o >= RecordLen(j)) BY <1>1, <1>4, <1>8
  <1>11. ~Complete(b, o) BY <1>9, <1>10 DEF Complete
  <1> QED BY <1>7, <1>11

(* Only at the end of a record does a header begin. *)
LEMMA AtOther ==
  ASSUME NEW b, NEW imgs, NEW off, Shape(b, imgs, off),
         NEW cur \in 0..Len(b), Len(b) - cur >= HEADER, HeaderOK(b, cur)
  PROVE  \E v \in 0..Len(imgs) : cur = off[v]
  <1> DEFINE n == Len(imgs)
  <1>0. WholeRecords(b, imgs, off) BY DEF Shape
  <1>1. n \in Nat /\ Len(b) \in Nat /\ n \in 0..n /\ off[n] \in Nat BY <1>0, Offsets
  <1>2. b[cur + 1].at = 1 /\ cur \in Nat BY <1>1 DEF HeaderOK
  <1>3. CASE cur < off[n]
    <2>1. PICK v \in 1..n : off[v - 1] <= cur /\ cur < off[v] BY <1>0, <1>2, <1>3, Offsets
    <2>2. off[v - 1] \in Nat /\ imgs[v] \in Image BY <1>0, Offsets
    <2>3. off[v] = off[v - 1] + RecordLen(imgs[v]) BY <1>0 DEF WholeRecords
    <2>4. RecordLen(imgs[v]) \in Nat BY <2>2, RecordLength
    <2> DEFINE i == (cur + 1) - off[v - 1]
    <2>5. i \in 1..RecordLen(imgs[v]) /\ off[v - 1] + i = cur + 1
      <3>1. PICK a \in Nat, r \in Nat : a = off[v - 1] /\ r = RecordLen(imgs[v]) BY <2>2, <2>4
      <3>2. a <= cur /\ cur < a + r BY <2>1, <2>3, <3>1
      <3>3. (cur + 1) - a \in 1..r /\ a + ((cur + 1) - a) = cur + 1 BY <1>2, <3>2
      <3>4. i = (cur + 1) - a BY <3>1
      <3>5. i \in 1..r /\ a + i = cur + 1 BY <3>3, <3>4
      <3> HIDE DEF i
      <3> QED BY <3>1, <3>5
    <2>6. b[off[v - 1] + i] = [ver |-> v - 1, img |-> imgs[v], at |-> i]
      BY <1>0, <2>5 DEF WholeRecords
    <2> HIDE DEF i
    <2>7. i = 1 BY <1>2, <2>5, <2>6
    <2>8. cur = off[v - 1] BY <1>2, <2>2, <2>7 DEF i
    <2>9. v - 1 \in 0..n BY <1>1
    <2> QED BY <2>8, <2>9
  <1>4. CASE ~(cur < off[n])
    <2>1. Len(b) > off[n] BY <1>1, <1>2, <1>4
    <2>2. PICK j \in Image : Part(b, n, off[n], j) BY <2>1 DEF Shape
    <2> DEFINE i == cur + 1 - off[n]
    <2>3. i \in 1..(Len(b) - off[n]) /\ off[n] + i = cur + 1
      BY <1>1, <1>2, <1>4
    <2>4. b[off[n] + i] = [ver |-> n, img |-> j, at |-> i] BY <2>2, <2>3 DEF Part
    <2> HIDE DEF i
    <2>5. i = 1 BY <1>2, <2>3, <2>4
    <2>6. cur = off[n] BY <1>1, <1>2, <2>5 DEF i
    <2> QED BY <1>1, <2>6
  <1> QED BY <1>3, <1>4

(* A scan of such a file finds no error, and stops behind the last         *)
(* complete record, with that record.  The loop of Scan has a solution,    *)
(* and every solution agrees with this one from the last record backwards. *)
LEMMA ScanOf ==
  ASSUME NEW b, NEW imgs, NEW off, Shape(b, imgs, off)
  PROVE  Scan(b) = [error |-> FALSE, cursor |-> off[Len(imgs)],
                    last |-> RecordOf(imgs, Len(imgs))]
  <1> DEFINE n == Len(imgs)
             D == [cursor : 0..Len(b), last : Rec]
             found(s) == [error |-> FALSE, cursor |-> s.cursor, last |-> s.last]
             c(s) == b[s.cursor + 1]
             goal == [error |-> FALSE, cursor |-> off[n], last |-> RecordOf(imgs, n)]
             after(s) == [cursor |-> s.cursor + RecordLen(c(s).img),
                          last   |-> [ver |-> c(s).ver, img |-> c(s).img]]
             at(v) == [cursor |-> off[v], last |-> RecordOf(imgs, v)]
             short(s) == Len(b) - s.cursor < HEADER
             bad(s) == ~BodyOK(b, s.cursor) \/ c(s).ver # Expected(s.last)
             step(f) == [s \in D |-> IF short(s) THEN found(s)
                                     ELSE IF ~HeaderOK(b, s.cursor) THEN Corrupt
                                     ELSE IF ~Complete(b, s.cursor) THEN found(s)
                                     ELSE IF bad(s) THEN Corrupt
                                     ELSE f[after(s)]]
             w == [s \in D |-> IF short(s) THEN found(s)
                               ELSE IF ~HeaderOK(b, s.cursor) THEN Corrupt
                               ELSE IF ~Complete(b, s.cursor) THEN found(s)
                               ELSE IF bad(s) THEN Corrupt
                               ELSE goal]
  <1>0. WholeRecords(b, imgs, off) BY DEF Shape
  <1>1. n \in Nat /\ Len(b) \in Nat /\ n <= MaxVersion + 1 /\ MaxVersion \in Nat
    BY <1>0, Offsets, JournalAssumption DEF WholeRecords
  <1>2. \A v \in 0..n : off[v] \in Nat /\ off[v] <= off[n] BY <1>0, Offsets
  <1>3. \A v \in 1..n : imgs[v] \in Image /\ v \in Nat /\ v - 1 \in 0..MaxVersion /\ v # 0
    BY <1>0, <1>1, Offsets
  <1>4. off[0] = 0 /\ off[n] <= Len(b) /\ off[n] \in Nat BY <1>0, <1>1, <1>2 DEF WholeRecords
  <1>5. \A v \in 0..n : RecordOf(imgs, v) \in Rec
    BY <1>1, <1>3 DEF RecordOf, Rec, NoRecord
  <1>6. \A v \in 0..n : Expected(RecordOf(imgs, v)) = v
    BY <1>1, <1>3, JournalAssumption DEF RecordOf, Expected, NoRecord
  <1>7. \A v \in 0..n : at(v) \in D /\ at(v).cursor = off[v] /\ at(v).last = RecordOf(imgs, v)
    <2> SUFFICES ASSUME NEW v \in 0..n PROVE at(v) \in D
      OBVIOUS
    <2>1. off[v] \in 0..Len(b) BY <1>1, <1>2, <1>4
    <2> QED BY <2>1, <1>5
  <1>8. ASSUME NEW v \in 0..n, v # n, NEW s \in D, s.cursor = off[v]
        PROVE  /\ ~short(s) /\ HeaderOK(b, s.cursor) /\ Complete(b, s.cursor)
               /\ bad(s) <=> Expected(s.last) # v
               /\ after(s) = at(v + 1) /\ v + 1 \in 0..n
    <2>1. NextRecord(b, imgs, off, v) BY <1>0, <1>8, AtOffset
    <2>2. v + 1 \in 0..n /\ v + 1 # 0 /\ (v + 1) - 1 = v BY <1>1, <1>8
    <2>3. RecordOf(imgs, v + 1) = [ver |-> v, img |-> imgs[v + 1]] BY <2>2 DEF RecordOf
    <2>4. after(s) = at(v + 1) BY <2>1, <2>3, <1>8 DEF NextRecord
    <2>5. ~short(s) BY <2>1, <1>1, <1>2, <1>8 DEF NextRecord
    <2> QED BY <2>1, <2>2, <2>4, <2>5, <1>8 DEF NextRecord
  <1>9. ASSUME NEW s \in D, s.cursor = off[n]
        PROVE  short(s) \/ (HeaderOK(b, s.cursor) /\ ~Complete(b, s.cursor))
    BY <1>9, AtEnd
  <1>10. ASSUME NEW s \in D, ~short(s), HeaderOK(b, s.cursor), Complete(b, s.cursor)
         PROVE  \E v \in 0..n : v # n /\ s.cursor = off[v]
    <2>1. s.cursor \in 0..Len(b) /\ Len(b) - s.cursor >= HEADER BY <1>1, <1>10
    <2>2. PICK v \in 0..n : s.cursor = off[v] BY <1>10, <2>1, AtOther
    <2>3. v # n BY <1>9, <1>10, <2>2
    <2> QED BY <2>2, <2>3
  <1> HIDE DEF n, D
  <1>11. \A v \in 0..n : w[at(v)] = goal
    <2> SUFFICES ASSUME NEW v \in 0..n PROVE w[at(v)] = goal
      OBVIOUS
    <2>1. CASE v # n BY <2>1, <1>6, <1>7, <1>8
    <2>2. CASE v = n
      <3>1. found(at(n)) = goal OBVIOUS
      <3> QED BY <2>2, <3>1, <1>7, <1>9
    <2> QED BY <2>1, <2>2
  <1>12. w = step(w)
    <2> SUFFICES ASSUME NEW s \in D PROVE w[s] = step(w)[s]
      OBVIOUS
    <2>1. CASE short(s) \/ ~HeaderOK(b, s.cursor) \/ ~Complete(b, s.cursor) \/ bad(s)
      BY <2>1
    <2>2. CASE ~short(s) /\ HeaderOK(b, s.cursor) /\ Complete(b, s.cursor) /\ ~bad(s)
      <3>1. PICK v \in 0..n : v # n /\ s.cursor = off[v] BY <2>2, <1>10
      <3>2. after(s) = at(v + 1) /\ v + 1 \in 0..n BY <3>1, <1>8
      <3>3. w[after(s)] = goal BY <3>2, <1>11
      <3>4. w[s] = goal /\ step(w)[s] = w[after(s)] BY <2>2
      <3> QED BY <3>3, <3>4
    <2> QED BY <2>1, <2>2
  <1> DEFINE from == CHOOSE f : f = step(f)
  <1>13. Scan(b) = from[[cursor |-> 0, last |-> NoRecord]]
    BY DEF Scan, D, Rec
  <1> HIDE DEF w
  <1>14. from = step(from) BY <1>12
  <1> HIDE DEF from
  <1>15. ASSUME NEW v \in 0..n, v # n PROVE from[at(v)] = from[at(v + 1)]
    <2>1. at(v) \in D BY <1>7
    <2>2. from[at(v)] = step(from)[at(v)] BY <1>14
    <2> QED BY <1>6, <1>7, <1>8, <1>15, <2>1, <2>2
  <1>16. from[at(n)] = goal
    <2>1. n \in 0..n BY <1>1
    <2>2. at(n) \in D BY <2>1, <1>7
    <2>3. from[at(n)] = step(from)[at(n)] BY <1>14
    <2>4. step(from)[at(n)] = found(at(n)) BY <1>9, <2>2
    <2> QED BY <2>3, <2>4
  <1> DEFINE wrong == {k \in 0..n : from[at(n - k)] # goal}
  <1> HIDE DEF step, at, goal
  <1>17. wrong = {}
    <2> SUFFICES ASSUME wrong # {} PROVE FALSE
      OBVIOUS
    <2>1. wrong \subseteq Nat BY <1>1
    <2>2. PICK k \in wrong : \A y \in wrong : k <= y BY <2>1, NatMin
    <2>3. k \in 0..n /\ from[at(n - k)] # goal OBVIOUS
    <2>4. k # 0
      <3>1. n - 0 = n BY <1>1
      <3> QED BY <2>3, <3>1, <1>16
    <2>5. k - 1 \in 0..n /\ ~(k <= k - 1) /\ n - k \in 0..n /\ n - k # n /\ (n - k) + 1 = n - (k - 1)
      BY <2>3, <2>4, <1>1
    <2>6. from[at(n - (k - 1))] = goal BY <2>2, <2>5
    <2> QED BY <2>3, <2>5, <2>6, <1>15
  <1>18. from[at(0)] = goal
    <2>1. n \in 0..n /\ n - n = 0 BY <1>1
    <2> QED BY <1>17, <2>1
  <1>19. at(0) = [cursor |-> 0, last |-> NoRecord] BY <1>4 DEF at, RecordOf
  <1> QED BY <1>13, <1>18, <1>19 DEF goal, n

(* The images of the versions that a scan accepts are the complete ones. *)
LEMMA ImagesOf ==
  ASSUME NEW b, NEW imgs, NEW off, Shape(b, imgs, off)
  PROVE  [v \in 1..Expected(Scan(b).last) |-> (CHOOSE c \in Range(b) : c.ver = v - 1).img] = imgs
  <1> DEFINE n == Len(imgs)
  <1>0. WholeRecords(b, imgs, off) BY DEF Shape
  <1>1. /\ n \in Nat /\ Len(b) \in Nat /\ DOMAIN b = 1..Len(b) /\ imgs \in Seq(Image)
        /\ n \in 0..n /\ 0 \in 0..n /\ off[n] \in Nat /\ off[n] <= Len(b)
        /\ \A v \in 0..n : off[v] \in Nat /\ off[v] <= off[n]
    <2>1. n \in Nat /\ Len(b) \in Nat BY <1>0, Offsets
    <2>2. b \in Seq(Cell) /\ imgs \in Seq(Image) /\ off[n] <= Len(b) BY <1>0 DEF WholeRecords
    <2>3. \A v \in 0..n : off[v] \in Nat /\ off[v] <= off[n] BY <1>0, Offsets
    <2>4. n \in 0..n /\ 0 \in 0..n BY <2>1
    <2> QED BY <2>1, <2>2, <2>3, <2>4
  <1>2. \A v \in 1..n : imgs[v] \in Image /\ v # 0 BY <1>0, Offsets
  <1>3. Expected(Scan(b).last) = n
    <2>1. Scan(b).last = RecordOf(imgs, n) BY ScanOf
    <2>2. CASE n = 0 BY <2>1, <2>2 DEF RecordOf, Expected, NoRecord
    <2>3. CASE n # 0
      <3>1. n \in 1..n BY <1>1, <2>3
      <3>2. imgs[n] \in Image BY <3>1, <1>2
      <3> QED BY <2>1, <2>3, <3>2, <1>1, JournalAssumption DEF RecordOf, Expected
    <2> QED BY <2>2, <2>3
  <1>4. ASSUME NEW v \in 1..n
        PROVE  /\ \E c \in Range(b) : c.ver = v - 1
               /\ \A c \in Range(b) : c.ver = v - 1 => c.img = imgs[v]
    <2>1. v \in 0..n /\ v - 1 \in 0..n /\ v \in Nat BY <1>1
    <2>2. RecordLen(imgs[v]) \in Nat /\ RecordLen(imgs[v]) >= 5 BY <1>2, RecordLength
    <2>3. off[v] = off[v - 1] + RecordLen(imgs[v]) BY <1>0 DEF WholeRecords
    <2>4. \E c \in Range(b) : c.ver = v - 1
      <3>1. 1 \in 1..RecordLen(imgs[v]) BY <2>2
      <3>2. b[off[v - 1] + 1] = [ver |-> v - 1, img |-> imgs[v], at |-> 1]
        BY <1>0, <3>1 DEF WholeRecords
      <3>3. off[v - 1] + 1 \in DOMAIN b BY <1>1, <2>1, <2>2, <2>3
      <3> QED BY <3>2, <3>3 DEF Range
    <2>5. ASSUME NEW k \in 1..Len(b), b[k].ver = v - 1 PROVE b[k].img = imgs[v]
      <3>1. CASE k - 1 < off[n]
        <4>1. k \in Nat /\ k - 1 \in Nat BY <1>1
        <4>2. PICK u \in 1..n : off[u - 1] <= k - 1 /\ k - 1 < off[u]
          BY <1>0, <3>1, <4>1, Offsets
        <4>3. off[u - 1] \in Nat /\ imgs[u] \in Image BY <1>0, Offsets
        <4>4. off[u] = off[u - 1] + RecordLen(imgs[u]) BY <1>0 DEF WholeRecords
        <4>5. RecordLen(imgs[u]) \in Nat BY <4>3, RecordLength
        <4> DEFINE i == k - off[u - 1]
        <4>6. i \in 1..RecordLen(imgs[u]) /\ off[u - 1] + i = k
          BY <4>1, <4>2, <4>3, <4>4, <4>5
        <4>7. b[k] = [ver |-> u - 1, img |-> imgs[u], at |-> i]
          BY <1>0, <4>6 DEF WholeRecords
        <4>8. u - 1 = v - 1 /\ b[k].img = imgs[u] BY <2>5, <4>7
        <4>9. u = v BY <4>8, <1>1
        <4> QED BY <4>8, <4>9
      <3>2. CASE ~(k - 1 < off[n])
        <4>1. k \in Nat /\ Len(b) > off[n] BY <1>1, <3>2
        <4>2. PICK j \in Image : Part(b, n, off[n], j) BY <4>1 DEF Shape
        <4> DEFINE i == k - off[n]
        <4>3. i \in 1..(Len(b) - off[n]) /\ off[n] + i = k BY <1>1, <3>2, <4>1
        <4>4. b[k] = [ver |-> n, img |-> j, at |-> i] BY <4>2, <4>3 DEF Part
        <4>5. n = v - 1 BY <2>5, <4>4
        <4> QED BY <4>5, <2>1, <1>1
      <3> QED BY <3>1, <3>2
    <2> QED BY <2>4, <2>5, <1>1 DEF Range
  <1> DEFINE f == [v \in 1..n |-> (CHOOSE c \in Range(b) : c.ver = v - 1).img]
  <1>5. \A v \in 1..n : f[v] = imgs[v]
    <2> SUFFICES ASSUME NEW v \in 1..n PROVE f[v] = imgs[v]
      OBVIOUS
    <2>1. PICK c \in Range(b) : c.ver = v - 1 BY <1>4
    <2>2. (CHOOSE d \in Range(b) : d.ver = v - 1).img = imgs[v] BY <1>4, <2>1
    <2> QED BY <2>2
  <1>6. f = imgs
    <2>1. imgs = [v \in 1..n |-> imgs[v]] BY <1>1
    <2> QED BY <1>5, <2>1
  <1> QED BY <1>3, <1>6

(* The journal as the transaction manager sees it. *)
LEMMA Contents ==
  ASSUME NEW imgs, NEW off, Shape(cells, imgs, off)
  PROVE  /\ CompleteRecords = imgs
         /\ TornTail <=> off[Len(imgs)] < Len(cells)
  BY ImagesOf, ScanOf DEF CompleteRecords, TornTail

(* The cells of a record. *)
LEMMA RecordCells ==
  ASSUME NEW v \in 0..MaxVersion, NEW j \in Image
  PROVE  /\ record(v, j) \in Seq(Cell) /\ Len(record(v, j)) = RecordLen(j)
         /\ \A i \in 1..RecordLen(j) : record(v, j)[i] = [ver |-> v, img |-> j, at |-> i]
  <1>1. RecordLen(j) \in Nat BY RecordLength
  <1>2. ASSUME NEW i \in 1..RecordLen(j) PROVE record(v, j)[i] \in Cell
    <2>1. record(v, j)[i] \in Range(record(v, j)) BY DEF Range, record
    <2>2. Range(record(v, j)) \in {Range(record(u, k)) : u \in 0..MaxVersion, k \in Image}
      OBVIOUS
    <2> QED BY <2>1, <2>2 DEF Cell
  <1>3. record(v, j) = [i \in 1..RecordLen(j) |-> record(v, j)[i]] BY DEF record
  <1>4. record(v, j) \in Seq(Cell) BY <1>1, <1>2, <1>3
  <1>5. DOMAIN record(v, j) = 1..RecordLen(j) BY DEF record
  <1>6. Len(record(v, j)) = RecordLen(j) BY <1>1, <1>4, <1>5
  <1> QED BY <1>4, <1>6 DEF record
-----------------------------------------------------------------------------
(* The steps.                                                              *)

(* While p has the file open, or opens it, the other processes have not. *)
LEMMA Others ==
  ASSUME NEW p \in Proc, NEW imgs, NEW off, FileOf(imgs, off),
         pc[p] # "closed" \/ lock = NoProc,
         \A q \in Proc : q # p => pc'[q] = pc[q] /\ pos'[q] = pos[q],
         NEW imgs2, NEW off2
  PROVE  \A q \in Proc : q # p => Handle(q, imgs2, off2)'
  <1> SUFFICES ASSUME NEW q \in Proc, q # p PROVE Handle(q, imgs2, off2)'
    OBVIOUS
  <1>1. Handle(p, imgs, off) /\ Handle(q, imgs, off) BY DEF FileOf
  <1>2. pc[q] = "closed" /\ pos[q] = 0 BY <1>1, JournalAssumption DEF Handle
  <1>3. pc'[q] = "closed" /\ pos'[q] = 0 BY <1>2
  <1> QED BY <1>3 DEF Handle

(* Everything about a step that leaves the file alone, but for the         *)
(* process that takes it.                                                  *)
LEMMA FileSame ==
  ASSUME NEW p \in Proc, NEW imgs, NEW off, FileOf(imgs, off),
         pc[p] # "closed" \/ lock = NoProc, cells' = cells, acked' = acked,
         \A q \in Proc : q # p => pc'[q] = pc[q] /\ pos'[q] = pos[q],
         Handle(p, imgs, off)'
  PROVE  FileOf(imgs, off)'
  <1>1. Shape(cells, imgs, off)' BY DEF FileOf
  <1>2. \A q \in Proc : q # p => Handle(q, imgs, off)' BY Others
  <1>3. \A r \in acked' : \E v \in 1..Len(imgs) : r = RecordOf(imgs, v) BY DEF FileOf
  <1> QED BY <1>1, <1>2, <1>3 DEF FileOf

LEMMA OpenLockStep ==
  ASSUME TypeOK, NEW imgs, NEW off, FileOf(imgs, off), NEW p \in Proc, OpenLock(p)
  PROVE  TypeOK' /\ FileOf(imgs, off)'
  <1>1. TypeOK' BY DEF TypeOK, OpenLock, TryLock
  <1>2. Handle(p, imgs, off) BY DEF FileOf
  <1>3. pc'[p] = "locked" /\ lock' = p /\ pos'[p] = 0
    BY <1>2 DEF TypeOK, OpenLock, TryLock, Handle
  <1>4. Handle(p, imgs, off)' BY <1>3 DEF Handle
  <1>5. \A q \in Proc : q # p => pc'[q] = pc[q] /\ pos'[q] = pos[q] BY DEF TypeOK, OpenLock
  <1> QED BY <1>1, <1>4, <1>5, FileSame DEF OpenLock, TryLock

LEMMA OpenReadStep ==
  ASSUME TypeOK, NEW imgs, NEW off, FileOf(imgs, off), NEW p \in Proc, OpenRead(p)
  PROVE  TypeOK' /\ FileOf(imgs, off)'
  <1>1. TypeOK' BY DEF TypeOK, OpenRead
  <1>2. Handle(p, imgs, off) BY DEF FileOf
  <1>3. pc'[p] = "scan" /\ lock' = p /\ pos'[p] = 0 /\ bytes'[p] = cells'
    BY <1>2 DEF TypeOK, OpenRead, Handle
  <1>4. Handle(p, imgs, off)' BY <1>3 DEF Handle
  <1>5. \A q \in Proc : q # p => pc'[q] = pc[q] /\ pos'[q] = pos[q] BY DEF TypeOK, OpenRead
  <1> QED BY <1>1, <1>4, <1>5, FileSame DEF OpenRead

LEMMA GoneStep ==
  ASSUME TypeOK, NEW imgs, NEW off, FileOf(imgs, off), NEW p \in Proc,
         pc[p] # "closed", Gone(p), UNCHANGED <<cells, acked>>
  PROVE  TypeOK' /\ FileOf(imgs, off)'
  <1>0. NoRecord \in Rec /\ <<>> \in Seq(Cell) /\ Len(cells) \in Nat
    BY JournalAssumption DEF NoRecord, Rec, TypeOK
  <1>1. TypeOK' BY <1>0 DEF TypeOK, Gone
  <1>2. pc'[p] = "closed" /\ pos'[p] = 0 BY DEF TypeOK, Gone
  <1>3. Handle(p, imgs, off)' BY <1>2 DEF Handle
  <1>4. \A q \in Proc : q # p => pc'[q] = pc[q] /\ pos'[q] = pos[q] BY DEF TypeOK, Gone
  <1> QED BY <1>1, <1>3, <1>4, FileSame

(* The scan of open finds the records of the file. *)
LEMMA OpenScanStep ==
  ASSUME TypeOK, NEW imgs, NEW off, FileOf(imgs, off), NEW p \in Proc, OpenScan(p)
  PROVE  TypeOK' /\ FileOf(imgs, off)'
  <1> DEFINE n == Len(imgs)
  <1>0. Shape(cells, imgs, off) /\ WholeRecords(cells, imgs, off) /\ Handle(p, imgs, off)
    BY DEF FileOf, Shape
  <1>1. pc[p] = "scan" /\ bytes[p] = cells /\ lock = p /\ pos[p] = 0 /\ cells' = cells
    BY <1>0 DEF OpenScan, Handle
  <1>2. /\ Scan(bytes[p]).last = RecordOf(imgs, n) /\ Scan(bytes[p]).cursor = off[n]
    BY <1>0, <1>1, ScanOf
  <1>3. n \in Nat /\ Len(cells) \in Nat /\ off[n] \in Nat /\ off[n] <= Len(cells)
    <2>1. n \in Nat /\ Len(cells) \in Nat BY <1>0, Offsets
    <2>2. n \in 0..n BY <2>1
    <2> QED BY <1>0, <2>1, <2>2, Offsets DEF WholeRecords
  <1>4. n # 0 => n \in 1..n /\ imgs[n] \in Image /\ n - 1 \in 0..MaxVersion
    BY <1>0, <1>3, Offsets, JournalAssumption DEF WholeRecords
  <1>5. RecordOf(imgs, n) \in Rec /\ (n # 0 => RecordOf(imgs, n) # NoRecord)
        /\ (RecordOf(imgs, n) # NoRecord => RecordOf(imgs, n) \in [ver : 0..MaxVersion, img : Image])
    BY <1>3, <1>4, JournalAssumption DEF RecordOf, Rec, NoRecord
  <1>6. /\ latest' = [latest EXCEPT ![p] = RecordOf(imgs, n)]
        /\ pc' = [pc EXCEPT ![p] = IF off[n] < Len(cells) THEN "cut" ELSE "usable"]
        /\ acked' = acked \cup ({RecordOf(imgs, n)} \ {NoRecord})
        /\ UNCHANGED <<cells, lock, bytes, pending, pos>>
    BY <1>1, <1>2 DEF OpenScan
  <1>7. cells = <<>> \/ n # 0
    BY <1>1, <1>2 DEF OpenScan, RecordOf
  <1> HIDE DEF n
  <1>8. TypeOK' BY <1>5, <1>6 DEF TypeOK
  <1>9. /\ latest'[p] = RecordOf(imgs, n) /\ lock' = p /\ pos'[p] = 0 /\ bytes'[p] = cells'
        /\ pc'[p] = IF off[n] < Len(cells) THEN "cut" ELSE "usable"
    BY <1>1, <1>6 DEF TypeOK
  <1>10. pc'[p] = "cut" => n # 0
    <2> SUFFICES ASSUME off[n] < Len(cells) PROVE n # 0
      BY <1>9
    <2>1. Len(cells) # 0 BY <1>3
    <2> QED BY <1>7, <2>1
  <1>11. pc'[p] = "usable" => off[n] = Len(cells') BY <1>1, <1>3, <1>9
  <1>12. pc'[p] \in {"cut", "usable"} BY <1>9
  <1>13. Handle(p, imgs, off)' BY <1>9, <1>10, <1>11, <1>12 DEF Handle, n
  <1>14. \A q \in Proc : q # p => pc'[q] = pc[q] /\ pos'[q] = pos[q] BY <1>6 DEF TypeOK
  <1>15. \A q \in Proc : q # p => Handle(q, imgs, off)' BY <1>1, <1>14, Others
  <1>16. \A r \in acked' : \E v \in 1..Len(imgs) : r = RecordOf(imgs, v)
    <2> SUFFICES ASSUME NEW r \in acked', r \notin acked
                 PROVE  \E v \in 1..Len(imgs) : r = RecordOf(imgs, v)
      BY DEF FileOf
    <2>1. r = RecordOf(imgs, n) /\ r # NoRecord BY <1>6
    <2>2. n # 0 BY <2>1 DEF RecordOf
    <2> QED BY <2>1, <2>2, <1>4 DEF n
  <1>17. Shape(cells, imgs, off)' BY <1>0, <1>1
  <1>18. \A q \in Proc : Handle(q, imgs, off)' BY <1>13, <1>15
  <1> QED BY <1>8, <1>16, <1>17, <1>18 DEF FileOf

(* What the records of a file are made of. *)
LEMMA ShapeFacts ==
  ASSUME NEW b, NEW imgs, NEW off, Shape(b, imgs, off)
  PROVE  /\ WholeRecords(b, imgs, off) /\ b \in Seq(Cell) /\ imgs \in Seq(Image)
         /\ Len(imgs) \in Nat /\ Len(b) \in Nat /\ Len(imgs) \in 0..Len(imgs)
         /\ off[Len(imgs)] \in Nat /\ off[Len(imgs)] <= Len(b)
         /\ Expected(RecordOf(imgs, Len(imgs))) = Len(imgs)
  <1> DEFINE n == Len(imgs)
  <1>1. WholeRecords(b, imgs, off) BY DEF Shape
  <1>2. n \in Nat /\ Len(b) \in Nat BY <1>1, Offsets
  <1>3. n \in 0..n BY <1>2
  <1>4. off[n] \in Nat BY <1>1, <1>3, Offsets
  <1>5. Expected(RecordOf(imgs, n)) = n
    <2>1. n # 0 => imgs[n] \in Image
      <3>1. n # 0 => n \in 1..n BY <1>2
      <3> QED BY <3>1, <1>1, Offsets
    <2> QED BY <2>1, <1>2, JournalAssumption DEF Expected, RecordOf, NoRecord
  <1> QED BY <1>1, <1>2, <1>3, <1>4, <1>5 DEF WholeRecords

LEMMA OpenCutStep ==
  ASSUME TypeOK, NEW imgs, NEW off, FileOf(imgs, off), NEW p \in Proc, OpenCut(p)
  PROVE  TypeOK' /\ FileOf(imgs, off)' /\ Len(imgs) # 0 /\ Len(cells') = off[Len(imgs)]
  <1> DEFINE n == Len(imgs)
             o == off[n]
  <1>1. Shape(cells, imgs, off) /\ Handle(p, imgs, off) BY DEF FileOf
  <1>2. /\ WholeRecords(cells, imgs, off) /\ cells \in Seq(Cell) /\ n \in Nat /\ Len(cells) \in Nat
        /\ o \in Nat /\ o <= Len(cells)
    BY <1>1, ShapeFacts
  <1>3. /\ pc[p] = "cut" /\ bytes[p] = cells /\ n # 0 /\ latest[p] = RecordOf(imgs, n)
        /\ lock = p /\ pos[p] = 0
    BY <1>1 DEF OpenCut, Handle
  <1>4. Scan(bytes[p]).cursor = o BY <1>1, <1>3, ScanOf
  <1>5. cells' = SubSeq(cells, 1, o) BY <1>4 DEF OpenCut, CutTo
  <1>6. /\ cells' \in Seq(Cell) /\ Len(cells') = o
        /\ \A i \in 1..o : cells'[i] = cells[i]
    <2>1. \A i \in 1..o : cells[i] \in Cell BY <1>2
    <2>2. cells' = [i \in 1..o |-> cells[i]] BY <1>2, <1>5
    <2>3. [i \in 1..o |-> cells[i]] \in Seq(Cell) BY <1>2, <2>1
    <2> QED BY <1>2, <2>2, <2>3
  <1>7. WholeRecords(cells', imgs, off)
    <2>1. ASSUME NEW v \in 1..n, NEW i \in 1..RecordLen(imgs[v])
          PROVE  cells'[off[v - 1] + i] = [ver |-> v - 1, img |-> imgs[v], at |-> i]
      <3>1. off[v] \in Nat /\ off[v - 1] \in Nat /\ imgs[v] \in Image BY <1>2, Offsets
      <3>2. v \in 0..n BY <1>2
      <3>3. off[v] <= o BY <1>2, <3>2, Offsets
      <3>4. off[v] = off[v - 1] + RecordLen(imgs[v]) BY <1>2 DEF WholeRecords
      <3>5. RecordLen(imgs[v]) \in Nat BY <3>1, RecordLength
      <3>6. off[v - 1] + i \in 1..o BY <1>2, <3>1, <3>3, <3>4, <3>5
      <3>7. cells[off[v - 1] + i] = [ver |-> v - 1, img |-> imgs[v], at |-> i]
        BY <1>2 DEF WholeRecords
      <3> QED BY <1>6, <3>6, <3>7
    <2>2. o <= Len(cells') BY <1>2, <1>6
    <2> QED BY <1>2, <1>6, <2>1, <2>2 DEF WholeRecords
  <1> HIDE DEF n, o
  <1>8. Shape(cells', imgs, off)
    <2>1. ~(Len(cells') > o) BY <1>2, <1>6
    <2> QED BY <1>7, <2>1 DEF Shape, n, o
  <1>9. /\ pc' = [pc EXCEPT ![p] = "usable"]
        /\ UNCHANGED <<lock, bytes, latest, pending, pos, acked>>
    BY DEF OpenCut
  <1>10. \A q \in Proc : q # p => pc'[q] = pc[q] /\ pos'[q] = pos[q] BY <1>9 DEF TypeOK
  <1>11. \A q \in Proc : q # p => Handle(q, imgs, off)' BY <1>3, <1>10, Others
  <1>12. pc'[p] = "usable" /\ lock' = p /\ pos'[p] = 0 /\ latest'[p] = RecordOf(imgs, n)
    BY <1>3, <1>9 DEF TypeOK
  <1>13. Handle(p, imgs, off)' BY <1>6, <1>12 DEF Handle, n, o
  <1>14. \A q \in Proc : Handle(q, imgs, off)' BY <1>11, <1>13
  <1>15. \A r \in acked' : \E v \in 1..Len(imgs) : r = RecordOf(imgs, v) BY <1>9 DEF FileOf
  <1>16. FileOf(imgs, off)' BY <1>8, <1>14, <1>15 DEF FileOf
  <1>17. TypeOK'
    <2>1. \A q \in Proc : pos'[q] = 0
      <3> SUFFICES ASSUME NEW q \in Proc PROVE pos'[q] = 0
        OBVIOUS
      <3>1. pc'[q] # "write"
        <4>1. CASE q = p BY <4>1, <1>12
        <4>2. CASE q # p
          <5>1. Handle(q, imgs, off) BY DEF FileOf
          <5>2. pc[q] = "closed" BY <5>1, <4>2, <1>3 DEF Handle
          <5> QED BY <5>2, <4>2, <1>10
        <4> QED BY <4>1, <4>2
      <3>2. Handle(q, imgs, off)' BY <1>14
      <3> QED BY <3>1, <3>2 DEF Handle
    <2>2. pos' \in [Proc -> 0..Len(cells')]
      <3>1. 0 \in 0..Len(cells') BY <1>2, <1>6
      <3>2. DOMAIN pos' = Proc /\ pos' = [q \in Proc |-> pos'[q]] BY <1>9 DEF TypeOK
      <3> QED BY <2>1, <3>1, <3>2
    <2> QED BY <1>6, <1>9, <2>2 DEF TypeOK
  <1> QED BY <1>3, <1>6, <1>16, <1>17 DEF n, o

LEMMA AppendStartStep ==
  ASSUME TypeOK, NEW imgs, NEW off, FileOf(imgs, off), NEW p \in Proc, NEW j \in Image,
         AppendStart(p, j)
  PROVE  TypeOK' /\ FileOf(imgs, off)'
  <1> DEFINE n == Len(imgs)
             o == off[n]
  <1>1. Shape(cells, imgs, off) /\ Handle(p, imgs, off) BY DEF FileOf
  <1>2. n \in Nat /\ Len(cells) \in Nat /\ o \in Nat /\ Expected(RecordOf(imgs, n)) = n
    BY <1>1, ShapeFacts
  <1>3. pc[p] = "usable" /\ latest[p] = RecordOf(imgs, n) /\ o = Len(cells) /\ lock = p
    BY <1>1 DEF AppendStart, Handle
  <1>4. n <= MaxVersion /\ pending' = [pending EXCEPT ![p] = record(n, j)]
    BY <1>2, <1>3 DEF AppendStart
  <1>5. n \in 0..MaxVersion BY <1>2, <1>4, JournalAssumption
  <1> HIDE DEF n, o
  <1>6. /\ record(n, j) \in Seq(Cell) /\ Len(record(n, j)) = RecordLen(j)
        /\ \A i \in 1..RecordLen(j) : record(n, j)[i] = [ver |-> n, img |-> j, at |-> i]
    BY <1>5, RecordCells
  <1>7. RecordLen(j) \in Nat /\ RecordLen(j) >= 5 BY RecordLength
  <1>8. /\ pos' = [pos EXCEPT ![p] = Len(cells)] /\ pc' = [pc EXCEPT ![p] = "write"]
        /\ UNCHANGED <<cells, lock, bytes, latest, acked>>
    BY DEF AppendStart
  <1>9. TypeOK'
    <2>1. Len(cells) \in 0..Len(cells) BY <1>2
    <2> QED BY <1>4, <1>6, <1>8, <2>1 DEF TypeOK
  <1>10. /\ pos'[p] = Len(cells') /\ pc'[p] = "write" /\ lock' = p /\ pending'[p] = record(n, j)
    BY <1>3, <1>4, <1>8 DEF TypeOK
  <1>11. record(n, j) # <<>> BY <1>6, <1>7
  <1>12. Len(cells') - o = 0 BY <1>2, <1>3, <1>8
  <1>13. Part(cells', n, o, j)
    <2>1. 0 < RecordLen(j) /\ 1..0 = {} BY <1>7
    <2> QED BY <1>4, <1>12, <2>1 DEF Part
  <1>14. Rest(pending'[p], n, Len(cells') - o, j)
    <2>1. RecordLen(j) - 0 = RecordLen(j) /\ \A i \in 1..RecordLen(j) : 0 + i = i BY <1>7
    <2>2. \A i \in 1..RecordLen(j) : record(n, j)[i] = [ver |-> n, img |-> j, at |-> 0 + i]
      BY <1>6, <2>1
    <2> QED BY <1>6, <1>10, <1>12, <2>1, <2>2 DEF Rest
  <1>15. Handle(p, imgs, off)' BY <1>10, <1>11, <1>13, <1>14 DEF Handle, n, o
  <1>16. \A q \in Proc : q # p => pc'[q] = pc[q] /\ pos'[q] = pos[q] BY <1>8 DEF TypeOK
  <1> QED BY <1>3, <1>8, <1>9, <1>15, <1>16, FileSame

LEMMA AppendOkStep ==
  ASSUME TypeOK, NEW imgs, NEW off, FileOf(imgs, off), NEW p \in Proc, AppendOk(p)
  PROVE  TypeOK' /\ FileOf(imgs, off)'
  <1> DEFINE n == Len(imgs)
             o == off[n]
             r == RecordOf(imgs, n)
  <1>1. Shape(cells, imgs, off) /\ Handle(p, imgs, off) BY DEF FileOf
  <1>2. /\ n \in Nat /\ Len(cells) \in Nat /\ o \in Nat /\ WholeRecords(cells, imgs, off)
    BY <1>1, ShapeFacts
  <1>3. pc[p] = "write" /\ pending[p] = <<>> BY DEF AppendOk, Written
  <1>4. n # 0 /\ o = Len(cells) /\ pos[p] = Len(cells) /\ lock = p
    BY <1>1, <1>3 DEF Handle
  <1>5. n \in 1..n BY <1>2, <1>4
  <1>6. imgs[n] \in Image /\ off[n - 1] \in Nat BY <1>2, <1>5, Offsets
  <1>7. o = off[n - 1] + RecordLen(imgs[n]) BY <1>2, <1>5 DEF WholeRecords
  <1>8. RecordLen(imgs[n]) \in 1..RecordLen(imgs[n])
    BY <1>6, RecordLength
  <1>9. cells[pos[p]] = [ver |-> n - 1, img |-> imgs[n], at |-> RecordLen(imgs[n])]
    BY <1>2, <1>4, <1>5, <1>7, <1>8 DEF WholeRecords
  <1>10. r = [ver |-> n - 1, img |-> imgs[n]] BY <1>4 DEF RecordOf
  <1>11. latest' = [latest EXCEPT ![p] = r] /\ acked' = acked \cup {r}
    BY <1>9, <1>10 DEF AppendOk
  <1>12. /\ pc' = [pc EXCEPT ![p] = "usable"] /\ pos' = [pos EXCEPT ![p] = 0]
         /\ pending' = [pending EXCEPT ![p] = <<>>] /\ UNCHANGED <<cells, lock, bytes>>
    BY DEF AppendOk
  <1>13. n - 1 \in 0..MaxVersion BY <1>2, <1>5, JournalAssumption DEF WholeRecords
  <1>14. r \in Rec /\ r \in [ver : 0..MaxVersion, img : Image] BY <1>6, <1>10, <1>13 DEF Rec
  <1> HIDE DEF n, o, r
  <1>15. TypeOK' BY <1>2, <1>11, <1>12, <1>14 DEF TypeOK
  <1>16. pc'[p] = "usable" /\ pos'[p] = 0 /\ lock' = p /\ latest'[p] = r
    BY <1>4, <1>11, <1>12 DEF TypeOK
  <1>17. Handle(p, imgs, off)' BY <1>4, <1>12, <1>16 DEF Handle, n, o, r
  <1>18. \A q \in Proc : q # p => pc'[q] = pc[q] /\ pos'[q] = pos[q] BY <1>12 DEF TypeOK
  <1>19. \A q \in Proc : q # p => Handle(q, imgs, off)' BY <1>3, <1>18, Others
  <1>20. \A q \in Proc : Handle(q, imgs, off)' BY <1>17, <1>19
  <1>21. \A x \in acked' : \E v \in 1..Len(imgs) : x = RecordOf(imgs, v)
    BY <1>5, <1>11 DEF FileOf, n, r
  <1>22. Shape(cells, imgs, off)' BY <1>1, <1>12
  <1> QED BY <1>15, <1>20, <1>21, <1>22 DEF FileOf

LEMMA AppendFailsStep ==
  ASSUME TypeOK, NEW imgs, NEW off, FileOf(imgs, off), NEW p \in Proc, AppendFails(p)
  PROVE  TypeOK' /\ FileOf(imgs, off)'
  <1>0. <<>> \in Seq(Cell) /\ Len(cells) \in Nat BY DEF TypeOK
  <1>1. TypeOK' BY <1>0 DEF TypeOK, AppendFails, Unusable
  <1>2. Handle(p, imgs, off) BY DEF FileOf
  <1>3. pc'[p] = "failed" /\ lock' = p /\ pos'[p] = 0
    BY <1>2 DEF TypeOK, AppendFails, Unusable, Handle
  <1>4. Handle(p, imgs, off)' BY <1>3 DEF Handle
  <1>5. \A q \in Proc : q # p => pc'[q] = pc[q] /\ pos'[q] = pos[q]
    BY DEF TypeOK, AppendFails, Unusable
  <1> QED BY <1>1, <1>4, <1>5, FileSame DEF AppendFails

(* The next cell of a record that stays incomplete, or its last one. *)
LEMMA WriteCellStep ==
  ASSUME TypeOK, NEW imgs, NEW off, FileOf(imgs, off), NEW p \in Proc, WriteCell(p)
  PROVE  /\ TypeOK'
         /\ \/ FileOf(imgs, off)' /\ off[Len(imgs)] < Len(cells')
            \/ \E j \in Image : \E off2 :
                 /\ FileOf(Append(imgs, j), off2)'
                 /\ off2[Len(imgs) + 1] = Len(cells')
  <1> DEFINE n == Len(imgs)
             o == off[n]
             t == Len(cells) - o
             q0 == pending[p]
  <1>1. Shape(cells, imgs, off) /\ Handle(p, imgs, off) BY DEF FileOf
  <1>2. /\ n \in Nat /\ Len(cells) \in Nat /\ o \in Nat /\ o <= Len(cells)
        /\ WholeRecords(cells, imgs, off) /\ imgs \in Seq(Image) /\ cells \in Seq(Cell)
    BY <1>1, ShapeFacts
  <1>3. pc[p] = "write" /\ q0 # <<>> /\ q0 \in Seq(Cell) BY DEF WriteCell, TypeOK
  <1>4. lock = p /\ pos[p] = Len(cells) BY <1>1, <1>3 DEF Handle
  <1>5. PICK j \in Image : Part(cells, n, o, j) /\ Rest(q0, n, t, j)
    BY <1>1, <1>3 DEF Handle
  <1>6. RecordLen(j) \in Nat /\ RecordLen(j) >= 5 BY RecordLength
  <1>7. /\ t \in Nat /\ Len(q0) \in Nat /\ Len(q0) >= 1 /\ Len(q0) = RecordLen(j) - t
        /\ n \in 0..MaxVersion /\ t + 1 \in Nat /\ t + 1 <= RecordLen(j)
    <2>1. t \in Nat BY <1>2
    <2>2. Len(q0) \in Nat /\ Len(q0) >= 1 BY <1>3
    <2>3. Len(q0) = RecordLen(j) - t BY <1>5 DEF Rest
    <2>4. n \in 0..MaxVersion BY <1>2, <1>5, JournalAssumption DEF Part
    <2> HIDE DEF t, q0
    <2>5. t + 1 \in Nat /\ t + 1 <= RecordLen(j) BY <2>1, <2>2, <2>3, <1>6
    <2> QED BY <2>1, <2>2, <2>3, <2>4, <2>5
  <1>8. /\ \A i \in 1..t : cells[o + i] = [ver |-> n, img |-> j, at |-> i]
        /\ \A i \in 1..Len(q0) : q0[i] = [ver |-> n, img |-> j, at |-> t + i]
    BY <1>5 DEF Part, Rest
  <1>9. Head(q0) = q0[1] /\ q0[1] \in Cell /\ q0[1] = [ver |-> n, img |-> j, at |-> t + 1]
    BY <1>3, <1>7, <1>8
  <1>10. cells' = Append(cells, q0[1])
    BY <1>2, <1>4, <1>9 DEF WriteCell
  <1>11. /\ pos' = [pos EXCEPT ![p] = Len(cells) + 1] /\ pending' = [pending EXCEPT ![p] = Tail(q0)]
         /\ UNCHANGED <<lock, pc, bytes, latest, acked>>
    BY <1>4 DEF WriteCell, TypeOK
  <1>12. /\ cells' \in Seq(Cell) /\ Len(cells') = Len(cells) + 1
         /\ \A i \in 1..Len(cells) : cells'[i] = cells[i]
         /\ cells'[Len(cells) + 1] = q0[1]
    BY <1>2, <1>9, <1>10
  <1>13. /\ Tail(q0) \in Seq(Cell) /\ Len(Tail(q0)) = Len(q0) - 1
         /\ \A i \in 1..(Len(q0) - 1) : Tail(q0)[i] = q0[i + 1]
    BY <1>3, <1>7
  <1> HIDE DEF n, o, t, q0
  <1>14. /\ o + t = Len(cells) /\ Len(cells') - o = t + 1 /\ o < Len(cells')
         /\ o + (t + 1) = Len(cells) + 1
    BY <1>2, <1>12 DEF t
  <1>15. \A i \in 1..(t + 1) : cells'[o + i] = [ver |-> n, img |-> j, at |-> i]
    <2> SUFFICES ASSUME NEW i \in 1..(t + 1)
                 PROVE  cells'[o + i] = [ver |-> n, img |-> j, at |-> i]
      OBVIOUS
    <2>1. CASE i = t + 1 BY <2>1, <1>9, <1>12, <1>14
    <2>2. CASE i # t + 1
      <3>1. i \in 1..t /\ o + i \in 1..Len(cells) BY <2>2, <1>2, <1>7, <1>14
      <3> QED BY <3>1, <1>8, <1>12
    <2> QED BY <2>1, <2>2
  <1>16. TypeOK'
    <2>1. pos' \in [Proc -> 0..Len(cells')]
      <3>1. \A x \in 0..Len(cells) : x \in 0..Len(cells') BY <1>2, <1>12
      <3>2. Len(cells) + 1 \in 0..Len(cells') BY <1>2, <1>12
      <3> QED BY <1>11, <3>1, <3>2 DEF TypeOK
    <2> QED BY <1>11, <1>12, <1>13, <2>1 DEF TypeOK
  <1>17. /\ pc'[p] = "write" /\ lock' = p /\ pos'[p] = Len(cells') /\ pending'[p] = Tail(q0)
    BY <1>3, <1>4, <1>11, <1>12 DEF TypeOK
  <1>18. \A q \in Proc : q # p => pc'[q] = pc[q] /\ pos'[q] = pos[q] BY <1>11 DEF TypeOK
  <1>19. ASSUME NEW v \in 1..n, NEW i \in 1..RecordLen(imgs[v])
         PROVE  cells'[off[v - 1] + i] = [ver |-> v - 1, img |-> imgs[v], at |-> i]
    <2>1. off[v] \in Nat /\ off[v - 1] \in Nat /\ imgs[v] \in Image BY <1>2, Offsets DEF n
    <2>2. v \in 0..n BY <1>2
    <2>3. off[v] <= o BY <1>2, <2>2, Offsets DEF n, o
    <2>4. off[v] = off[v - 1] + RecordLen(imgs[v]) BY <1>2 DEF WholeRecords, n
    <2>5. RecordLen(imgs[v]) \in Nat BY <2>1, RecordLength
    <2>6. off[v - 1] + i \in 1..Len(cells) BY <1>2, <2>1, <2>3, <2>4, <2>5
    <2>7. cells[off[v - 1] + i] = [ver |-> v - 1, img |-> imgs[v], at |-> i]
      BY <1>2 DEF WholeRecords, n
    <2> QED BY <1>12, <2>6, <2>7
  <1>20. CASE Tail(q0) # <<>>
    <2>1. Len(q0) - 1 >= 1 /\ t + 1 < RecordLen(j)
      <3>1. Len(Tail(q0)) # 0 BY <1>13, <1>20
      <3>2. PICK m \in Nat, r \in Nat : m = Len(q0) /\ r = RecordLen(j) BY <1>6, <1>7
      <3>3. m - 1 # 0 /\ m >= 1 /\ m = r - t BY <1>7, <1>13, <3>1, <3>2
      <3>4. m - 1 >= 1 /\ t + 1 < r BY <1>7, <3>3
      <3> QED BY <3>2, <3>4
    <2>2. Part(cells', n, o, j) BY <1>7, <1>14, <1>15, <2>1 DEF Part
    <2>3. Rest(Tail(q0), n, t + 1, j)
      <3>1. Len(Tail(q0)) = RecordLen(j) - (t + 1) BY <1>6, <1>7, <1>13
      <3>2. ASSUME NEW i \in 1..Len(Tail(q0))
            PROVE  Tail(q0)[i] = [ver |-> n, img |-> j, at |-> (t + 1) + i]
        <4>1. i \in 1..(Len(q0) - 1) /\ i + 1 \in 1..Len(q0) /\ t + (i + 1) = (t + 1) + i
          BY <1>7, <1>13
        <4> QED BY <4>1, <1>8, <1>13
      <3> QED BY <3>1, <3>2 DEF Rest
    <2>4. WholeRecords(cells', imgs, off)
      <3>1. o <= Len(cells') BY <1>2, <1>12
      <3> QED BY <1>2, <1>12, <1>19, <3>1 DEF WholeRecords, n, o
    <2>5. Shape(cells', imgs, off) BY <2>2, <2>4 DEF Shape, n, o
    <2>6. Handle(p, imgs, off)' BY <1>14, <1>17, <1>20, <2>2, <2>3 DEF Handle, n, o
    <2>7. \A q \in Proc : q # p => Handle(q, imgs, off)' BY <1>3, <1>18, Others
    <2>8. \A q \in Proc : Handle(q, imgs, off)' BY <2>6, <2>7
    <2>9. \A r \in acked' : \E v \in 1..Len(imgs) : r = RecordOf(imgs, v) BY <1>11 DEF FileOf
    <2>10. FileOf(imgs, off)' BY <2>5, <2>8, <2>9 DEF FileOf
    <2> QED BY <1>14, <1>16, <2>10 DEF n, o
  <1>21. CASE Tail(q0) = <<>>
    <2>0. PICK imgs2, off2 :
            /\ imgs2 = Append(imgs, j)
            /\ off2 = [v \in 0..(n + 1) |-> IF v <= n THEN off[v] ELSE Len(cells) + 1]
      OBVIOUS
    <2>1. t + 1 = RecordLen(j)
      <3>0. Len(<<>>) = 0 OBVIOUS
      <3>1. Len(Tail(q0)) = 0 BY <1>21, <3>0
      <3>2. PICK m \in Nat, r \in Nat : m = Len(q0) /\ r = RecordLen(j) BY <1>6, <1>7
      <3>3. m - 1 = 0 /\ m = r - t BY <1>7, <1>13, <3>1, <3>2
      <3>4. t + 1 = r BY <1>7, <3>3
      <3> QED BY <3>2, <3>4
    <2>2. /\ imgs2 \in Seq(Image) /\ Len(imgs2) = n + 1 /\ imgs2[n + 1] = j
          /\ \A v \in 1..n : imgs2[v] = imgs[v]
      BY <1>2, <2>0 DEF n
    <2>3. /\ \A v \in 0..n : off2[v] = off[v] /\ off[v] \in Nat
          /\ off2[n + 1] = Len(cells) + 1
      <3>1. \A v \in 0..n : off[v] \in Nat BY <1>2, Offsets DEF n
      <3> QED BY <1>2, <2>0, <3>1
    <2>4. off2 \in [0..(n + 1) -> Nat]
      <3>1. \A v \in 0..(n + 1) : v <= n => v \in 0..n BY <1>2
      <3>2. ASSUME NEW v \in 0..(n + 1) PROVE off2[v] \in Nat
        <4>1. CASE v <= n BY <4>1, <2>3, <3>1
        <4>2. CASE ~(v <= n)
          <5>1. off2[v] = Len(cells) + 1 BY <2>0, <4>2
          <5> QED BY <5>1, <1>2
        <4> QED BY <4>1, <4>2
      <3>3. off2 = [v \in 0..(n + 1) |-> off2[v]] BY <2>0
      <3> QED BY <3>2, <3>3
    <2>5. ASSUME NEW v \in 1..(n + 1)
          PROVE  /\ off2[v] = off2[v - 1] + RecordLen(imgs2[v])
                 /\ \A i \in 1..RecordLen(imgs2[v]) :
                      cells'[off2[v - 1] + i] = [ver |-> v - 1, img |-> imgs2[v], at |-> i]
      <3>1. CASE v = n + 1
        <4>1. v - 1 = n /\ n \in 0..n BY <3>1, <1>2
        <4>2. off2[v - 1] = o /\ imgs2[v] = j /\ off2[v] = Len(cells) + 1
          BY <3>1, <4>1, <2>2, <2>3 DEF o
        <4>3. off2[v] = off2[v - 1] + RecordLen(imgs2[v]) BY <4>2, <2>1, <1>14
        <4>4. \A i \in 1..RecordLen(j) : cells'[o + i] = [ver |-> n, img |-> j, at |-> i]
          BY <1>15, <2>1
        <4> QED BY <4>1, <4>2, <4>3, <4>4
      <3>2. CASE v # n + 1
        <4>1. v \in 1..n /\ v \in 0..n /\ v - 1 \in 0..n BY <3>2, <1>2
        <4>2. off2[v] = off[v] /\ off2[v - 1] = off[v - 1] /\ imgs2[v] = imgs[v]
          BY <4>1, <2>2, <2>3
        <4>3. off[v] = off[v - 1] + RecordLen(imgs[v]) BY <4>1, <1>2 DEF WholeRecords, n
        <4> QED BY <4>1, <4>2, <4>3, <1>19
      <3> QED BY <3>1, <3>2
    <2>6. off2[0] = 0 /\ n + 1 <= MaxVersion + 1 /\ off2[n + 1] = Len(cells')
      <3>1. 0 \in 0..n BY <1>2
      <3>2. off[0] = 0 BY <1>2 DEF WholeRecords
      <3>3. n + 1 <= MaxVersion + 1 BY <1>7, JournalAssumption
      <3> QED BY <3>1, <3>2, <3>3, <2>3, <1>12
    <2>7. off2[n + 1] <= Len(cells') /\ ~(Len(cells') > off2[n + 1]) BY <2>6, <1>2, <1>12
    <2>8. WholeRecords(cells', imgs2, off2)
      BY <1>12, <2>2, <2>4, <2>5, <2>6, <2>7 DEF WholeRecords
    <2>9. Shape(cells', imgs2, off2) BY <2>2, <2>7, <2>8 DEF Shape
    <2>10. Handle(p, imgs2, off2)'
      <3>1. n + 1 # 0 BY <1>2
      <3> QED BY <1>17, <1>21, <2>2, <2>6, <3>1 DEF Handle
    <2>11. \A q \in Proc : q # p => Handle(q, imgs2, off2)' BY <1>3, <1>18, Others
    <2>12. \A q \in Proc : Handle(q, imgs2, off2)' BY <2>10, <2>11
    <2>13. \A r \in acked' : \E v \in 1..Len(imgs2) : r = RecordOf(imgs2, v)
      <3> SUFFICES ASSUME NEW r \in acked PROVE \E v \in 1..Len(imgs2) : r = RecordOf(imgs2, v)
        BY <1>11
      <3>1. PICK v \in 1..n : r = RecordOf(imgs, v) BY DEF FileOf, n
      <3>2. v \in 1..Len(imgs2) BY <1>2, <2>2
      <3>3. RecordOf(imgs2, v) = RecordOf(imgs, v) BY <2>2 DEF RecordOf
      <3> QED BY <3>1, <3>2, <3>3
    <2>14. FileOf(imgs2, off2)' BY <2>9, <2>12, <2>13 DEF FileOf
    <2> QED BY <1>16, <2>0, <2>6, <2>14 DEF n
  <1> QED BY <1>20, <1>21
-----------------------------------------------------------------------------
(* The theorems.                                                           *)

(* The empty file. *)
LEMMA InitFile ==
  ASSUME Init
  PROVE  TypeOK /\ FileOf(<<>>, [v \in 0..0 |-> 0])
  <1> DEFINE o0 == [v \in 0..0 |-> 0]
  <1>0. /\ NoRecord \in Rec /\ Len(cells) = 0 /\ <<>> \in Seq(Cell) /\ <<>> \in Seq(Image)
        /\ Len(<<>>) = 0 /\ cells = <<>>
    BY JournalAssumption DEF Init, NoRecord, Rec
  <1>1. TypeOK BY <1>0 DEF Init, TypeOK
  <1>2. o0 \in [0..0 -> Nat] /\ o0[0] = 0 /\ 1..0 = {} OBVIOUS
  <1>3. WholeRecords(cells, <<>>, o0) BY <1>0, <1>2, JournalAssumption DEF WholeRecords
  <1>4. Shape(cells, <<>>, o0) BY <1>0, <1>2, <1>3 DEF Shape
  <1>5. \A p \in Proc : Handle(p, <<>>, o0) BY DEF Init, Handle
  <1>6. FileOf(<<>>, o0) BY <1>4, <1>5 DEF Init, FileOf
  <1> QED BY <1>1, <1>6

(* What a step does to the records in the file: nothing, or it begins or   *)
(* continues a record, completes one, or cuts the torn one off.            *)
Recorded(imgs, off) ==
  \/ FileOf(imgs, off)' /\ cells' = cells
  \/ FileOf(imgs, off)' /\ Len(imgs) # 0 /\ Len(cells') = off[Len(imgs)]
  \/ FileOf(imgs, off)' /\ off[Len(imgs)] < Len(cells')
  \/ \E j \in Image : \E off2 : FileOf(Append(imgs, j), off2)' /\ off2[Len(imgs) + 1] = Len(cells')

LEMMA StepRecorded ==
  ASSUME TypeOK, NEW imgs, NEW off, FileOf(imgs, off), [Next]_vars
  PROVE  TypeOK' /\ Recorded(imgs, off)
  <1>1. CASE UNCHANGED vars
    <2>1. TypeOK' BY <1>1 DEF TypeOK, vars
    <2>2. \A p \in Proc : Handle(p, imgs, off)'
      <3> SUFFICES ASSUME NEW p \in Proc PROVE Handle(p, imgs, off)'
        OBVIOUS
      <3>1. Handle(p, imgs, off) BY DEF FileOf
      <3> QED BY <1>1, <3>1 DEF Handle, vars
    <2>3. Shape(cells, imgs, off)' BY <1>1 DEF FileOf, vars
    <2>4. FileOf(imgs, off)' BY <1>1, <2>2, <2>3 DEF FileOf, vars
    <2> QED BY <1>1, <2>1, <2>4 DEF Recorded, vars
  <1>2. ASSUME NEW p \in Proc, OpenLock(p) PROVE TypeOK' /\ Recorded(imgs, off)
    BY <1>2, OpenLockStep DEF Recorded, OpenLock
  <1>3. ASSUME NEW p \in Proc, OpenRead(p) PROVE TypeOK' /\ Recorded(imgs, off)
    BY <1>3, OpenReadStep DEF Recorded, OpenRead
  <1>4. ASSUME NEW p \in Proc, OpenRefused(p) PROVE TypeOK' /\ Recorded(imgs, off)
    BY <1>4, GoneStep DEF Recorded, OpenRefused
  <1>5. ASSUME NEW p \in Proc, OpenScan(p) PROVE TypeOK' /\ Recorded(imgs, off)
    BY <1>5, OpenScanStep DEF Recorded, OpenScan
  <1>6. ASSUME NEW p \in Proc, OpenCut(p) PROVE TypeOK' /\ Recorded(imgs, off)
    BY <1>6, OpenCutStep DEF Recorded
  <1>7. ASSUME NEW p \in Proc, NEW j \in Image, AppendStart(p, j)
        PROVE  TypeOK' /\ Recorded(imgs, off)
    BY <1>7, AppendStartStep DEF Recorded, AppendStart
  <1>8. ASSUME NEW p \in Proc, WriteCell(p) PROVE TypeOK' /\ Recorded(imgs, off)
    BY <1>8, WriteCellStep DEF Recorded
  <1>9. ASSUME NEW p \in Proc, AppendOk(p) PROVE TypeOK' /\ Recorded(imgs, off)
    BY <1>9, AppendOkStep DEF Recorded, AppendOk
  <1>10. ASSUME NEW p \in Proc, AppendFails(p) PROVE TypeOK' /\ Recorded(imgs, off)
    BY <1>10, AppendFailsStep DEF Recorded, AppendFails
  <1>11. ASSUME NEW p \in Proc, Close(p) PROVE TypeOK' /\ Recorded(imgs, off)
    BY <1>11, GoneStep DEF Recorded, Close
  <1> QED BY <1>1, <1>2, <1>3, <1>4, <1>5, <1>6, <1>7, <1>8, <1>9, <1>10, <1>11 DEF Next

(* The inductive invariant, of which the other theorems are consequences. *)
THEOREM Inductive == Spec => []IInv
  <1>1. Init => IInv BY InitFile DEF IInv
  <1>2. IInv /\ [Next]_vars => IInv'
    <2> SUFFICES ASSUME IInv, [Next]_vars PROVE IInv'
      OBVIOUS
    <2>1. PICK imgs, off : FileOf(imgs, off) BY DEF IInv
    <2>2. TypeOK' /\ Recorded(imgs, off) BY <2>1, StepRecorded DEF IInv
    <2>3. \E i2, o2 : FileOf(i2, o2)' BY <2>2 DEF Recorded
    <2> QED BY <2>2, <2>3 DEF IInv
  <1> QED BY <1>1, <1>2, PTL DEF Spec

(* Every variable has its type, and the file has no foreign cells. *)
THEOREM TypeCorrect == Spec => []TypeOK
  <1>1. IInv => TypeOK BY DEF IInv
  <1> QED BY <1>1, Inductive, PTL

(* No partial write, failed append, process death or reopen leaves a file  *)
(* that open rejects as corrupt.                                           *)
THEOREM FileNeverCorrupt == Spec => []NeverCorrupt
  <1>1. IInv => NeverCorrupt
    <2> SUFFICES ASSUME NEW imgs, NEW off, FileOf(imgs, off) PROVE NeverCorrupt
      BY DEF IInv
    <2> QED BY ScanOf DEF FileOf, NeverCorrupt
  <1> QED BY <1>1, Inductive, PTL

(* A record that append acknowledged, or that open returned, is complete   *)
(* in the file for ever after.                                             *)
THEOREM AcknowledgedSurvives == Spec => []AckedSurvive
  <1>1. IInv => AckedSurvive
    <2> SUFFICES ASSUME IInv, NEW r \in acked
                 PROVE  \E cur \in 0..Len(cells) :
                          /\ Len(cells) - cur >= Len(record(r.ver, r.img))
                          /\ \A i \in DOMAIN record(r.ver, r.img) :
                               cells[cur + i] = record(r.ver, r.img)[i]
      BY DEF AckedSurvive
    <2>1. PICK imgs, off : FileOf(imgs, off) BY DEF IInv
    <2> DEFINE n == Len(imgs)
    <2>2. Shape(cells, imgs, off) BY <2>1 DEF FileOf
    <2>3. /\ WholeRecords(cells, imgs, off) /\ n \in Nat /\ Len(cells) \in Nat
          /\ off[n] \in Nat /\ off[n] <= Len(cells)
      BY <2>2, ShapeFacts
    <2>4. PICK v \in 1..n : r = RecordOf(imgs, v) BY <2>1 DEF FileOf
    <2>5. v # 0 /\ v \in 0..n BY <2>3
    <2>6. r.ver = v - 1 /\ r.img = imgs[v] BY <2>4, <2>5 DEF RecordOf
    <2>7. imgs[v] \in Image /\ off[v] \in Nat /\ off[v - 1] \in Nat /\ off[v] <= off[n]
      BY <2>3, <2>5, Offsets
    <2>8. v - 1 \in 0..MaxVersion BY <2>3, JournalAssumption DEF WholeRecords
    <2>9. RecordLen(imgs[v]) \in Nat BY <2>7, RecordLength
    <2>10. off[v] = off[v - 1] + RecordLen(imgs[v]) BY <2>3 DEF WholeRecords
    <2>11. /\ Len(record(r.ver, r.img)) = RecordLen(imgs[v])
           /\ DOMAIN record(r.ver, r.img) = 1..RecordLen(imgs[v])
           /\ \A i \in 1..RecordLen(imgs[v]) :
                record(r.ver, r.img)[i] = [ver |-> v - 1, img |-> imgs[v], at |-> i]
      <3>1. record(r.ver, r.img) = record(v - 1, imgs[v]) BY <2>6
      <3>2. DOMAIN record(v - 1, imgs[v]) = 1..RecordLen(imgs[v]) BY DEF record
      <3> QED BY <2>7, <2>8, <3>1, <3>2, RecordCells
    <2>12. \A i \in 1..RecordLen(imgs[v]) :
             cells[off[v - 1] + i] = [ver |-> v - 1, img |-> imgs[v], at |-> i]
      BY <2>3 DEF WholeRecords
    <2>13. off[v - 1] \in 0..Len(cells) /\ Len(cells) - off[v - 1] >= RecordLen(imgs[v])
      BY <2>3, <2>7, <2>9, <2>10
    <2>14. \A i \in DOMAIN record(r.ver, r.img) :
             cells[off[v - 1] + i] = record(r.ver, r.img)[i]
      BY <2>11, <2>12
    <2>15. Len(cells) - off[v - 1] >= Len(record(r.ver, r.img)) BY <2>11, <2>13
    <2> HIDE DEF n
    <2> QED BY <2>13, <2>14, <2>15
  <1> QED BY <1>1, Inductive, PTL

(* A handle that can append works on the whole file: the file ends with    *)
(* the record that the handle takes for the latest.                        *)
THEOREM HandlesAreCurrent == Spec => []HandleIsCurrent
  <1>1. IInv => HandleIsCurrent
    <2> SUFFICES ASSUME NEW imgs, NEW off, FileOf(imgs, off), NEW p \in Proc, pc[p] = "usable"
                 PROVE  Scan(cells) = [error |-> FALSE, cursor |-> Len(cells), last |-> latest[p]]
      BY DEF IInv, HandleIsCurrent
    <2>1. Handle(p, imgs, off) /\ Shape(cells, imgs, off) BY DEF FileOf
    <2>2. off[Len(imgs)] = Len(cells) /\ latest[p] = RecordOf(imgs, Len(imgs)) BY <2>1 DEF Handle
    <2> QED BY <2>1, <2>2, ScanOf
  <1> QED BY <1>1, Inductive, PTL

(* The cells of the file implement the log of records that the transaction *)
(* manager uses: a step completes one record, tears the end, cuts it off,  *)
(* or is not seen.                                                         *)
THEOREM JournalImplementsRecordLog == Spec => ImplementsRecordLog
  <1>1. Init => Log!Init
    <2> SUFFICES ASSUME Init PROVE Log!Init
      OBVIOUS
    <2> DEFINE o0 == [v \in 0..0 |-> 0]
    <2>1. Len(cells) = 0 /\ Len(<<>>) = 0 BY DEF Init
    <2>2. o0[0] = 0 OBVIOUS
    <2>4. Shape(cells, <<>>, o0) BY InitFile DEF FileOf
    <2>5. CompleteRecords = <<>> /\ ~TornTail BY <2>1, <2>2, <2>4, Contents
    <2>6. TornTail = FALSE BY <2>5 DEF TornTail
    <2> QED BY <2>5, <2>6 DEF Log!Init
  <1>2. IInv /\ [Next]_vars
        => [Log!Tear \/ Log!Complete \/ Log!Cut]_<<CompleteRecords, TornTail>>
    <2> SUFFICES ASSUME IInv, [Next]_vars
                 PROVE  \/ Log!Tear \/ Log!Complete \/ Log!Cut
                        \/ UNCHANGED <<CompleteRecords, TornTail>>
      OBVIOUS
    <2>1. PICK imgs, off : FileOf(imgs, off) BY DEF IInv
    <2>2. TypeOK' /\ Recorded(imgs, off) BY <2>1, StepRecorded DEF IInv
    <2>3. Shape(cells, imgs, off) BY <2>1 DEF FileOf
    <2>4. Len(imgs) \in Nat /\ off[Len(imgs)] \in Nat /\ imgs \in Seq(Image) BY <2>3, ShapeFacts
    <2>5. CompleteRecords = imgs BY <2>3, Contents
    <2>6. ASSUME NEW i2, NEW o2, FileOf(i2, o2)'
          PROVE  /\ CompleteRecords' = i2
                 /\ o2[Len(i2)] < Len(cells') => TornTail' = TRUE
                 /\ ~(o2[Len(i2)] < Len(cells')) => TornTail' = FALSE
      <3>1. Shape(cells', i2, o2) BY <2>6 DEF FileOf
      <3>2. CompleteRecords' = i2 BY <3>1, ImagesOf DEF CompleteRecords
      <3>3. Scan(cells').cursor = o2[Len(i2)] BY <3>1, ScanOf
      <3>4. o2[Len(i2)] < Len(cells') => TornTail' = TRUE BY <3>3 DEF TornTail
      <3>5. ~(o2[Len(i2)] < Len(cells')) => TornTail' = FALSE BY <3>3 DEF TornTail
      <3> QED BY <3>2, <3>4, <3>5
    <2>7. CASE FileOf(imgs, off)' /\ cells' = cells
      <3>1. CompleteRecords' = CompleteRecords BY <2>5, <2>6, <2>7
      <3>2. TornTail' = TornTail BY <2>7 DEF TornTail
      <3> QED BY <3>1, <3>2
    <2>8. CASE FileOf(imgs, off)' /\ Len(imgs) # 0 /\ Len(cells') = off[Len(imgs)]
      <3>1. CompleteRecords' = CompleteRecords BY <2>5, <2>6, <2>8
      <3>2. ~(off[Len(imgs)] < Len(cells')) BY <2>4, <2>8
      <3>3. TornTail' = FALSE BY <2>6, <2>8, <3>2
      <3>4. CompleteRecords # <<>> BY <2>4, <2>5, <2>8
      <3> QED BY <3>1, <3>3, <3>4 DEF Log!Cut
    <2>9. CASE FileOf(imgs, off)' /\ off[Len(imgs)] < Len(cells')
      <3>1. CompleteRecords' = CompleteRecords BY <2>5, <2>6, <2>9
      <3>2. TornTail' = TRUE BY <2>6, <2>9
      <3> QED BY <3>1, <3>2 DEF Log!Tear
    <2>10. ASSUME NEW j \in Image, NEW off2, FileOf(Append(imgs, j), off2)',
                  off2[Len(imgs) + 1] = Len(cells')
           PROVE  Log!Complete
      <3>1. CompleteRecords' = Append(CompleteRecords, j) BY <2>5, <2>6, <2>10
      <3>2. Len(Append(imgs, j)) = Len(imgs) + 1 BY <2>4
      <3>3. Len(cells') \in Nat BY <2>2 DEF TypeOK
      <3>4. ~(off2[Len(imgs) + 1] < Len(cells')) BY <2>10, <3>3
      <3>5. TornTail' = FALSE BY <2>6, <2>10, <3>2, <3>4
      <3> QED BY <3>1, <3>5 DEF Log!Complete
    <2> QED BY <2>2, <2>7, <2>8, <2>9, <2>10 DEF Recorded
  <1> QED BY <1>1, <1>2, Inductive, PTL DEF Spec, ImplementsRecordLog, Log!Spec
=============================================================================
