------------------------------ MODULE Journal -------------------------------
(***************************************************************************)
(* The journal file of new_on_disk at the grain of the writes that reach   *)
(* it: a record is a header, a payload and a commit marker, a write may    *)
(* stop after any part of it, and several processes may try to open the    *)
(* file.  A cell stands for the bytes of a part of a record; which record  *)
(* it was written for is what magic numbers, lengths and checksums tell.   *)
(***************************************************************************)
EXTENDS Naturals, Sequences, SequencesExt

CONSTANTS
  Proc,        \* processes that may open the journal
  NoProc,      \* nobody holds the file lock
  Image,       \* database images
  None,        \* no image
  Size,        \* the number of payload cells of an image
  MaxVersion   \* bound on the versions that are appended

HEADER == 2    \* cells of a record header
COMMIT == 2    \* cells of a commit marker

ASSUME JournalAssumption ==
  /\ NoProc \notin Proc /\ None \notin Image
  /\ Size \in [Image -> Nat \ {0}]
  /\ MaxVersion \in Nat

VARIABLES
  cells,   \* the file
  lock,    \* the holder of the advisory file lock
  pc,      \* where each process is in open and append
  bytes,   \* what read_to_end returned
  latest,  \* the version and the image a handle takes for the last one
  pending, \* the cells that write_all has yet to write
  pos,     \* the file position of write_all
  acked    \* history: the records acknowledged, or shown by a later open

vars == <<cells, lock, pc, bytes, latest, pending, pos, acked>>

NoRecord == [ver |-> 0, img |-> None]

(* The record of a version: its header, its payload and its marker. *)
RecordLen(img) == HEADER + Size[img] + COMMIT

record(ver, img) ==
  [i \in 1..RecordLen(img) |-> [ver |-> ver, img |-> img, at |-> i]]

Cell == UNION {Range(record(v, i)) : v \in 0..MaxVersion, i \in Image}

(* What open can take for the latest record. *)
Rec == [ver : 0..MaxVersion, img : Image \cup {None}]

(* Every variable has its type, the file has no foreign cells, and no      *)
(* write begins behind its end.                                            *)
TypeOK ==
  /\ cells \in Seq(Cell)
  /\ lock \in Proc \cup {NoProc}
  /\ pc \in [Proc -> {"closed", "locked", "scan", "cut", "usable", "write", "failed"}]
  /\ latest \in [Proc -> Rec]
  /\ bytes \in [Proc -> Seq(Cell)] /\ pending \in [Proc -> Seq(Cell)]
  /\ acked \subseteq [ver : 0..MaxVersion, img : Image]
  /\ pos \in [Proc -> 0..Len(cells)]

Init ==
  /\ cells = <<>> /\ lock = NoProc
  /\ pc = [p \in Proc |-> "closed"]
  /\ bytes = [p \in Proc |-> <<>>] /\ latest = [p \in Proc |-> NoRecord]
  /\ pending = [p \in Proc |-> <<>>] /\ pos = [p \in Proc |-> 0]
  /\ acked = {}
-----------------------------------------------------------------------------
(* The scan of open.  Its result is an error, or the cursor behind the     *)
(* last complete record and that record.                                   *)

Corrupt == [error |-> TRUE, cursor |-> 0, last |-> NoRecord]

(* The header at the cursor is one header, written whole. *)
HeaderOK(b, cur) ==
  /\ b[cur + 1].at = 1
  /\ b[cur + 2] = [b[cur + 1] EXCEPT !.at = 2]

(* Payload and marker behind the header are the ones it announces. *)
BodyOK(b, cur) ==
  \A i \in 1..RecordLen(b[cur + 1].img) :
    b[cur + i] = [b[cur + 1] EXCEPT !.at = i]

(* The file has all the cells that the header announces. *)
Complete(b, cur) == Len(b) - cur >= RecordLen(b[cur + 1].img)

Expected(last) == IF last.img = None THEN 0 ELSE last.ver + 1

Scan(b) ==
  LET Loop == [cursor : 0..Len(b), last : Rec]
      from[s \in Loop] ==
        LET found == [error |-> FALSE, cursor |-> s.cursor, last |-> s.last]
            c     == b[s.cursor + 1]
        IN  IF Len(b) - s.cursor < HEADER THEN found
            ELSE IF ~HeaderOK(b, s.cursor) THEN Corrupt
            ELSE IF ~Complete(b, s.cursor) THEN found
            ELSE IF ~BodyOK(b, s.cursor) \/ c.ver # Expected(s.last) THEN Corrupt
            ELSE from[[cursor |-> s.cursor + RecordLen(c.img),
                       last   |-> [ver |-> c.ver, img |-> c.img]]]
  IN from[[cursor |-> 0, last |-> NoRecord]]
-----------------------------------------------------------------------------
(* open.                                                                   *)

(* A mutant of TryLock: open does not ask for the file lock. *)
NoTryLock(p) == lock' = IF lock = NoProc THEN p ELSE lock
TryLock(p) == lock = NoProc /\ lock' = p

OpenLock(p) ==
  /\ pc[p] = "closed" /\ TryLock(p)
  /\ pc' = [pc EXCEPT ![p] = "locked"]
  /\ UNCHANGED <<cells, bytes, latest, pending, pos, acked>>

OpenRead(p) ==
  /\ pc[p] = "locked"
  /\ bytes' = [bytes EXCEPT ![p] = cells]
  /\ pc' = [pc EXCEPT ![p] = "scan"]
  /\ UNCHANGED <<cells, lock, latest, pending, pos, acked>>

(* The handle is gone, by an error, a drop or the death of the process;    *)
(* the system releases the lock.                                           *)
Gone(p) ==
  /\ lock' = IF lock = p THEN NoProc ELSE lock
  /\ pc' = [pc EXCEPT ![p] = "closed"]
  /\ bytes' = [bytes EXCEPT ![p] = <<>>]
  /\ latest' = [latest EXCEPT ![p] = NoRecord]
  /\ pending' = [pending EXCEPT ![p] = <<>>]
  /\ pos' = [pos EXCEPT ![p] = 0]

(* The scan of the bytes is refused: a corrupt record, or bytes without a  *)
(* complete record.                                                        *)
OpenRefused(p) ==
  /\ pc[p] = "scan"
  /\ Scan(bytes[p]).error \/ (bytes[p] # <<>> /\ Scan(bytes[p]).last = NoRecord)
  /\ Gone(p) /\ UNCHANGED <<cells, acked>>

OpenScan(p) ==
  /\ pc[p] = "scan"
  /\ ~Scan(bytes[p]).error /\ (bytes[p] = <<>> \/ Scan(bytes[p]).last # NoRecord)
  /\ latest' = [latest EXCEPT ![p] = Scan(bytes[p]).last]
  /\ pc' = [pc EXCEPT ![p] =
              IF Scan(bytes[p]).cursor < Len(bytes[p]) THEN "cut" ELSE "usable"]
  /\ acked' = acked \cup ({Scan(bytes[p]).last} \ {NoRecord})
  /\ UNCHANGED <<cells, lock, bytes, pending, pos>>

(* A mutant of CutTo: the tail is left in the file. *)
TailKept(p) == cells
CutTo(p) == SubSeq(cells, 1, Scan(bytes[p]).cursor)

OpenCut(p) ==
  /\ pc[p] = "cut"
  /\ cells' = CutTo(p)
  /\ pc' = [pc EXCEPT ![p] = "usable"]
  /\ UNCHANGED <<lock, bytes, latest, pending, pos, acked>>
-----------------------------------------------------------------------------
(* append: by new_on_disk for version 0, by commit for the next version.   *)

AppendStart(p, img) ==
  /\ pc[p] = "usable" /\ Expected(latest[p]) <= MaxVersion
  /\ pending' = [pending EXCEPT ![p] = record(Expected(latest[p]), img)]
  /\ pos' = [pos EXCEPT ![p] = Len(cells)]
  /\ pc' = [pc EXCEPT ![p] = "write"]
  /\ UNCHANGED <<cells, lock, bytes, latest, acked>>

WriteCell(p) ==
  /\ pc[p] = "write" /\ pending[p] # <<>>
  /\ cells' = IF pos[p] < Len(cells)
              THEN [cells EXCEPT ![pos[p] + 1] = Head(pending[p])]
              ELSE Append(cells, Head(pending[p]))
  /\ pos' = [pos EXCEPT ![p] = @ + 1]
  /\ pending' = [pending EXCEPT ![p] = Tail(@)]
  /\ UNCHANGED <<lock, pc, bytes, latest, acked>>

(* A mutant of Written: a short write is taken for a whole one. *)
ShortWriteAccepted(p) == Len(pending[p]) <= 1
Written(p) == pending[p] = <<>>

(* sync_all succeeds: append returns Ok and the version is acknowledged. *)
AppendOk(p) ==
  /\ pc[p] = "write" /\ Written(p)
  /\ LET c == cells[pos[p]]
         r == [ver |-> c.ver, img |-> c.img]
     IN  latest' = [latest EXCEPT ![p] = r] /\ acked' = acked \cup {r}
  /\ pc' = [pc EXCEPT ![p] = "usable"]
  /\ pos' = [pos EXCEPT ![p] = 0] /\ pending' = [pending EXCEPT ![p] = <<>>]
  /\ UNCHANGED <<cells, lock, bytes>>

(* A mutant of Unusable: the handle stays in use after a failed write. *)
StillUsable(p) == pc' = [pc EXCEPT ![p] = "usable"]
Unusable(p) == pc' = [pc EXCEPT ![p] = "failed"]

(* seek, write_all or sync_all fails: append fails for good. *)
AppendFails(p) ==
  /\ pc[p] = "write"
  /\ Unusable(p)
  /\ pending' = [pending EXCEPT ![p] = <<>>] /\ pos' = [pos EXCEPT ![p] = 0]
  /\ UNCHANGED <<cells, lock, bytes, latest, acked>>

(* The process ends, or drops the manager, or an I/O error ends open. *)
Close(p) == pc[p] # "closed" /\ Gone(p) /\ UNCHANGED <<cells, acked>>
-----------------------------------------------------------------------------
Next ==
  \E p \in Proc :
    \/ OpenLock(p) \/ OpenRead(p) \/ OpenRefused(p) \/ OpenScan(p) \/ OpenCut(p)
    \/ (\E img \in Image : AppendStart(p, img))
    \/ WriteCell(p) \/ AppendOk(p) \/ AppendFails(p) \/ Close(p)

Spec == Init /\ [][Next]_vars
-----------------------------------------------------------------------------
(* Correctness.                                                            *)

(* No sequence of appends, failed appends, process deaths and reopens      *)
(* produces a file that open rejects as corrupt: a torn record is the last *)
(* thing in the file, and versions have no gap.                            *)
NeverCorrupt == ~Scan(cells).error

(* A record whose append returned Ok, or that a reopened handle has shown, *)
(* is complete in the file for ever after.                                 *)
AckedSurvive ==
  \A r \in acked : \E cur \in 0..Len(cells) :
    /\ Len(cells) - cur >= Len(record(r.ver, r.img))
    /\ \A i \in DOMAIN record(r.ver, r.img) : cells[cur + i] = record(r.ver, r.img)[i]

(* A handle that can append works on the whole file: the file ends with    *)
(* the record that the handle takes for the latest, nothing behind it.     *)
HandleIsCurrent ==
  \A p \in Proc : pc[p] = "usable" =>
    Scan(cells) = [error |-> FALSE, cursor |-> Len(cells), last |-> latest[p]]

(* The file as the transaction manager sees it: the images of the versions *)
(* that a scan accepts, and whether there is something behind them.        *)
CompleteRecords ==
  [v \in 1..Expected(Scan(cells).last) |->
     (CHOOSE c \in Range(cells) : c.ver = v - 1).img]
TornTail == Scan(cells).cursor < Len(cells)

(* The cells of the file implement the records that TransactionManager     *)
(* uses, through every partial write, failure and repair.                  *)
Log == INSTANCE RecordLog WITH recs <- CompleteRecords, torn <- TornTail
ImplementsRecordLog == Log!Spec
=============================================================================
