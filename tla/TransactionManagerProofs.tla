---------------------- MODULE TransactionManagerProofs ----------------------
(***************************************************************************)
(* The safety properties of TransactionManager, for any set of clients,    *)
(* any database and any bound on ids and versions.                         *)
(***************************************************************************)
EXTENDS TransactionManager, TLAPS

(* When no process holds the manager there is no volatile state; only a    *)
(* durable manager can be down or have an unusable journal.                *)
VolatileState ==
  /\ ~Durable => up /\ ~failed
  /\ ~up =>
       /\ database = Fresh /\ version = 0 /\ nextId = 1
       /\ readers = {} /\ writer = NoTx /\ ~failed
       /\ \A c \in Client : status[c] = "none"

(* A live transaction has an id that was handed out once. *)
IdsUnique ==
  /\ \A c \in Client : Live(c) => id[c] \in 1..(nextId - 1)
  /\ \A c, d \in Client : Live(c) /\ Live(d) /\ id[c] = id[d] => c = d

(* A workspace is the snapshot of its base version with its own writes. *)
Workspaces ==
  \A c \in Client : Live(c) =>
    /\ ws[c] = Overlay(snap[c], writes[c])
    /\ base[c] <= version
    /\ base[c] = version => snap[c] = database

(* The versions in the journal are within u64. *)
JournalBounded == Len(recs) <= MaxU64 + 1

IInv ==
  /\ TypeOK /\ VolatileState /\ IdsUnique
  /\ LockTableExact /\ SerializableSeesLatest
  /\ Workspaces /\ JournalBounded
  /\ AckedSurvive /\ UsableJournalIsClean
-----------------------------------------------------------------------------
(* The constants of the model have their types. *)
LEMMA ConstantsType ==
  /\ Fresh \in Image /\ NoWrites \in [Key -> Value \cup {NoWrite}]
  /\ MaxU64 \in Nat /\ 0 \in 0..MaxU64 /\ 1 \in 1..MaxU64
  BY ConstantsAssumption DEF Fresh, Image, NoWrites

(* What appending one record does to a journal. *)
LEMMA AppendFacts ==
  ASSUME NEW S, NEW s \in Seq(S), NEW e \in S
  PROVE  /\ Append(s, e) \in Seq(S) /\ Len(Append(s, e)) = Len(s) + 1
         /\ Append(s, e)[Len(s) + 1] = e
         /\ \A i \in 1..Len(s) : Append(s, e)[i] = s[i]
         /\ Append(s, e) # <<>>
  OBVIOUS

(* A record that was not reported as written leaves the journal as it was, *)
(* or one record longer.                                                   *)
LEMMA InterruptedFacts ==
  ASSUME recs \in Seq(Image), torn \in BOOLEAN, NEW img \in Image, Interrupted(img)
  PROVE  /\ recs' \in Seq(Image) /\ torn' \in BOOLEAN
         /\ Len(recs') \in Nat /\ Len(recs) <= Len(recs') /\ Len(recs') <= Len(recs) + 1
         /\ \A j \in 1..Len(recs) : recs'[j] = recs[j]
  <1>1. CASE recs' = recs /\ torn' \in {torn, TRUE}
    <2>1. torn' \in BOOLEAN BY <1>1, Zenon
    <2> QED BY <1>1, <2>1
  <1>2. CASE recs' = Append(recs, img) /\ torn' = torn BY <1>2, AppendFacts
  <1> QED BY <1>1, <1>2 DEF Interrupted

(* An append that did not report success keeps every acknowledged record. *)
LEMMA InterruptedKeepsAcked ==
  ASSUME ManagerTypeOK, AckedSurvive, NEW img \in Image, Interrupted(img), acked' = acked
  PROVE  AckedSurvive'
  <1>1. /\ Len(recs') \in Nat /\ Len(recs) <= Len(recs')
        /\ \A j \in 1..Len(recs) : recs'[j] = recs[j]
    BY InterruptedFacts DEF ManagerTypeOK
  <1> QED BY <1>1 DEF AckedSurvive, ManagerTypeOK

(* A transaction that wrote nothing has the image of its snapshot. *)
LEMMA OverlayNothing ==
  ASSUME NEW img \in Image
  PROVE  Overlay(img, NoWrites) = img
  BY DEF Overlay, NoWrites, Image

(* LockManager::release leaves a well-typed lock table. *)
LEMMA ReleaseType ==
  ASSUME TypeOK, NEW c \in Client, Release(id[c])
  PROVE  readers' \subseteq 1..MaxU64 /\ writer' \in 0..MaxU64
  BY ConstantsType DEF TypeOK, ManagerTypeOK, Release, NoTx

(* The end of a transaction leaves well-typed transactions. *)
LEMMA EndType ==
  ASSUME TypeOK, NEW c \in Client, End(c)
  PROVE  TxnTypeOK'
  <1> USE ConstantsType DEF TypeOK, TxnTypeOK, End, NoTx
  <1>1. status' \in [Client -> {"none", "active", "aborting"}] OBVIOUS
  <1>2. id' \in [Client -> 0..MaxU64] OBVIOUS
  <1>3. iso' \in [Client -> Isolation] BY DEF Isolation
  <1>4. base' \in [Client -> 0..MaxU64] OBVIOUS
  <1>5. dirty' \in [Client -> BOOLEAN] OBVIOUS
  <1>6. ws' \in [Client -> Image] /\ snap' \in [Client -> Image] OBVIOUS
  <1>7. writes' \in [Client -> [Key -> Value \cup {NoWrite}]] OBVIOUS
  <1> QED BY <1>1, <1>2, <1>3, <1>4, <1>5, <1>6, <1>7

(* So does the end of the process. *)
LEMMA DownType ==
  ASSUME Down
  PROVE  /\ TxnTypeOK' /\ database' \in Image
         /\ version' \in 0..MaxU64 /\ nextId' \in 1..MaxU64
         /\ readers' = {} /\ writer' \in 0..MaxU64
         /\ up' \in BOOLEAN /\ failed' \in BOOLEAN
  BY ConstantsType DEF Down, TxnTypeOK, NoTx, Isolation
-----------------------------------------------------------------------------
(* begin_with_isolation: every outcome preserves the invariant. *)
LEMMA BeginStep ==
  ASSUME IInv, NEW c \in Client, Begin(c)
  PROVE  IInv'
  <1> USE ConstantsType, ConstantsAssumption
          DEF IInv, TypeOK, ManagerTypeOK, TxnTypeOK, Live, NoTx, manager, locks, file,
             txn
  <1>1. CASE BeginRefused(c)
    BY <1>1 DEF BeginRefused, vars, VolatileState, IdsUnique, LockTableExact,
           SerializableSeesLatest, Workspaces, JournalBounded, AckedSurvive,
           UsableJournalIsClean, Reader
  <1>2. CASE BeginLocked(c)
    <2>1. ManagerTypeOK'
      BY <1>2 DEF BeginLocked, MayBegin
    <2>2. TxnTypeOK'
      BY <1>2 DEF BeginLocked
    <2>3. VolatileState'
      BY <1>2 DEF BeginLocked, MayBegin, VolatileState
    <2>4. IdsUnique'
      BY <1>2 DEF BeginLocked, IdsUnique
    <2>5. LockTableExact'
      BY <1>2 DEF BeginLocked, LockTableExact, Reader
    <2>6. SerializableSeesLatest'
      BY <1>2 DEF BeginLocked, SerializableSeesLatest, Reader
    <2>7. Workspaces'
      BY <1>2 DEF BeginLocked, Workspaces
    <2>8. JournalBounded'
      BY <1>2 DEF BeginLocked, JournalBounded
    <2>9. AckedSurvive'
      BY <1>2 DEF BeginLocked, AckedSurvive
    <2>10. UsableJournalIsClean'
      BY <1>2 DEF BeginLocked, UsableJournalIsClean
    <2> QED BY <2>1, <2>2, <2>3, <2>4, <2>5, <2>6, <2>7, <2>8, <2>9, <2>10
  <1>3. ASSUME NEW i \in Isolation, BeginCopyFails(c, i) PROVE IInv'
    <2>1. ManagerTypeOK'
      BY <1>3 DEF BeginCopyFails, MayBegin, Shared
    <2>2. TxnTypeOK'
      BY <1>3 DEF BeginCopyFails
    <2>3. VolatileState'
      BY <1>3 DEF BeginCopyFails, MayBegin, VolatileState
    <2>4. IdsUnique'
      BY <1>3 DEF BeginCopyFails, IdsUnique
    <2>5. LockTableExact'
      BY <1>3 DEF BeginCopyFails, Shared, LockTableExact, Reader, IdsUnique
    <2>6. SerializableSeesLatest'
      BY <1>3 DEF BeginCopyFails, SerializableSeesLatest, Reader
    <2>7. Workspaces'
      BY <1>3 DEF BeginCopyFails, Workspaces
    <2>8. JournalBounded'
      BY <1>3 DEF BeginCopyFails, JournalBounded
    <2>9. AckedSurvive'
      BY <1>3 DEF BeginCopyFails, AckedSurvive
    <2>10. UsableJournalIsClean'
      BY <1>3 DEF BeginCopyFails, UsableJournalIsClean
    <2> QED BY <2>1, <2>2, <2>3, <2>4, <2>5, <2>6, <2>7, <2>8, <2>9, <2>10
  <1>4. ASSUME NEW i \in Isolation, BeginOk(c, i) PROVE IInv'
    <2>1. ManagerTypeOK'
      BY <1>4 DEF BeginOk, MayBegin, Shared
    <2>2. TxnTypeOK'
      BY <1>4 DEF BeginOk
    <2>3. VolatileState'
      BY <1>4 DEF BeginOk, MayBegin, VolatileState
    <2>4. IdsUnique'
      BY <1>4 DEF BeginOk, IdsUnique
    <2>5. LockTableExact'
      <3>1. Live(c)' /\ id'[c] = nextId /\ iso'[c] = i /\ dirty'[c] = FALSE
        BY <1>4 DEF BeginOk
      <3>2. ASSUME NEW d \in Client, d # c
            PROVE  /\ id'[d] = id[d] /\ iso'[d] = iso[d] /\ dirty'[d] = dirty[d]
                   /\ status'[d] = status[d]
        BY <1>4, <3>2 DEF BeginOk
      <3>3. ~Live(c) /\ writer' = writer
        BY <1>4 DEF BeginOk, MayBegin
      <3>4. CASE i = "Serializable"
        <4>1. writer = NoTx /\ readers' = readers \cup {nextId}
          BY <1>4, <3>4 DEF BeginOk, CanShare, Shared, LockTableExact, Reader, IdsUnique
        <4>2. \A d \in Client : Reader(d) => ~dirty[d]
          BY <4>1 DEF LockTableExact
        <4>3. \A j \in readers' : \E d \in Client : Reader(d)' /\ id'[d] = j
          <5>1. Reader(c)' /\ id'[c] = nextId
            BY <3>1, <3>4 DEF Reader
          <5>2. ASSUME NEW j \in readers PROVE \E d \in Client : Reader(d)' /\ id'[d] = j
            <6>1. PICK d \in Client : Reader(d) /\ id[d] = j
              BY DEF LockTableExact
            <6>2. d # c BY <3>3, <6>1 DEF Reader
            <6> QED BY <3>2, <6>1, <6>2 DEF Reader
          <5> QED BY <4>1, <5>1, <5>2
        <4>4. \A d \in Client : Reader(d)' => id'[d] \in readers' /\ ~dirty'[d]
          BY <3>1, <3>2, <3>3, <3>4, <4>1, <4>2 DEF LockTableExact, Reader
        <4> QED BY <3>3, <4>1, <4>3, <4>4 DEF LockTableExact
      <3>5. CASE i # "Serializable"
        <4>1. readers' = readers
          BY <1>4, <3>5 DEF BeginOk, Shared
        <4>2. \A d \in Client : Reader(d)' <=> Reader(d)
          BY <3>1, <3>2, <3>3, <3>5 DEF Reader
        <4>3. \A d \in Client : Reader(d) => id'[d] = id[d] /\ dirty'[d] = dirty[d]
          BY <3>2, <3>3 DEF Reader
        <4> QED BY <3>3, <4>1, <4>2, <4>3 DEF LockTableExact
      <3> QED BY <3>4, <3>5
    <2>6. SerializableSeesLatest'
      BY <1>4 DEF BeginOk, SerializableSeesLatest, Reader
    <2>7. Workspaces'
      BY <1>4, OverlayNothing DEF BeginOk, Workspaces
    <2>8. JournalBounded'
      BY <1>4 DEF BeginOk, JournalBounded
    <2>9. AckedSurvive'
      BY <1>4 DEF BeginOk, AckedSurvive
    <2>10. UsableJournalIsClean'
      BY <1>4 DEF BeginOk, UsableJournalIsClean
    <2> QED BY <2>1, <2>2, <2>3, <2>4, <2>5, <2>6, <2>7, <2>8, <2>9, <2>10
  <1> QED BY <1>1, <1>2, <1>3, <1>4 DEF Begin

(* A write statement that goes on has the lock its isolation level asks for. *)
LEMMA LockForWriteStep ==
  ASSUME IInv, NEW c \in Client, status[c] = "active", LockForWrite(c),
         UNCHANGED <<readers, id, iso>>, \A d \in Client : Live(d)' <=> Live(d)
  PROVE  LockTableExact'
  <1> USE DEF IInv, TypeOK, ManagerTypeOK, TxnTypeOK, LockForWrite, LockTableExact, Reader
  <1>1. Live(c) BY DEF Live
  <1>2. \A d \in Client : d # c => dirty'[d] = dirty[d]
    OBVIOUS
  <1>3. CASE NeedsUpgrade(c)
    <2>1. Reader(c) /\ writer' = id[c] /\ readers = {id[c]} /\ dirty'[c]
      BY <1>1, <1>3 DEF NeedsUpgrade, CanExclusive
    <2>2. \A d \in Client : Reader(d) => d = c
      BY <2>1 DEF IdsUnique
    <2> QED BY <1>2, <2>1, <2>2
  <1>4. CASE ~NeedsUpgrade(c)
    <2>1. writer' = writer /\ (Reader(c) => dirty[c])
      BY <1>4 DEF NeedsUpgrade
    <2> QED BY <1>2, <2>1
  <1> QED BY <1>3, <1>4

(* run and abort: every outcome preserves the invariant. *)
LEMMA RunStep ==
  ASSUME IInv, NEW c \in Client, Run(c) \/ Abort(c)
  PROVE  IInv'
  <1> USE ConstantsType, ConstantsAssumption
          DEF IInv, TypeOK, ManagerTypeOK, TxnTypeOK, Live, NoTx, manager, locks, file,
             txn
  <1>1. CASE UpgradeConflict(c)
    <2>1. ManagerTypeOK'
      BY <1>1 DEF UpgradeConflict
    <2>2. TxnTypeOK'
      BY <1>1 DEF UpgradeConflict
    <2>3. VolatileState'
      BY <1>1 DEF UpgradeConflict, VolatileState
    <2>4. IdsUnique'
      BY <1>1 DEF UpgradeConflict, IdsUnique
    <2>5. LockTableExact'
      BY <1>1 DEF UpgradeConflict, LockTableExact, Reader
    <2>6. SerializableSeesLatest'
      BY <1>1 DEF UpgradeConflict, SerializableSeesLatest, Reader
    <2>7. Workspaces'
      BY <1>1 DEF UpgradeConflict, Workspaces
    <2>8. JournalBounded'
      BY <1>1 DEF UpgradeConflict, JournalBounded
    <2>9. AckedSurvive'
      BY <1>1 DEF UpgradeConflict, AckedSurvive
    <2>10. UsableJournalIsClean'
      BY <1>1 DEF UpgradeConflict, UsableJournalIsClean
    <2> QED BY <2>1, <2>2, <2>3, <2>4, <2>5, <2>6, <2>7, <2>8, <2>9, <2>10
  <1>2. ASSUME NEW k \in Key, NEW v \in Value, RunWrite(c, k, v) PROVE IInv'
    <2>1. ManagerTypeOK'
      BY <1>2 DEF RunWrite, LockForWrite
    <2>2. TxnTypeOK'
      BY <1>2 DEF RunWrite, LockForWrite, Image
    <2>3. VolatileState'
      BY <1>2 DEF RunWrite, VolatileState
    <2>4. IdsUnique'
      BY <1>2 DEF RunWrite, IdsUnique
    <2>5. LockTableExact'
      BY <1>2, LockForWriteStep DEF RunWrite
    <2>6. SerializableSeesLatest'
      BY <1>2 DEF RunWrite, SerializableSeesLatest, Reader
    <2>7. Workspaces'
      <3>1. ws'[c] = [ws[c] EXCEPT ![k] = v] /\ writes'[c] = [writes[c] EXCEPT ![k] = v]
        BY <1>2 DEF RunWrite
      <3>2. ws'[c] = Overlay(snap[c], writes'[c])
        <4>1. /\ snap[c] \in Image /\ writes[c] \in [Key -> Value \cup {NoWrite}]
              /\ ws[c] = Overlay(snap[c], writes[c])
          BY <1>2 DEF RunWrite, Workspaces
        <4> HIDE DEF IInv, TypeOK, ManagerTypeOK, TxnTypeOK
        <4> QED BY <3>1, <4>1 DEF Overlay
      <3>3. Live(c) /\ snap' = snap /\ base' = base /\ database' = database /\ version' = version
        BY <1>2 DEF RunWrite
      <3>4. \A d \in Client : d # c =>
              ws'[d] = ws[d] /\ writes'[d] = writes[d] /\ status'[d] = status[d]
        BY <1>2 DEF RunWrite
      <3> QED BY <3>1, <3>2, <3>3, <3>4 DEF Workspaces
    <2>8. JournalBounded'
      BY <1>2 DEF RunWrite, JournalBounded
    <2>9. AckedSurvive'
      BY <1>2 DEF RunWrite, AckedSurvive
    <2>10. UsableJournalIsClean'
      BY <1>2 DEF RunWrite, UsableJournalIsClean
    <2> QED BY <2>1, <2>2, <2>3, <2>4, <2>5, <2>6, <2>7, <2>8, <2>9, <2>10
  <1>3. ASSUME NEW k \in Key, NEW v \in Value, RunWriteFails(c, k, v) PROVE IInv'
    <2>1. ManagerTypeOK'
      BY <1>3 DEF RunWriteFails, LockForWrite
    <2>2. TxnTypeOK'
      BY <1>3 DEF RunWriteFails, LockForWrite, Image
    <2>3. VolatileState'
      BY <1>3 DEF RunWriteFails, VolatileState
    <2>4. IdsUnique'
      BY <1>3 DEF RunWriteFails, IdsUnique
    <2>5. LockTableExact'
      <3>1. \A d \in Client : Live(d)' <=> Live(d)
        BY <1>3 DEF RunWriteFails
      <3> QED BY <1>3, <3>1, LockForWriteStep DEF RunWriteFails
    <2>6. SerializableSeesLatest'
      BY <1>3 DEF RunWriteFails, SerializableSeesLatest, Reader
    <2>7. Workspaces'
      <3>1. ws'[c] = [ws[c] EXCEPT ![k] = v] /\ writes'[c] = [writes[c] EXCEPT ![k] = v]
        BY <1>3 DEF RunWriteFails
      <3>2. ws'[c] = Overlay(snap[c], writes'[c])
        <4>1. /\ snap[c] \in Image /\ writes[c] \in [Key -> Value \cup {NoWrite}]
              /\ ws[c] = Overlay(snap[c], writes[c])
          BY <1>3 DEF RunWriteFails, Workspaces
        <4> HIDE DEF IInv, TypeOK, ManagerTypeOK, TxnTypeOK
        <4> QED BY <3>1, <4>1 DEF Overlay
      <3>3. Live(c) /\ snap' = snap /\ base' = base /\ database' = database /\ version' = version
        BY <1>3 DEF RunWriteFails
      <3>4. \A d \in Client : d # c =>
              ws'[d] = ws[d] /\ writes'[d] = writes[d] /\ status'[d] = status[d]
        BY <1>3 DEF RunWriteFails
      <3> QED BY <3>1, <3>2, <3>3, <3>4 DEF Workspaces
    <2>8. JournalBounded'
      BY <1>3 DEF RunWriteFails, JournalBounded
    <2>9. AckedSurvive'
      BY <1>3 DEF RunWriteFails, AckedSurvive
    <2>10. UsableJournalIsClean'
      BY <1>3 DEF RunWriteFails, UsableJournalIsClean
    <2> QED BY <2>1, <2>2, <2>3, <2>4, <2>5, <2>6, <2>7, <2>8, <2>9, <2>10
  <1>4. CASE RunFails(c)
    <2>1. ManagerTypeOK'
      BY <1>4 DEF RunFails
    <2>2. TxnTypeOK'
      BY <1>4 DEF RunFails
    <2>3. VolatileState'
      BY <1>4 DEF RunFails, VolatileState
    <2>4. IdsUnique'
      BY <1>4 DEF RunFails, IdsUnique
    <2>5. LockTableExact'
      BY <1>4 DEF RunFails, LockTableExact, Reader
    <2>6. SerializableSeesLatest'
      BY <1>4 DEF RunFails, SerializableSeesLatest, Reader
    <2>7. Workspaces'
      BY <1>4 DEF RunFails, Workspaces
    <2>8. JournalBounded'
      BY <1>4 DEF RunFails, JournalBounded
    <2>9. AckedSurvive'
      BY <1>4 DEF RunFails, AckedSurvive
    <2>10. UsableJournalIsClean'
      BY <1>4 DEF RunFails, UsableJournalIsClean
    <2> QED BY <2>1, <2>2, <2>3, <2>4, <2>5, <2>6, <2>7, <2>8, <2>9, <2>10
  <1>5. CASE Abort(c)
    <2>1. ManagerTypeOK'
      BY <1>5, ReleaseType DEF Abort
    <2>2. TxnTypeOK'
      BY <1>5, EndType DEF Abort
    <2>3. VolatileState'
      BY <1>5 DEF Abort, VolatileState
    <2>4. IdsUnique'
      BY <1>5 DEF Abort, End, IdsUnique
    <2>5. LockTableExact'
      BY <1>5 DEF Abort, Release, End, LockTableExact, Reader, IdsUnique
    <2>6. SerializableSeesLatest'
      BY <1>5 DEF Abort, End, SerializableSeesLatest, Reader
    <2>7. Workspaces'
      BY <1>5 DEF Abort, End, Workspaces
    <2>8. JournalBounded'
      BY <1>5 DEF Abort, JournalBounded
    <2>9. AckedSurvive'
      BY <1>5 DEF Abort, AckedSurvive
    <2>10. UsableJournalIsClean'
      BY <1>5 DEF Abort, UsableJournalIsClean
    <2> QED BY <2>1, <2>2, <2>3, <2>4, <2>5, <2>6, <2>7, <2>8, <2>9, <2>10
  <1> QED BY <1>1, <1>2, <1>3, <1>4, <1>5 DEF Run

(* commit: every outcome preserves the invariant. *)
LEMMA CommitStep ==
  ASSUME IInv, NEW c \in Client, Commit(c)
  PROVE  IInv'
  <1> USE ConstantsType, ConstantsAssumption
          DEF IInv, TypeOK, ManagerTypeOK, TxnTypeOK, Live, NoTx, manager, locks, file,
             txn
  <1>1. CASE CommitNothing(c)
    <2>1. ManagerTypeOK'
      BY <1>1, ReleaseType DEF CommitNothing
    <2>2. TxnTypeOK'
      BY <1>1, EndType DEF CommitNothing
    <2>3. VolatileState'
      BY <1>1 DEF CommitNothing, VolatileState
    <2>4. IdsUnique'
      BY <1>1 DEF CommitNothing, End, IdsUnique
    <2>5. LockTableExact'
      BY <1>1 DEF CommitNothing, Release, End, LockTableExact, Reader, IdsUnique
    <2>6. SerializableSeesLatest'
      BY <1>1 DEF CommitNothing, End, SerializableSeesLatest, Reader
    <2>7. Workspaces'
      BY <1>1 DEF CommitNothing, End, Workspaces
    <2>8. JournalBounded'
      BY <1>1 DEF CommitNothing, JournalBounded
    <2>9. AckedSurvive'
      BY <1>1 DEF CommitNothing, AckedSurvive
    <2>10. UsableJournalIsClean'
      BY <1>1 DEF CommitNothing, UsableJournalIsClean
    <2> QED BY <2>1, <2>2, <2>3, <2>4, <2>5, <2>6, <2>7, <2>8, <2>9, <2>10
  <1>2. CASE CommitPublish(c)
    <2>1. ManagerTypeOK'
      BY <1>2, ReleaseType, AppendFacts DEF CommitPublish, MayAppend
    <2>2. TxnTypeOK'
      BY <1>2, EndType DEF CommitPublish
    <2>3. VolatileState'
      BY <1>2 DEF CommitPublish, MayAppend, VolatileState
    <2>4. IdsUnique'
      BY <1>2 DEF CommitPublish, End, IdsUnique
    <2>5. LockTableExact'
      BY <1>2
         DEF CommitPublish, MayAppend, Release, End, LockTableExact, Reader, IdsUnique
    <2>6. SerializableSeesLatest'
      BY <1>2 DEF CommitPublish, MayAppend, MayPublish, CanExclusive, End,
             SerializableSeesLatest, Reader, LockTableExact, IdsUnique
    <2>7. Workspaces'
      BY <1>2 DEF CommitPublish, End, Workspaces
    <2>8. JournalBounded'
      BY <1>2, AppendFacts DEF CommitPublish, MayAppend, JournalBounded,
             UsableJournalIsClean, VolatileState
    <2>9. AckedSurvive'
      BY <1>2, AppendFacts DEF CommitPublish, AckedSurvive
    <2>10. UsableJournalIsClean'
      BY <1>2, AppendFacts DEF CommitPublish, UsableJournalIsClean
    <2> QED BY <2>1, <2>2, <2>3, <2>4, <2>5, <2>6, <2>7, <2>8, <2>9, <2>10
  <1>3. CASE CommitAppendFails(c)
    <2>1. ManagerTypeOK'
      BY <1>3, ReleaseType, InterruptedFacts DEF CommitAppendFails, JournalFails
    <2>2. TxnTypeOK'
      BY <1>3, EndType DEF CommitAppendFails
    <2>3. VolatileState'
      BY <1>3 DEF CommitAppendFails, MayAppend, VolatileState
    <2>4. IdsUnique'
      BY <1>3 DEF CommitAppendFails, End, IdsUnique
    <2>5. LockTableExact'
      BY <1>3 DEF CommitAppendFails, MayAppend, Release, End, LockTableExact, Reader,
             IdsUnique
    <2>6. SerializableSeesLatest'
      BY <1>3 DEF CommitAppendFails, End, SerializableSeesLatest, Reader
    <2>7. Workspaces'
      BY <1>3 DEF CommitAppendFails, End, Workspaces
    <2>8. JournalBounded'
      BY <1>3, InterruptedFacts DEF CommitAppendFails, MayAppend, JournalBounded,
             UsableJournalIsClean, VolatileState
    <2>9. AckedSurvive'
      <3>1. Interrupted(ws[c]) /\ acked' = acked /\ ws[c] \in Image
        BY <1>3 DEF CommitAppendFails
      <3> QED BY <3>1, InterruptedKeepsAcked
    <2>10. UsableJournalIsClean'
      BY <1>3, InterruptedFacts DEF CommitAppendFails, JournalFails, UsableJournalIsClean
    <2> QED BY <2>1, <2>2, <2>3, <2>4, <2>5, <2>6, <2>7, <2>8, <2>9, <2>10
  <1>4. CASE CommitCrash(c)
    <2>1. ManagerTypeOK'
      BY <1>4, DownType, InterruptedFacts DEF CommitCrash
    <2>2. TxnTypeOK'
      BY <1>4, DownType DEF CommitCrash
    <2>3. VolatileState'
      BY <1>4 DEF CommitCrash, Down, VolatileState
    <2>4. IdsUnique'
      BY <1>4 DEF CommitCrash, Down, IdsUnique
    <2>5. LockTableExact'
      BY <1>4 DEF CommitCrash, Down, LockTableExact, Reader
    <2>6. SerializableSeesLatest'
      BY <1>4 DEF CommitCrash, Down, SerializableSeesLatest
    <2>7. Workspaces'
      BY <1>4 DEF CommitCrash, Down, Workspaces
    <2>8. JournalBounded'
      BY <1>4, InterruptedFacts
         DEF CommitCrash, MayAppend, JournalBounded, UsableJournalIsClean, VolatileState
    <2>9. AckedSurvive'
      <3>1. Interrupted(ws[c]) /\ acked' = acked /\ ws[c] \in Image
        BY <1>4 DEF CommitCrash
      <3> QED BY <3>1, InterruptedKeepsAcked
    <2>10. UsableJournalIsClean'
      BY <1>4, InterruptedFacts DEF CommitCrash, Down, UsableJournalIsClean
    <2> QED BY <2>1, <2>2, <2>3, <2>4, <2>5, <2>6, <2>7, <2>8, <2>9, <2>10
  <1> QED BY <1>1, <1>2, <1>3, <1>4 DEF Commit

(* crashes and new_on_disk: every outcome preserves the invariant. *)
LEMMA RecoveryStep ==
  ASSUME IInv, Recovery
  PROVE  IInv'
  <1> USE ConstantsType, ConstantsAssumption
          DEF IInv, TypeOK, ManagerTypeOK, TxnTypeOK, Live, NoTx, manager, locks, file,
             txn
  <1>1. CASE Crash
    <2>1. ManagerTypeOK'
      BY <1>1, DownType DEF Crash
    <2>2. TxnTypeOK'
      BY <1>1, DownType DEF Crash
    <2>3. VolatileState'
      BY <1>1 DEF Crash, Down, VolatileState
    <2>4. IdsUnique'
      BY <1>1 DEF Crash, Down, IdsUnique
    <2>5. LockTableExact'
      BY <1>1 DEF Crash, Down, LockTableExact, Reader
    <2>6. SerializableSeesLatest'
      BY <1>1 DEF Crash, Down, SerializableSeesLatest
    <2>7. Workspaces'
      BY <1>1 DEF Crash, Down, Workspaces
    <2>8. JournalBounded'
      BY <1>1 DEF Crash, JournalBounded
    <2>9. AckedSurvive'
      BY <1>1 DEF Crash, AckedSurvive
    <2>10. UsableJournalIsClean'
      BY <1>1 DEF Crash, Down, UsableJournalIsClean
    <2> QED BY <2>1, <2>2, <2>3, <2>4, <2>5, <2>6, <2>7, <2>8, <2>9, <2>10
  <1>2. CASE Open
    <2>1. ManagerTypeOK'
      <3>1. Len(recs) \in 1..(MaxU64 + 1) /\ recs[Len(recs)] \in Image
        BY <1>2 DEF Open, JournalBounded
      <3>2. version' \in 0..MaxU64 /\ database' \in Image
        BY <1>2, <3>1 DEF Open, Recovered
      <3>3. recs' \in Seq(Image) /\ acked' \in Seq(Image)
        BY <1>2 DEF Open, Recovered
      <3> QED BY <1>2, <3>2, <3>3 DEF Open
    <2>2. TxnTypeOK'
      BY <1>2 DEF Open
    <2>3. VolatileState'
      BY <1>2 DEF Open, VolatileState
    <2>4. IdsUnique'
      BY <1>2 DEF Open, IdsUnique
    <2>5. LockTableExact'
      BY <1>2 DEF Open, LockTableExact, Reader
    <2>6. SerializableSeesLatest'
      BY <1>2 DEF Open, SerializableSeesLatest, Reader, VolatileState
    <2>7. Workspaces'
      BY <1>2 DEF Open, Workspaces, VolatileState
    <2>8. JournalBounded'
      BY <1>2 DEF Open, Recovered, JournalBounded
    <2>9. AckedSurvive'
      BY <1>2 DEF Open, Recovered, AckedSurvive
    <2>10. UsableJournalIsClean'
      BY <1>2 DEF Open, UsableJournalIsClean
    <2> QED BY <2>1, <2>2, <2>3, <2>4, <2>5, <2>6, <2>7, <2>8, <2>9, <2>10
  <1>3. CASE OpenLoadFails
    <2>1. ManagerTypeOK'
      BY <1>3 DEF OpenLoadFails, Recovered
    <2>2. TxnTypeOK'
      BY <1>3 DEF OpenLoadFails
    <2>3. VolatileState'
      BY <1>3 DEF OpenLoadFails, VolatileState
    <2>4. IdsUnique'
      BY <1>3 DEF OpenLoadFails, IdsUnique
    <2>5. LockTableExact'
      BY <1>3 DEF OpenLoadFails, LockTableExact, Reader
    <2>6. SerializableSeesLatest'
      BY <1>3 DEF OpenLoadFails, SerializableSeesLatest, Reader
    <2>7. Workspaces'
      BY <1>3 DEF OpenLoadFails, Workspaces
    <2>8. JournalBounded'
      BY <1>3 DEF OpenLoadFails, Recovered, JournalBounded
    <2>9. AckedSurvive'
      BY <1>3 DEF OpenLoadFails, Recovered, AckedSurvive
    <2>10. UsableJournalIsClean'
      BY <1>3 DEF OpenLoadFails, UsableJournalIsClean
    <2> QED BY <2>1, <2>2, <2>3, <2>4, <2>5, <2>6, <2>7, <2>8, <2>9, <2>10
  <1>4. CASE Create
    <2>1. ManagerTypeOK'
      BY <1>4 DEF Create
    <2>2. TxnTypeOK'
      BY <1>4 DEF Create
    <2>3. VolatileState'
      BY <1>4 DEF Create, VolatileState
    <2>4. IdsUnique'
      BY <1>4 DEF Create, IdsUnique
    <2>5. LockTableExact'
      BY <1>4 DEF Create, LockTableExact, Reader
    <2>6. SerializableSeesLatest'
      BY <1>4 DEF Create, SerializableSeesLatest, Reader
    <2>7. Workspaces'
      BY <1>4 DEF Create, Workspaces
    <2>8. JournalBounded'
      BY <1>4 DEF Create, JournalBounded
    <2>9. AckedSurvive'
      BY <1>4 DEF Create, AckedSurvive
    <2>10. UsableJournalIsClean'
      BY <1>4 DEF Create, UsableJournalIsClean, VolatileState
    <2> QED BY <2>1, <2>2, <2>3, <2>4, <2>5, <2>6, <2>7, <2>8, <2>9, <2>10
  <1>5. CASE CreateFails
    <2>1. ManagerTypeOK'
      BY <1>5, InterruptedFacts DEF CreateFails
    <2>2. TxnTypeOK'
      BY <1>5 DEF CreateFails
    <2>3. VolatileState'
      BY <1>5 DEF CreateFails, VolatileState
    <2>4. IdsUnique'
      BY <1>5 DEF CreateFails, IdsUnique
    <2>5. LockTableExact'
      BY <1>5 DEF CreateFails, LockTableExact, Reader
    <2>6. SerializableSeesLatest'
      BY <1>5 DEF CreateFails, SerializableSeesLatest, Reader
    <2>7. Workspaces'
      BY <1>5 DEF CreateFails, Workspaces
    <2>8. JournalBounded'
      BY <1>5, InterruptedFacts DEF CreateFails, JournalBounded
    <2>9. AckedSurvive'
      BY <1>5, InterruptedFacts DEF CreateFails, AckedSurvive
    <2>10. UsableJournalIsClean'
      BY <1>5, InterruptedFacts DEF CreateFails, UsableJournalIsClean
    <2> QED BY <2>1, <2>2, <2>3, <2>4, <2>5, <2>6, <2>7, <2>8, <2>9, <2>10
  <1>6. CASE OpenRefused
    BY <1>6 DEF OpenRefused, vars, VolatileState, IdsUnique, LockTableExact,
           SerializableSeesLatest, Workspaces, JournalBounded, AckedSurvive,
           UsableJournalIsClean, Reader
  <1> QED BY <1>1, <1>2, <1>3, <1>4, <1>5, <1>6 DEF Recovery
-----------------------------------------------------------------------------
(* A fresh manager, or a manager that was never opened, satisfies it. *)
LEMMA InitInv ==
  ASSUME Init
  PROVE  IInv
  <1> USE ConstantsType, ConstantsAssumption DEF Init, NoTx, Live, Reader
  <1>1. TypeOK
    <2>1. up \in BOOLEAN BY Zenon
    <2>2. recs \in Seq(Image) /\ acked \in Seq(Image) OBVIOUS
    <2>3. ManagerTypeOK BY <2>1, <2>2 DEF ManagerTypeOK
    <2>4. TxnTypeOK BY DEF TxnTypeOK, Isolation
    <2> QED BY <2>3, <2>4 DEF TypeOK
  <1>2. VolatileState BY DEF VolatileState
  <1>3. IdsUnique BY DEF IdsUnique
  <1>4. LockTableExact BY DEF LockTableExact
  <1>5. SerializableSeesLatest BY DEF SerializableSeesLatest
  <1>6. Workspaces BY DEF Workspaces
  <1>7. JournalBounded /\ AckedSurvive BY DEF JournalBounded, AckedSurvive
  <1>8. UsableJournalIsClean BY DEF UsableJournalIsClean
  <1> QED BY <1>1, <1>2, <1>3, <1>4, <1>5, <1>6, <1>7, <1>8 DEF IInv

(* Every step of a client, a crash or a recovery preserves it. *)
LEMMA NextInv ==
  ASSUME IInv, [Next]_vars
  PROVE  IInv'
  <1>1. CASE UNCHANGED vars
    BY <1>1 DEF IInv, TypeOK, ManagerTypeOK, TxnTypeOK, VolatileState, IdsUnique,
       LockTableExact, SerializableSeesLatest, Workspaces, JournalBounded, AckedSurvive,
       UsableJournalIsClean, Live, Reader, vars, manager, locks, file, txn
  <1>2. CASE Next
    BY <1>2, BeginStep, RunStep, CommitStep, RecoveryStep DEF Next
  <1> QED BY <1>1, <1>2

(* The inductive invariant holds of every behaviour. *)
THEOREM Invariance == Spec => []IInv
  BY InitInv, NextInv, PTL DEF Spec

(* Ids, versions, the lock table and the journal keep their types: no      *)
(* checked_add of the code overflows into a wrong id or version.           *)
THEOREM TypeCorrect == Spec => []TypeOK
  <1>1. IInv => TypeOK BY DEF IInv
  <1> QED BY <1>1, Invariance, PTL

(* No error path of begin, run, commit, abort or drop leaks a lock or      *)
(* releases one that another transaction relies on.                        *)
THEOREM LocksCorrect == Spec => []LockTableExact
  <1>1. IInv => LockTableExact BY DEF IInv
  <1> QED BY <1>1, Invariance, PTL

(* A Serializable transaction works on the latest committed database for   *)
(* as long as it lives, whatever Snapshot Isolation transactions do.       *)
THEOREM SerializableCorrect == Spec => []SerializableSeesLatest
  <1>1. IInv => SerializableSeesLatest BY DEF IInv
  <1> QED BY <1>1, Invariance, PTL

(* What commit acknowledged is found by every later new_on_disk. *)
THEOREM DurabilityCorrect == Spec => []AckedSurvive
  <1>1. IInv => AckedSurvive BY DEF IInv
  <1> QED BY <1>1, Invariance, PTL

(* Commit never appends to a journal with a torn or an unresolved record. *)
THEOREM JournalCorrect == Spec => []UsableJournalIsClean
  <1>1. IInv => UsableJournalIsClean BY DEF IInv
  <1> QED BY <1>1, Invariance, PTL
-----------------------------------------------------------------------------
(* The image a commit may publish is the latest one with its own writes. *)
LEMMA PublishableImage ==
  ASSUME IInv, NEW c \in Client, MayAppend(c)
  PROVE  ws[c] = Overlay(database, writes[c])
  BY DEF IInv, Workspaces, MayAppend, MayPublish, Live

(* First committer wins, at both isolation levels: each change of the      *)
(* committed database adds one transaction's writes to the latest image.   *)
THEOREM NoLostUpdateCorrect == Spec => NoLostUpdate
  <1> DEFINE Changed == up /\ up' /\ <<database, version>>' # <<database, version>>
             Published == /\ version' = version + 1
                          /\ \E c \in Client :
                               /\ status[c] = "active" /\ dirty[c] /\ status'[c] = "none"
                               /\ database' = Overlay(database, writes[c])
  <1>1. ASSUME IInv, Next, Changed PROVE Published
    <2>1. CASE \E c \in Client : CommitPublish(c)
      <3>1. PICK c \in Client : CommitPublish(c) BY <2>1
      <3>2. database' = Overlay(database, writes[c]) /\ version' = version + 1
        BY <1>1, <3>1, PublishableImage DEF CommitPublish
      <3>3. status[c] = "active" /\ dirty[c] /\ status'[c] = "none"
        BY <1>1, <3>1 DEF CommitPublish, MayAppend, End, IInv, TypeOK, TxnTypeOK
      <3> QED BY <3>2, <3>3
    <2>2. ASSUME NEW c \in Client, Begin(c) \/ Run(c) \/ Abort(c) \/ Commit(c), ~CommitPublish(c)
          PROVE  FALSE
      BY <1>1, <2>2
         DEF Begin, Run, Abort, Commit, BeginRefused, BeginLocked, BeginCopyFails,
         BeginOk, UpgradeConflict, RunFails, RunWrite, RunWriteFails, CommitNothing,
         CommitAppendFails, CommitCrash, Down, vars, manager
    <2>3. ASSUME Recovery PROVE FALSE
      BY <1>1, <2>3 DEF Recovery, Crash, Down, Open, OpenLoadFails, Create, CreateFails,
         OpenRefused, vars, manager
    <2> QED BY <1>1, <2>1, <2>2, <2>3 DEF Next
  <1>2. IInv /\ [Next]_vars => [Changed => Published]_vars
    BY <1>1
  <1> QED BY <1>2, Invariance, PTL DEF Spec, NoLostUpdate
-----------------------------------------------------------------------------
(* What a transaction that may publish has seen is the committed store. *)
LEMMA PublisherSawStore ==
  ASSUME IInv, NEW c \in Client, MayAppend(c)
  PROVE  c \in Opened /\ snap[c] = Committed
  <1>1. Live(c) /\ snap[c] = database
    BY DEF IInv, Workspaces, MayAppend, MayPublish, Live
  <1>2. up
    BY <1>1 DEF IInv, VolatileState, Live
  <1>3. Committed = database
    BY <1>2 DEF IInv, UsableJournalIsClean, VolatileState, MayAppend, Committed, TypeOK,
       ManagerTypeOK
  <1> QED BY <1>1, <1>3 DEF Opened

(* The end of a transaction is its end in the store. *)
LEMMA EndRefines ==
  ASSUME IInv, NEW c \in Client, Live(c), End(c)
  PROVE  Store!End(c)
  <1>1. Opened' = Opened \ {c}
    BY DEF Opened, Live, End, IInv, TypeOK, TxnTypeOK
  <1>2. c \in Opened BY DEF Opened
  <1> QED BY <1>1, <1>2 DEF End, Store!End, Fresh, Store!Fresh

(* A record of the journal that was cut short, or that is complete without *)
(* an answer, is no commit or one commit.                                  *)
LEMMA InterruptedRefines ==
  ASSUME IInv, NEW c \in Client, MayAppend(c), Durable, Interrupted(ws[c])
  PROVE  UNCHANGED Committed \/ Store!TakesEffect(c)
  <1>1. ws[c] \in Image /\ recs \in Seq(Image)
    BY DEF IInv, TypeOK, ManagerTypeOK, TxnTypeOK
  <1>2. CASE recs' = recs
    BY <1>2 DEF Committed
  <1>3. CASE recs' = Append(recs, ws[c])
    <2>1. Committed' = ws[c]
      BY <1>1, <1>3, AppendFacts DEF Committed
    <2> QED BY <2>1, PublisherSawStore DEF Store!TakesEffect
  <1> QED BY <1>2, <1>3 DEF Interrupted

(* begin, run and abort of a client are those of the store. *)
LEMMA StatementRefines ==
  ASSUME IInv, NEW c \in Client, Begin(c) \/ Run(c) \/ Abort(c) \/ CommitNothing(c)
  PROVE  Store!Begin(c) \/ Store!Write(c) \/ Store!Abort(c) \/ UNCHANGED Store!vars
  <1> USE DEF IInv, TypeOK, ManagerTypeOK, TxnTypeOK, manager, file, locks, txn
  <1>1. ASSUME NEW i \in Isolation, BeginOk(c, i) PROVE Store!Begin(c)
    <2>1. Committed = database /\ UNCHANGED Committed
      BY <1>1 DEF BeginOk, MayBegin, Committed, UsableJournalIsClean
    <2>2. c \notin Opened /\ Opened' = Opened \cup {c}
      BY <1>1 DEF BeginOk, MayBegin, Opened, Live
    <2>3. snap' = [snap EXCEPT ![c] = database] /\ ws' = [ws EXCEPT ![c] = database]
      BY <1>1 DEF BeginOk
    <2> QED BY <2>1, <2>2, <2>3 DEF Store!Begin
  <1>2. ASSUME NEW k \in Key, NEW v \in Value, RunWrite(c, k, v) \/ RunWriteFails(c, k, v)
        PROVE  Store!Write(c)
    <2>1. UNCHANGED Committed
      BY <1>2 DEF RunWrite, RunWriteFails, Committed
    <2>2. c \in Opened /\ UNCHANGED Opened
      BY <1>2 DEF RunWrite, RunWriteFails, Opened, Live
    <2>3. ws' = [ws EXCEPT ![c][k] = v] /\ UNCHANGED snap
      BY <1>2 DEF RunWrite, RunWriteFails
    <2> QED BY <2>1, <2>2, <2>3 DEF Store!Write
  <1>3. ASSUME Abort(c) \/ CommitNothing(c) PROVE Store!Abort(c)
    <2>1. Live(c) /\ End(c) /\ UNCHANGED Committed
      BY <1>3 DEF Abort, CommitNothing, Committed, Live
    <2> QED BY <2>1, EndRefines DEF Store!Abort
  <1>4. ASSUME UpgradeConflict(c) \/ RunFails(c) PROVE UNCHANGED Store!vars
    <2>1. UNCHANGED <<Committed, snap, ws>>
      BY <1>4 DEF UpgradeConflict, RunFails, Committed
    <2>2. UNCHANGED Opened
      BY <1>4 DEF UpgradeConflict, RunFails, Opened, Live
    <2> QED BY <2>1, <2>2 DEF Store!vars
  <1>5. ASSUME BeginRefused(c) \/ BeginLocked(c) \/ \E i \in Isolation : BeginCopyFails(c, i)
        PROVE  UNCHANGED Store!vars
    BY <1>5 DEF BeginRefused, BeginLocked, BeginCopyFails, Committed, Opened, Live, vars,
       Store!vars
  <1> QED BY <1>1, <1>2, <1>3, <1>4, <1>5 DEF Begin, Run

(* Crashes and recoveries: the store never notices more than a crash. *)
LEMMA RecoveryRefines ==
  ASSUME IInv, Recovery
  PROVE  Store!Crash \/ UNCHANGED Store!vars
  <1> USE DEF IInv, TypeOK, ManagerTypeOK, TxnTypeOK, manager, file, locks, txn
  <1>1. CASE Crash
    BY <1>1 DEF Crash, Down, Store!Crash, Store!Fresh, Fresh, Opened, Live, Committed
  <1>2. CASE Create \/ CreateFails
    <2>1. Append(<<>>, Fresh) = <<Fresh>>
      BY ConstantsType
    <2>2. Durable /\ recs = <<>> /\ (recs' = <<>> \/ recs' = <<Fresh>>)
      BY <1>2, <2>1 DEF Create, CreateFails, Interrupted
    <2>3. UNCHANGED Committed
      BY <2>2 DEF Committed
    <2>4. UNCHANGED <<Opened, snap, ws>>
      BY <1>2 DEF Create, CreateFails, Opened, Live
    <2> QED BY <2>3, <2>4 DEF Store!vars
  <1>3. CASE Open \/ OpenLoadFails \/ OpenRefused
    BY <1>3
       DEF Open, OpenLoadFails, OpenRefused, Recovered, Committed, Opened, Live, vars,
       Store!vars
  <1> QED BY <1>1, <1>2, <1>3 DEF Recovery

(* commit: it takes effect at once and only on the store it saw, and an    *)
(* append that fails or is cut short by a crash is all or nothing.         *)
LEMMA CommitRefines ==
  ASSUME IInv, NEW c \in Client, Commit(c)
  PROVE  [Store!Next]_(Store!vars)
  <1>1. CASE CommitNothing(c)
    BY <1>1, StatementRefines DEF Store!Next
  <1>2. CASE CommitPublish(c)
    <2>1. ws[c] \in Image /\ recs \in Seq(Image)
      BY DEF IInv, TypeOK, ManagerTypeOK, TxnTypeOK
    <2>2. Committed' = ws[c]
      BY <1>2, <2>1, AppendFacts DEF CommitPublish, Committed
    <2>3. MayAppend(c) /\ Live(c) /\ End(c)
      BY <1>2 DEF CommitPublish, MayAppend, Live
    <2>4. Store!Commit(c)
      BY <2>2, <2>3, PublisherSawStore, EndRefines DEF Store!Commit, Store!TakesEffect
    <2> QED BY <2>4 DEF Store!Next
  <1>3. CASE CommitAppendFails(c)
    <2>1. Live(c) /\ End(c) BY <1>3 DEF CommitAppendFails, MayAppend, Live
    <2>2. Store!Commit(c) \/ Store!Abort(c)
      BY <1>3, <2>1, InterruptedRefines, EndRefines
         DEF CommitAppendFails, Store!Commit, Store!Abort
    <2> QED BY <2>2 DEF Store!Next
  <1>4. CASE CommitCrash(c)
    <2>1. Down /\ (UNCHANGED Committed \/ Store!TakesEffect(c))
      BY <1>4, InterruptedRefines DEF CommitCrash
    <2>2. Opened' = {} BY <2>1 DEF Down, Opened, Live
    <2>3. Store!Crash BY <2>1, <2>2 DEF Down, Store!Crash, Store!Fresh, Fresh
    <2> QED BY <2>3 DEF Store!Next
  <1> QED BY <1>1, <1>2, <1>3, <1>4 DEF Commit

(* Every transaction, at both isolation levels and across failed appends,  *)
(* crashes and recoveries, takes effect at one moment or not at all.       *)
THEOREM Refinement == Spec => ImplementsAtomicStore
  <1>1. ASSUME Init PROVE Store!Init
    <2>1. Opened = {} BY <1>1 DEF Init, Opened, Live
    <2>2. Committed = Fresh BY <1>1 DEF Init, Committed
    <2> QED BY <1>1, <2>1, <2>2 DEF Init, Store!Init, Store!Fresh, Fresh
  <1>2. ASSUME IInv, Next PROVE [Store!Next]_(Store!vars)
    <2>1. ASSUME NEW c \in Client, Begin(c) \/ Run(c) \/ Abort(c)
          PROVE  [Store!Next]_(Store!vars)
      BY <1>2, <2>1, StatementRefines DEF Store!Next
    <2>2. ASSUME Recovery PROVE [Store!Next]_(Store!vars)
      BY <1>2, <2>2, RecoveryRefines DEF Store!Next
    <2> QED BY <1>2, <2>1, <2>2, CommitRefines DEF Next
  <1>3. ASSUME UNCHANGED vars PROVE UNCHANGED Store!vars
    BY <1>3 DEF vars, manager, file, txn, Committed, Opened, Live, Store!vars
  <1>4. IInv /\ [Next]_vars => [Store!Next]_(Store!vars)
    BY <1>2, <1>3
  <1> QED BY <1>1, <1>4, Invariance, PTL DEF Spec, ImplementsAtomicStore, Store!Spec
-----------------------------------------------------------------------------
(* The manager keeps the contract of the journal file that module Journal  *)
(* implements: records are only added, one by one, and only an incomplete  *)
(* record is ever cut off.                                                 *)
THEOREM LogRefinement == Spec => ImplementsRecordLog
  <1> USE DEF manager, file, locks, txn
  <1>1. ASSUME Init PROVE Log!Init
    BY <1>1 DEF Init, Log!Init
  <1>2. ASSUME IInv, NEW img \in Image, Interrupted(img), ~torn
        PROVE  [Log!Tear \/ Log!Complete \/ Log!Cut]_<<recs, torn>>
    <2>1. torn = FALSE BY <1>2 DEF IInv
    <2> QED BY <1>2, <2>1 DEF Interrupted, Log!Tear, Log!Complete
  <1>3. ASSUME IInv, NEW c \in Client, MayAppend(c), Durable
        PROVE  ws[c] \in Image /\ ~torn
    BY <1>3 DEF IInv, TypeOK, TxnTypeOK, MayAppend, UsableJournalIsClean, VolatileState
  <1>4. ASSUME IInv, Next PROVE [Log!Tear \/ Log!Complete \/ Log!Cut]_<<recs, torn>>
    <2>1. ASSUME NEW c \in Client, CommitPublish(c)
          PROVE  [Log!Complete]_<<recs, torn>>
      <3>1. MayAppend(c) /\ UNCHANGED torn BY <2>1 DEF CommitPublish
      <3>2. CASE Durable
        <4>1. torn = FALSE BY <1>3, <1>4, <3>1, <3>2 DEF IInv
        <4> QED BY <1>3, <1>4, <2>1, <3>1, <3>2, <4>1 DEF CommitPublish, Log!Complete
      <3>3. CASE ~Durable BY <2>1, <3>3 DEF CommitPublish
      <3> QED BY <3>2, <3>3
    <2>2. ASSUME NEW c \in Client, CommitAppendFails(c) \/ CommitCrash(c)
          PROVE  [Log!Tear \/ Log!Complete \/ Log!Cut]_<<recs, torn>>
      BY <1>2, <1>3, <1>4, <2>2 DEF CommitAppendFails, CommitCrash
    <2>3. ASSUME NEW c \in Client, Begin(c) \/ Run(c) \/ Abort(c) \/ CommitNothing(c)
          PROVE  UNCHANGED <<recs, torn>>
      BY <2>3 DEF Begin, Run, Abort, BeginRefused, BeginLocked, BeginCopyFails, BeginOk,
         UpgradeConflict, RunFails, RunWrite, RunWriteFails, CommitNothing, vars
    <2>4. ASSUME Recovery PROVE [Log!Tear \/ Log!Complete \/ Log!Cut]_<<recs, torn>>
      <3>1. CASE Crash \/ OpenRefused BY <3>1 DEF Crash, OpenRefused, vars
      <3>2. CASE Open \/ OpenLoadFails BY <3>2 DEF Open, OpenLoadFails, Recovered, Log!Cut
      <3>3. CASE Create
        <4>1. torn = FALSE BY <1>4, <3>3 DEF Create
        <4>2. recs' = Append(recs, Fresh) BY <3>3, ConstantsType DEF Create
        <4> QED BY <3>3, <4>1, <4>2, ConstantsType DEF Create, Log!Complete
      <3>4. CASE CreateFails BY <1>2, <1>4, <3>4, ConstantsType DEF CreateFails
      <3> QED BY <2>4, <3>1, <3>2, <3>3, <3>4 DEF Recovery
    <2> QED BY <1>4, <2>1, <2>2, <2>3, <2>4 DEF Next, Commit
  <1>5. ASSUME UNCHANGED vars PROVE UNCHANGED <<recs, torn>>
    BY <1>5 DEF vars
  <1>6. IInv /\ [Next]_vars => [Log!Tear \/ Log!Complete \/ Log!Cut]_<<recs, torn>>
    BY <1>4, <1>5
  <1> QED BY <1>1, <1>6, Invariance, PTL DEF Spec, ImplementsRecordLog, Log!Spec
=============================================================================
