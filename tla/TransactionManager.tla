------------------------ MODULE TransactionManager -------------------------
(***************************************************************************)
(* The transaction component: ManagerState behind its mutex, the           *)
(* database-level S/X lock table, the private workspaces of transactions   *)
(* at both isolation levels, commit through the journal, and recovery.     *)
(*                                                                         *)
(* Every action is one critical section of the manager mutex, or a step    *)
(* private to one transaction.  A database is an image, a function from    *)
(* Key to Value.  The journal file is the sequence of its complete records *)
(* and a flag for an incomplete record after them (module Journal has the  *)
(* layout of the file and shows that this is what open finds in it).       *)
(***************************************************************************)
EXTENDS Naturals, Sequences

CONSTANTS
  Client,   \* threads, each with at most one Transaction at a time
  Key,      \* the items of a database
  Value,    \* what an item may hold
  Null,     \* what an item of a fresh database holds
  NoWrite,  \* marks a key that a transaction has not written
  MaxU64,   \* u64::MAX, the bound of transaction ids and of versions
  Durable   \* TRUE for new_on_disk, FALSE for new_temp

ASSUME ConstantsAssumption ==
  /\ MaxU64 \in Nat \ {0}
  /\ Durable \in BOOLEAN
  /\ Null \in Value
  /\ NoWrite \notin Value

VARIABLES
  up,        \* the process that holds the manager (and the file lock) lives
  database, version, nextId,      \* ManagerState
  readers, writer,                \* LockManager
  failed,                         \* Journal.failed
  recs, torn,                     \* the journal file
  status, id, iso, base, dirty, ws,  \* the Transaction of each client
  snap, writes, acked             \* history: see below

manager == <<database, version, nextId>>
locks   == <<readers, writer>>
file    == <<recs, torn>>
txn     == <<status, id, iso, base, dirty, ws, snap, writes>>
vars    == <<up, manager, locks, failed, file, txn, acked>>

NoTx     == 0
Isolation == {"Serializable", "SnapshotIsolation"}
Image    == [Key -> Value]
Fresh    == [k \in Key |-> Null]
NoWrites == [k \in Key |-> NoWrite]
Overlay(img, w) == [k \in Key |-> IF w[k] = NoWrite THEN img[k] ELSE w[k]]

(* A client's Transaction is live until commit, abort or drop takes its     *)
(* database.  It is "aborting" from the error of a statement to the release *)
(* of its locks: run returns from run_active before abort takes the mutex.  *)
Live(c) == status[c] \in {"active", "aborting"}

ManagerTypeOK ==
  /\ up \in BOOLEAN /\ failed \in BOOLEAN /\ torn \in BOOLEAN
  /\ database \in Image
  /\ version \in 0..MaxU64 /\ nextId \in 1..MaxU64
  /\ readers \subseteq 1..MaxU64 /\ writer \in 0..MaxU64
  /\ recs \in Seq(Image) /\ acked \in Seq(Image)

TxnTypeOK ==
  /\ status \in [Client -> {"none", "active", "aborting"}]
  /\ id \in [Client -> 0..MaxU64]
  /\ iso \in [Client -> Isolation]
  /\ base \in [Client -> 0..MaxU64]
  /\ dirty \in [Client -> BOOLEAN]
  /\ ws \in [Client -> Image] /\ snap \in [Client -> Image]
  /\ writes \in [Client -> [Key -> Value \cup {NoWrite}]]

(* Every variable has its type; ids, versions and locks stay within u64. *)
TypeOK == ManagerTypeOK /\ TxnTypeOK

Init ==
  /\ up = ~Durable
  /\ database = Fresh /\ version = 0 /\ nextId = 1
  /\ readers = {} /\ writer = NoTx
  /\ failed = FALSE
  /\ recs = <<>> /\ torn = FALSE
  /\ status = [c \in Client |-> "none"]
  /\ id     = [c \in Client |-> NoTx]
  /\ iso    = [c \in Client |-> "Serializable"]
  /\ base   = [c \in Client |-> 0]
  /\ dirty  = [c \in Client |-> FALSE]
  /\ ws     = [c \in Client |-> Fresh]
  /\ snap   = [c \in Client |-> Fresh]
  /\ writes = [c \in Client |-> NoWrites]
  /\ acked = <<>>
-----------------------------------------------------------------------------
(* LockManager.  The no-wait S/X table; a refused request changes nothing. *)

CanShare(i) == writer \in {NoTx, i}

(* A mutant of CanExclusive: the upgrade ignores other readers. *)
CanExclusiveIgnoringReaders(i) == writer \in {NoTx, i}
CanExclusive(i) == writer \in {NoTx, i} /\ readers \subseteq {i}

(* A mutant of Release: only the shared lock is given back. *)
ReleaseSharedOnly(i) == readers' = readers \ {i} /\ writer' = writer
Release(i) ==
  /\ readers' = readers \ {i}
  /\ writer' = IF writer = i THEN NoTx ELSE writer

(* The Transaction of c ends: its workspace is dropped. *)
End(c) ==
  /\ status' = [status EXCEPT ![c] = "none"]
  /\ id'     = [id EXCEPT ![c] = NoTx]
  /\ iso'    = [iso EXCEPT ![c] = "Serializable"]
  /\ base'   = [base EXCEPT ![c] = 0]
  /\ dirty'  = [dirty EXCEPT ![c] = FALSE]
  /\ ws'     = [ws EXCEPT ![c] = Fresh]
  /\ snap'   = [snap EXCEPT ![c] = Fresh]
  /\ writes' = [writes EXCEPT ![c] = NoWrites]
-----------------------------------------------------------------------------
(* begin_with_isolation.                                                   *)

(* The journal is unusable or the ids are exhausted: an error, no effect. *)
BeginRefused(c) ==
  /\ up /\ status[c] = "none"
  /\ failed \/ nextId = MaxU64
  /\ UNCHANGED vars

(* A mutant of MayBegin: ids are handed out without an overflow check. *)
MayBeginAnyId(c) == up /\ status[c] = "none" /\ ~failed

(* What begin may do with the next id. *)
MayBegin(c) == up /\ status[c] = "none" /\ ~failed /\ nextId < MaxU64

(* A writer holds the database: the id is consumed, nothing else. *)
BeginLocked(c) ==
  /\ MayBegin(c) /\ ~CanShare(nextId)
  /\ nextId' = nextId + 1
  /\ UNCHANGED <<up, database, version, locks, failed, file, txn, acked>>

(* The lock table after begin asked for the locks of level i. *)
Shared(i) == IF i = "Serializable" THEN readers \cup {nextId} ELSE readers

(* A mutant of BeginCopyFails: the error path keeps the shared lock. *)
BeginCopyFailsKeepsLock(c, i) ==
  /\ MayBegin(c) /\ (i = "Serializable" => CanShare(nextId))
  /\ nextId' = nextId + 1
  /\ readers' = Shared(i) /\ writer' = writer
  /\ UNCHANGED <<up, database, version, failed, file, txn, acked>>

(* Copying the committed database fails after the lock was granted. *)
BeginCopyFails(c, i) ==
  /\ MayBegin(c) /\ (i = "Serializable" => CanShare(nextId))
  /\ nextId' = nextId + 1
  /\ readers' = Shared(i) \ {nextId} /\ writer' = writer
  /\ UNCHANGED <<up, database, version, failed, file, txn, acked>>

BeginOk(c, i) ==
  /\ MayBegin(c) /\ (i = "Serializable" => CanShare(nextId))
  /\ nextId' = nextId + 1
  /\ readers' = Shared(i)
  /\ status' = [status EXCEPT ![c] = "active"]
  /\ id'     = [id EXCEPT ![c] = nextId]
  /\ iso'    = [iso EXCEPT ![c] = i]
  /\ base'   = [base EXCEPT ![c] = version]
  /\ dirty'  = [dirty EXCEPT ![c] = FALSE]
  /\ ws'     = [ws EXCEPT ![c] = database]
  /\ snap'   = [snap EXCEPT ![c] = database]
  /\ writes' = [writes EXCEPT ![c] = NoWrites]
  /\ UNCHANGED <<up, database, version, writer, failed, file, acked>>
-----------------------------------------------------------------------------
(* run.  Reads touch only the workspace and change nothing.                *)

(* The first write of a Serializable transaction needs the X lock. *)
NeedsUpgrade(c) == iso[c] = "Serializable" /\ ~dirty[c]

(* The upgrade is refused: an error, and run goes on to abort. *)
UpgradeConflict(c) ==
  /\ status[c] = "active" /\ NeedsUpgrade(c) /\ ~CanExclusive(id[c])
  /\ status' = [status EXCEPT ![c] = "aborting"]
  /\ UNCHANGED <<up, manager, locks, failed, file, id, iso, base, dirty, ws,
                 snap, writes, acked>>

(* The lock part of a write statement. *)
LockForWrite(c) ==
  /\ NeedsUpgrade(c) => CanExclusive(id[c])
  /\ writer' = IF NeedsUpgrade(c) THEN id[c] ELSE writer
  /\ dirty' = [dirty EXCEPT ![c] = TRUE]

(* INSERT, UPDATE or DDL: locks, then the effect on the workspace. *)
RunWrite(c, k, v) ==
  /\ status[c] = "active"
  /\ LockForWrite(c)
  /\ ws' = [ws EXCEPT ![c][k] = v]
  /\ writes' = [writes EXCEPT ![c][k] = v]
  /\ UNCHANGED <<up, manager, readers, failed, file, status, id, iso, base, snap, acked>>

(* A write statement that fails part way, after it took the lock. *)
RunWriteFails(c, k, v) ==
  /\ status[c] = "active"
  /\ LockForWrite(c)
  /\ ws' = [ws EXCEPT ![c][k] = v]
  /\ writes' = [writes EXCEPT ![c][k] = v]
  /\ status' = [status EXCEPT ![c] = "aborting"]
  /\ UNCHANGED <<up, manager, readers, failed, file, id, iso, base, snap, acked>>

(* A statement that fails before it asks for a lock, or a failing query. *)
RunFails(c) ==
  /\ status[c] = "active"
  /\ status' = [status EXCEPT ![c] = "aborting"]
  /\ UNCHANGED <<up, manager, locks, failed, file, id, iso, base, dirty, ws,
                 snap, writes, acked>>

(* abort, by the client or by drop ("active") or by run ("aborting"). *)
Abort(c) ==
  /\ Live(c)
  /\ Release(id[c]) /\ End(c)
  /\ UNCHANGED <<up, manager, failed, file, acked>>
-----------------------------------------------------------------------------
(* commit.                                                                 *)

(* A mutant of MayPublish: no check that the base version is the latest. *)
MayPublishAnyBase(c) == CanExclusive(id[c])
MayPublish(c) == version = base[c] /\ CanExclusive(id[c])

(* The error and read-only paths: the locks go, nothing is published.      *)
(* They are a failed journal, a write conflict, exhausted versions, and a  *)
(* snapshot of the workspace that cannot be taken for the journal.         *)
CommitNothing(c) ==
  /\ status[c] = "active"
  /\ \/ failed
     \/ ~dirty[c]
     \/ dirty[c] /\ ~MayPublish(c)
     \/ dirty[c] /\ version = MaxU64
     \/ dirty[c] /\ Durable
  /\ Release(id[c]) /\ End(c)
  /\ UNCHANGED <<up, manager, failed, file, acked>>

MayAppend(c) ==
  status[c] = "active" /\ dirty[c] /\ ~failed /\ MayPublish(c) /\ version < MaxU64

(* The record is on disk (for a durable manager) and the image is current. *)
CommitPublish(c) ==
  /\ MayAppend(c)
  /\ recs' = IF Durable THEN Append(recs, ws[c]) ELSE recs
  /\ acked' = IF Durable THEN Append(recs, ws[c]) ELSE acked
  /\ database' = ws[c] /\ version' = version + 1
  /\ Release(id[c]) /\ End(c)
  /\ UNCHANGED <<up, nextId, failed, torn>>

(* How a write that did not report success may leave the file: nothing of  *)
(* the record, a part of it, or all of it.                                 *)
Interrupted(img) ==
  \/ recs' = recs /\ torn' \in {torn, TRUE}
  \/ recs' = Append(recs, img) /\ torn' = torn

(* A mutant of JournalFails: the manager goes on using the journal. *)
JournalKeptInUse == failed' = failed
JournalFails == failed' = TRUE

(* append returns an error: the outcome is known only after a reopen. *)
CommitAppendFails(c) ==
  /\ Durable /\ MayAppend(c)
  /\ Interrupted(ws[c]) /\ JournalFails
  /\ Release(id[c]) /\ End(c)
  /\ UNCHANGED <<up, manager, acked>>
-----------------------------------------------------------------------------
(* The process ends: the manager, the lock table and all workspaces go.    *)

Down ==
  /\ up' = FALSE
  /\ database' = Fresh /\ version' = 0 /\ nextId' = 1
  /\ readers' = {} /\ writer' = NoTx /\ failed' = FALSE
  /\ status' = [c \in Client |-> "none"]
  /\ id'     = [c \in Client |-> NoTx]
  /\ iso'    = [c \in Client |-> "Serializable"]
  /\ base'   = [c \in Client |-> 0]
  /\ dirty'  = [c \in Client |-> FALSE]
  /\ ws'     = [c \in Client |-> Fresh]
  /\ snap'   = [c \in Client |-> Fresh]
  /\ writes' = [c \in Client |-> NoWrites]

Crash ==
  /\ Durable /\ up
  /\ Down
  /\ UNCHANGED <<file, acked>>

(* It ends while commit writes its record. *)
CommitCrash(c) ==
  /\ Durable /\ MayAppend(c)
  /\ Interrupted(ws[c]) /\ Down
  /\ UNCHANGED acked
-----------------------------------------------------------------------------
(* new_on_disk.                                                            *)

(* A mutant of Recovered: a torn tail takes the last whole record with it. *)
RecoveredWithoutLast ==
  IF torn /\ Len(recs) > 1 THEN SubSeq(recs, 1, Len(recs) - 1) ELSE recs
Recovered == recs

(* The journal has a complete record: an incomplete tail is cut off and    *)
(* the last record is the committed database.                              *)
Open ==
  /\ Durable /\ ~up /\ recs # <<>>
  /\ up' = TRUE
  /\ recs' = Recovered /\ torn' = FALSE
  /\ version' = Len(recs') - 1 /\ database' = recs'[Len(recs')]
  /\ acked' = IF Len(recs') > Len(acked) THEN recs' ELSE acked
  /\ UNCHANGED <<nextId, locks, failed, txn>>

(* The tail is cut off, then the image cannot be loaded: no manager. *)
OpenLoadFails ==
  /\ Durable /\ ~up /\ recs # <<>>
  /\ recs' = Recovered /\ torn' = FALSE
  /\ UNCHANGED <<up, manager, locks, failed, txn, acked>>

(* A new file: the image of a fresh database becomes record 0. *)
Create ==
  /\ Durable /\ ~up /\ recs = <<>> /\ ~torn
  /\ up' = TRUE
  /\ recs' = <<Fresh>> /\ acked' = <<Fresh>>
  /\ UNCHANGED <<torn, manager, locks, failed, txn>>

(* Record 0 is not written to the end, by an error or by a crash. *)
CreateFails ==
  /\ Durable /\ ~up /\ recs = <<>> /\ ~torn
  /\ Interrupted(Fresh)
  /\ UNCHANGED <<up, manager, locks, failed, txn, acked>>

(* A file with bytes but no complete record is refused, and left alone. *)
OpenRefused ==
  /\ Durable /\ ~up /\ recs = <<>> /\ torn
  /\ UNCHANGED vars
-----------------------------------------------------------------------------
Begin(c) ==
  \/ BeginRefused(c) \/ BeginLocked(c)
  \/ \E i \in Isolation : BeginCopyFails(c, i) \/ BeginOk(c, i)

Run(c) ==
  \/ UpgradeConflict(c) \/ RunFails(c)
  \/ \E k \in Key, v \in Value : RunWrite(c, k, v) \/ RunWriteFails(c, k, v)

Commit(c) ==
  CommitNothing(c) \/ CommitPublish(c) \/ CommitAppendFails(c) \/ CommitCrash(c)

Recovery == Crash \/ Open \/ OpenLoadFails \/ Create \/ CreateFails \/ OpenRefused

Next == (\E c \in Client : Begin(c) \/ Run(c) \/ Abort(c) \/ Commit(c)) \/ Recovery

Spec == Init /\ [][Next]_vars

(* Every transaction is ended by its client, at the latest when its handle *)
(* goes out of scope (Drop); an abort that run has begun is completed.     *)
Ending(c) == Abort(c) \/ CommitNothing(c) \/ CommitPublish(c)
FairSpec == Spec /\ \A c \in Client : WF_vars(Ending(c))
-----------------------------------------------------------------------------
(* Correctness.                                                            *)

(* The transactions that two-phase locking covers. *)
Reader(c) == Live(c) /\ iso[c] = "Serializable"

(* The lock table is exactly what the live transactions are entitled to:   *)
(* S for each Serializable one, X for the one that has written, which then *)
(* shares the database with no other.  No error path leaks a lock.         *)
LockTableExact ==
  /\ \A i \in readers : \E c \in Client : Reader(c) /\ id[c] = i
  /\ \A c \in Client : Reader(c) => id[c] \in readers
  /\ writer # NoTx => \E c \in Client : Reader(c) /\ dirty[c] /\ id[c] = writer
  /\ \A c \in Client : Reader(c) /\ dirty[c] => writer = id[c] /\ readers = {id[c]}

(* Strict two-phase locking: while a Serializable transaction lives nobody *)
(* commits, so it works on the latest committed database throughout.       *)
SerializableSeesLatest ==
  \A c \in Client :
    Reader(c) => base[c] = version /\ snap[c] = database

(* First committer wins: a commit applies what one transaction wrote to    *)
(* the latest committed image, so no concurrent commit is overwritten.     *)
NoLostUpdate ==
  [][up /\ up' /\ <<database, version>>' # <<database, version>> =>
       /\ version' = version + 1
       /\ \E c \in Client :
            /\ status[c] = "active" /\ dirty[c] /\ status'[c] = "none"
            /\ database' = Overlay(database, writes[c])]_vars

(* A commit that was acknowledged, or that a reopened manager has shown to *)
(* its clients, stays in the journal whatever fails or crashes afterwards. *)
AckedSurvive ==
  /\ Len(acked) <= Len(recs)
  /\ \A i \in DOMAIN acked : acked[i] = recs[i]

(* A manager that still commits has a journal that ends with the record of *)
(* its committed database: nothing is ever appended after a torn record or *)
(* after a record whose fate is unknown.                                   *)
UsableJournalIsClean ==
  Durable /\ up /\ ~failed =>
    /\ ~torn
    /\ Len(recs) = version + 1
    /\ recs[Len(recs)] = database

(* Transactions take effect atomically, at one moment each, on committed   *)
(* data that survives crashes: the manager is an AtomicStore.              *)
Committed ==
  IF ~Durable THEN database ELSE IF recs = <<>> THEN Fresh ELSE recs[Len(recs)]
Opened == {c \in Client : Live(c)}
Store == INSTANCE AtomicStore
           WITH store <- Committed, open <- Opened, seen <- snap, view <- ws
ImplementsAtomicStore == Store!Spec

(* The journal file keeps the contract that module Journal implements with *)
(* the bytes of the file.                                                  *)
Log == INSTANCE RecordLog
ImplementsRecordLog == Log!Spec

(* A database locked by a writer becomes free again. *)
WriterReleases == (writer # NoTx) ~> (writer = NoTx)
=============================================================================
