SPECIFICATION FairSpec
CONSTANTS
  c1 = c1
  c2 = c2
  k1 = k1
  k2 = k2
  v0 = v0
  v1 = v1
  NoWrite = NoWrite
  Client <- TwoClients
  Key <- TwoKeys
  Value <- TwoValues
  Null = v0
  MaxU64 = 3
  Durable = TRUE
INVARIANTS TypeOK LockTableExact SerializableSeesLatest AckedSurvive UsableJournalIsClean
PROPERTIES NoLostUpdate ImplementsAtomicStore ImplementsRecordLog WriterReleases
