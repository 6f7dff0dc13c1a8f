CONSTANTS
  Columns = {1, 2, 3}
  Absent = Absent
  Workers = {w1}
  ClientStates = {TRUE}
  TextsRepeat = TRUE
  ChunkSize = 2
  PageSize = 2
  MaxEdits = 4
SPECIFICATION Spec
INVARIANTS
  TypeOK
  SyncedColumnsAreStored
  FullSyncRepairs
  IncrementalSyncSuffices
  CleanupLeavesNoOrphan
PROPERTY
  RequestsEnd
