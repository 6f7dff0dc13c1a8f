CONSTANTS
  Columns = {1, 2}
  Absent = Absent
  Workers = {w1, w2}
  ClientStates = {TRUE, FALSE}
  TextsRepeat = TRUE
  ChunkSize = 1
  PageSize = 1
  MaxEdits = 3
SYMMETRY MCSymmetry
SPECIFICATION Spec
INVARIANTS
  SyncedColumnsAreStored
  IncrementalSyncSuffices
  FullSyncRepairs
  CleanupLeavesNoOrphan
PROPERTY
  RequestsGetCloser
