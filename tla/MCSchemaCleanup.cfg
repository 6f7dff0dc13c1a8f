CONSTANTS
  Columns = {1, 2}
  Absent = Absent
  Workers = {w1}
  ClientStates = {TRUE}
  TextsRepeat = FALSE
  ChunkSize = 2
  PageSize = 2
  MaxEdits = 4
SPECIFICATION Spec
INVARIANT CleanupLeavesOnlyDescribed
