CONSTANTS
  a = a
  b = b
  t = t
  u = u
  c = c
  d = d
  Schemas = {a, b}
  Names = {t, u}
  ColumnNames = {c, d}
  None = None
  Queries <- MCQueries
  InitialCatalogs <- MCInitialCatalogs
  LastInitialId = 2
  MaxChanges = 0
SPECIFICATION Spec
PROPERTY AllIdentifiersValidated
CHECK_DEADLOCK FALSE
