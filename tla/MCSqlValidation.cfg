CONSTANTS
  a = a
  b = b
  t = t
  u = u
  c = c
  d = d
  Schemas = {a, b}
  Names = {t, u}
  ColumnNames = {c, d}
  None = None
  Queries <- MCQueries
  InitialCatalogs <- MCInitialCatalogs
  LastInitialId = 2
  MaxChanges = 1
SPECIFICATION Spec
INVARIANT TypeOK
PROPERTIES
  AcceptedTablesExist
  AcceptedColumnsExist
  ValidIsNotRejected
  ImplementsValidator
  ImplementsCatalog
CHECK_DEADLOCK FALSE
