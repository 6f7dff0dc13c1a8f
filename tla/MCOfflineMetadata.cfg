CONSTANTS
  db = db
  s1 = s1
  t1 = t1
  t2 = t2
  id1 = id1
  name2 = name2
  t1_id = t1_id
  DatabaseName = db
  Schemas = {s1}
  Tables = {t1, t2}
  Columns = {id1, name2, t1_id}
  Parent <- MCParent
  Requests = {r1, r2}
  Earlier = r0
  Runs = {g1}
  Selections = {{t1, t2}}
  Texts = {text}
  NoText = NoText
  NoRow = NoRow
  InitialColumns = {id1, name2}
  DeclaredKeys <- MCDeclaredKeys
  IdColumns = {id1}
  RefersTo <- MCRefersTo
  MaxTries = 2
  Changing = {t2}
  MaxEdits = 1
SPECIFICATION Spec
INVARIANTS
  TypeOK
  IndexMirrorsSource
  NoDuplicates
  NoHalfTables
  SamplesAreLists
  SuccessDescribesAll
PROPERTIES
  DescriptionsStay
  ImplementsCatalog
SYMMETRY MCSymmetry
CHECK_DEADLOCK FALSE
