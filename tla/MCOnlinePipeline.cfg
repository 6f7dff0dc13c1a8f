CONSTANTS
  query1 = query1
  query2 = query2
  dml = dml
  prose = prose
  noRows = noRows
  thinRows = thinRows
  richRows = richRows
  opaqueRows = opaqueRows
  NoSql = NoSql
  Sql <- MCSql
  ReadOnly <- MCReadOnly
  HasSelect <- MCHasSelect
  Rows <- MCRows
  EmptyRows <- noRows
  ThinRows <- MCThinRows
  OpaqueRows <- MCOpaqueRows
  IntentOutputs <- MCIntentOutputs
  MaxAttempts = 3
SPECIFICATION Spec
INVARIANTS
  TypeOK
  ExecutesOnlyWhatItJustValidated
  CorrectsWhatJustFailed
  StreamProtocol
  StreamTellsTheTruth
  QueryBudget
PROPERTIES
  ResultMatchesHistory
  ImplementsAskService
  QuestionsAreFinite
\* one question: after the reply there is nothing left to do
CHECK_DEADLOCK FALSE
