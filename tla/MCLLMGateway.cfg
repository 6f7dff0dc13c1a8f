CONSTANTS
  ProviderCount = 3
  MaxTries = 3
SPECIFICATION Spec
INVARIANTS
  TypeOK
  FallsBackInOrder
  WaitsDouble
  OutcomeIsJustified
\* one call: after it ended there is nothing left to do
CHECK_DEADLOCK FALSE
