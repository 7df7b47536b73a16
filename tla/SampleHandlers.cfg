SPECIFICATION Spec
CONSTANTS
  Values = {0, 1}
  Inputs <- MCInputs
  MaxActions = 2
INVARIANTS
  TypeOK
  NoLostUpdate
  StateIsSnapshot
PROPERTIES
  HandlersReturn
\* A mutex whose unlock failed stays locked.
CHECK_DEADLOCK FALSE
