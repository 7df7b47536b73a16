SPECIFICATION Spec
CONSTANTS
  Periods = {60}
INVARIANTS
  SendAnswers
CHECK_DEADLOCK FALSE
