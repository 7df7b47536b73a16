SPECIFICATION Spec
CONSTANTS
  t1 = t1
  t2 = t2
  long = long
  ThingId = {t1}
  IdLen <- MCIdLen
  AppIdLen = 8
  AuthorIdSize = 128
  MaxStarts = 2
  AppStopsAfterStart = FALSE
  NoAssert = FALSE
INVARIANT SerializedStateHandler
\* A failed assertion ends the process.
CHECK_DEADLOCK FALSE
