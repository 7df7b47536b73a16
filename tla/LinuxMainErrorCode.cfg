SPECIFICATION MainSpec
CONSTANTS
  t1 = t1
  t2 = t2
  long = long
  ThingId = {t1, t2, long}
  IdLen <- MCIdLen
  AppIdLen = 8
  AuthorIdSize = 128
  MaxStarts = 1
  AppStopsAfterStart = FALSE
  NoAssert = FALSE
  CommandLines <- MCCommandLines
INVARIANTS
  PrintsWrittenErrorCode
\* exit() and a failed assertion end the process.
CHECK_DEADLOCK FALSE
