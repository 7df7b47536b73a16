SPECIFICATION FairSpec
CONSTANTS
  t1 = t1
  t2 = t2
  long = long
  ThingId = {t1, t2, long}
  IdLen <- MCIdLen
  AppIdLen = 8
  AuthorIdSize = 128
  MaxStarts = 1
  AppStopsAfterStart = TRUE
  NoAssert = FALSE
INVARIANTS
  TypeOK
  SendsOwnRequest
  UpdaterIdentity
  ErrorReported
PROPERTIES
  CallsReturn
  UpdaterKeepsGoing
\* A failed assertion ends the process.
CHECK_DEADLOCK FALSE
