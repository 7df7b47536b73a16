SPECIFICATION FairSpec
CONSTANTS
  Message <- MCMessage
  Room <- MCRoom
  PathPrefix <- MCPathPrefix
  NameLen = 9
  ErrorLen = 20
  StackLen <- MCStackLen
INVARIANTS
  TypeOK
  ExecutesInOrder
  ReportsWhatRan
  CommasSeparate
  ParsesIntactMessage
  StateAfterResults
PROPERTIES
  CommandEnds
  ImplementsService
\* Reading an uninitialized token may end the process.
CHECK_DEADLOCK FALSE
