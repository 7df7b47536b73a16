SPECIFICATION Spec
CONSTANTS
  Message <- MCMessage
  Room <- MCRoom
  PathPrefix <- MCPathPrefix
  NameLen = 9
  ErrorLen = 20
  StackLen <- MCStackLen
INVARIANT NoLeadingComma
CHECK_DEADLOCK FALSE
