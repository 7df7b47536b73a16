SPECIFICATION Spec
CONSTANTS
  MaxEvents = 4
INVARIANTS
  TypeOK
  StatusFollowsLink
PROPERTIES
  ReturnsOnlyOnline
  ConfigurationLoopsEnd
  NotStuckOnline
\* main() ends in LOOP_FOREVER when a call fails.
CHECK_DEADLOCK FALSE
