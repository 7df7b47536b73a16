SPECIFICATION Spec
CONSTANTS
  Periods = {1, 60, 4294, 4295}
INVARIANTS
  TypeOK
  UsesLiveConnection
  LeaksOnlyByFault
  PeriodKept
PROPERTIES
  MqttReceiveEnds
\* A receive without a timeout waits for ever for a silent server.
CHECK_DEADLOCK FALSE
