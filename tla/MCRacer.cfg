SPECIFICATION Spec
CONSTANTS
  Streams <- MCStreams
  Capacity = 1
INVARIANTS
  TypeOK
  RaceInv
  ReportedWasGranted
  GrantedIsReported
PROPERTIES
  StatusIsFinal
CHECK_DEADLOCK FALSE
