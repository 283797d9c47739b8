SPECIFICATION Spec
CONSTANTS
  Calls = {c1, c2}
  NoCall = NoCall
  Seconds = 2
  ManagedCalls = FALSE
PROPERTIES
  KeepsMicrophone
CHECK_DEADLOCK FALSE
