\* Three calls that begin in one of two seconds.
SPECIFICATION Spec
CONSTANTS
  Calls = {c1, c2, c3}
  NoCall = NoCall
  Seconds = 2
  ManagedCalls = TRUE
SYMMETRY MCSymmetry
INVARIANTS
  TypeOK
  QuietAfterLastCall
  OngoingHasCall
CHECK_DEADLOCK FALSE
