\* Two calls on iOS, a third uuid that only CallKit knows.
SPECIFICATION Spec
CONSTANTS
  i1 = i1
  i2 = i2
  u1 = u1
  u2 = u2
  u3 = u3
  Ids <- MCIds
  Uuids <- MCUuids
  NativeUuid <- MCNativeUuid
  Android = FALSE
  ForceDisposition = TRUE
  MaxObjects = 2
  MaxPending = 0
  NoCall = NoCall
  NoUuid = NoUuid
SYMMETRY MCSymmetry
INVARIANTS
  TypeOK
  CallsHaveFocus
  FocusIsListed
  AskedOncePerCall
PROPERTIES
  ArrivalKeepsFocus
  KeepsBook
