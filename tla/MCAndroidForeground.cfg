\* Two calls; MainActivity may be recreated but never resumes with calls going on.
SPECIFICATION Spec
CONSTANTS
  Ids = {i1, i2}
  MaxObjects = 4
  MaxPending = 2
  MaxEvents = 1
  MaxResumes = 0
  MaxActivities = 2
  ForceDisposition = FALSE
  NoCall = NoCall
  NoUuid = NoUuid
SYMMETRY MCSymmetry
INVARIANTS
  NoCallUnseen
  CallsHaveFocus
  ListedOnce
  ShownStateIsCurrent
PROPERTIES
  FocusHoldsTheOthers
