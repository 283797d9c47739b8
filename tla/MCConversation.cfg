\* One message when the view opens, two more to come, two coworkers typing.
SPECIFICATION Spec
CONSTANTS
  Typists = {t1, t2}
  MaxTypingUsers = 1
  PageSize = 1
  Initial = 1
  MaxId = 3
  MaxLookups = 2
  MaxRows = 4
  MaxHappened = 4
  MaxBubbles = 2
SYMMETRY MCSymmetry
INVARIANTS
  TypeOK
  OnceAtTop
  LoadingIsAsking
  TypingIsTimed
CHECK_DEADLOCK FALSE
