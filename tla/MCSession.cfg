\* Two users on one phone; restarts, lost answers and retries at any time.
SPECIFICATION Spec
CONSTANTS
  Users = {u1, u2}
  NoUser = NoUser
  MaxRetries = 1
  MaxRequests = 2
INVARIANTS
  TypeOK
  LogOutSticks
  PhoneIsTheUsers
PROPERTIES
  WrongIsFinal
  LogInEnds
  RequestsEnd
