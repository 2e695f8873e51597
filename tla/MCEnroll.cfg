SPECIFICATION Spec
CONSTANTS
  Sessions = {1, 2, 3}
  Keys = {1}
  MaxIds = 2
INVARIANTS
  TypeOK
  OneChallenge
  MessagesHonest
  IdentityStands
  ConfigMatchesKeys
  ApprovedWasEnrolled
PROPERTIES
  SessionsEnd
CHECK_DEADLOCK FALSE
