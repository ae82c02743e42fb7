CONSTANTS
  None = None
  NoReply = NoReply
  Unset = Unset
  Requests = {1, 2}
  StoreSources = {1, 2}
  Bodies <- MCBodies
  Clients = {1, 2}
  Asks <- MCAsks
  FavoriteSources = {1, 2, 3, 4}
  Name <- MCName
  Backend <- MCBackend
  Owner <- MCOwner
  UserTenant <- MCUserTenant
  Workers = 1
SPECIFICATION FairSpec
INVARIANTS
  AnswersAreTrue
  EditsAreKept
  FavoritesAgree
PROPERTIES
  RefusedChangesNothing
  RequestsEnd
CHECK_DEADLOCK FALSE
