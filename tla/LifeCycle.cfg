SPECIFICATION FairSpec
CONSTANTS
  MaxOpens = 2
  RxBuffers = 2
  TaskDestruction = TRUE
  WakeOnDeleted = TRUE
  Settings <- MCSettings
INVARIANTS ContextsSound SetUpComplete
PROPERTY UsersGoOn
CHECK_DEADLOCK FALSE
