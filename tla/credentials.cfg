SPECIFICATION Spec
CONSTANTS
  c1 = c1
  c2 = c2
  Clients = {c1, c2}
  Providers = {"codex", "copilot"}
  None = None
  Foreign = Foreign
  Missing = Missing
  Empty = Empty
  Garbled = Garbled
  ApiKey = ApiKey
  MaxSessions = 1
  MaxTokens = 2
  MaxTasks = 3
  MaxCrashes = 1
  MaxCallbacks = 1
  Auths <- MCAuths
  Stored <- MCStored
INVARIANTS SerialStore StoredTokenWorks LogoutHolds CancelHolds
PROPERTIES TasksEnd
CHECK_DEADLOCK FALSE
