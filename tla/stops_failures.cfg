SPECIFICATION StopsOnly
CONSTANTS
  Idle = Idle
  Runs = {"main", "left", "right", "deep"}
  Models = {"m", "n", "o"}
  parentOf <- MCParent
  modelOf <- MCModel
  Reports <- MCReports
  MaxCalls = 2
  None = Idle
  Publishable <- MCPublishable
  Internal = {"vendor"}
  Catalog = {"zod"}
  Manifests <- MCManifests
  Versions = {"1.0.0", "1.1.0"}
  MaxAttempts = 2
  Stops <- MCStops
  CallLists <- MCCallLists
  MaxLength = 3
  Nothing = Idle
INVARIANT FailuresCountOnce
CHECK_DEADLOCK FALSE
