SPECIFICATION FairSpec
CONSTANTS
  MaxCalls = 2
  MaxRuns = 3
  MaxSteps = 2
  Unlimited = Unlimited
  ApprovalVerdicts = {"next", "deny", "ask"}
  PreVerdicts = {"next", "toolResult", "stop"}
  ToolEndings = {"executed", "stopped", "paused"}
  StopTimings = {"beforeExecution", "afterExecution"}
  LiveApprovals = FALSE
  Throws = TRUE
INVARIANTS AtMostOneResult
PROPERTIES RecordedNeverRerun EntriesDangle RunEnds
