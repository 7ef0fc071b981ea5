SPECIFICATION FairSpec
CONSTANTS
  MaxCalls = 3
  MaxRuns = 4
  MaxSteps = Unlimited
  Unlimited = Unlimited
  ApprovalVerdicts = {"next", "deny", "ask"}
  PreVerdicts = {"next"}
  ToolEndings = {"executed", "paused"}
  StopTimings = {"afterExecution"}
  LiveApprovals = TRUE
  Throws = FALSE
INVARIANTS ConsentGate RequestAnswered
PROPERTIES RunEnds
