SPECIFICATION StreamsSpec
CONSTANTS
  MaxFaults = 2
  MaxPieces = 1
  Retries = 1
  OpenRetries = 1
  StatusRetries = 1
  MaxLag = 1
  Answers <- MCAnswers
  webSearchToolName <- MCSearchName
  CallTotals <- MCCallTotals
  CodexAnswers <- MCCodexAnswers
INVARIANTS ReadsWholeAnswer CallsAreWhole
PROPERTIES KeepsPromises Settles
CHECK_DEADLOCK FALSE
