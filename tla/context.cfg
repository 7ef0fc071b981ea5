SPECIFICATION ContextSpec
CONSTANTS
  MaxLog = 6
  Sizes = {1, 2}
  SummarySize = 1
  KeepRecentTokens = 3
  f = f
  g = g
  a = a
  b = b
  Paths = {f, g}
  Contents = {a, b}
  NoFile = NoFile
  NumLines = 2
  MaxKept = 2
  Multimodal = FALSE
  Batches <- MCBatches
  MaxFileCalls = 3
  MaxChanges = 2
SYMMETRY Symmetry
INVARIANTS NothingLost RequestCoherent PendingKept
PROPERTIES WastedReadTruthful NoBlindOverwrite
CHECK_DEADLOCK FALSE
