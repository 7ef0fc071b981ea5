SPECIFICATION FairSpec
CONSTANTS
  root = root
  child = child
  deep = deep
  c1 = c1
  d1 = d1
  Runs = {root, child, deep}
  Root = root
  Calls = {c1, d1}
  Parent <- MCParent
  Owner <- MCOwner
  MaxSteps = 1
  Throws = TRUE
INVARIANTS MergedInOrder
PROPERTIES PromptAnswerInTime StreamEnds
