SPECIFICATION Spec
CONSTANTS
  Replicas = {1, 2}
  Names = {"a", "b"}
  Absent = Absent
  MaxDepth = 2
  MaxEntries = 3
  MaxOps = 4
INVARIANTS OneTree
CHECK_DEADLOCK FALSE
