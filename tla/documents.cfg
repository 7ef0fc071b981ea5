SPECIFICATION Spec
CONSTANTS
  Replicas = {1, 2}
  Viewer = 2
  Absent = Absent
  End = End
  Initial = 2
  MaxChars = 4
  MaxComments = 1
  MaxOps = 3
INVARIANTS RangesHold RecordsAgree ViewCatchesUp
CHECK_DEADLOCK FALSE
