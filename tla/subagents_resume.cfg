SPECIFICATION Spec
CONSTANTS
  MaxCalls = 2
  MaxAsks = 1
  Tools = {"forking"}
  MaxFails = 0
INVARIANT ResumedPauseContinues
