SPECIFICATION FairSpec
CONSTANTS
  MaxCalls = 3
  MaxAsks = 1
  Tools = {"specialists", "forking"}
  MaxFails = 1
INVARIANTS ApprovalNotLost GrantedRunsOnce
PROPERTIES CallsAnswered
