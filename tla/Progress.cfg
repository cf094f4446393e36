SPECIFICATION FairSpec
CONSTANTS
  e1 = e1
  q1 = q1
  Execs = {e1}
  Workflow = {}
  MaxRetries = 2
  MaxConcurrent = 1
  Reqs = {q1}
  Ops = {"cancel", "view"}
  Faults = {"save", "lostsave", "lostclaim"}
  MaxClaims = 2
  MaxCalls = 2
  MaxFaults = 2
PROPERTIES
  QueuedIsClaimed
  NothingIsLeftBehind
CHECK_DEADLOCK FALSE
