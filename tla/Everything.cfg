SPECIFICATION Spec
CONSTANTS
  e1 = e1
  q1 = q1
  Execs = {e1}
  Workflow = {}
  MaxRetries = 2
  MaxConcurrent = 1
  Reqs = {q1}
  Ops = {"cancel", "delete", "drop", "retry", "resume", "view", "pause"}
  Faults = {"crash", "stop", "save", "lostsave", "lostclaim", "suspend"}
  MaxClaims = 2
  MaxCalls = 1
  MaxFaults = 1
INVARIANTS
  Consistent
PROPERTIES
  ResultOfItsRun
CHECK_DEADLOCK FALSE
