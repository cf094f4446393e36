SPECIFICATION Spec
CONSTANTS
  e1 = e1
  q1 = q1
  Execs = {e1}
  Workflow = {}
  MaxRetries = 1
  MaxConcurrent = 1
  Reqs = {q1}
  Ops = {}
  Faults = {}
  MaxClaims = 2
  MaxCalls = 0
  MaxFaults = 0
INVARIANTS
  DueIsRetried
CHECK_DEADLOCK FALSE
