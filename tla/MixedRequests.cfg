SPECIFICATION Spec
CONSTANTS
  e1 = e1
  e2 = e2
  q1 = q1
  Execs = {e1, e2}
  Workflow = {e1}
  MaxRetries = 2
  MaxConcurrent = 1
  Reqs = {q1}
  Ops = {"cancel", "retry", "resume"}
  Faults = {}
  MaxClaims = 2
  MaxCalls = 2
  MaxFaults = 0
INVARIANTS
  HoldingsInStep
  CenterInOrder
  OneRunner
CHECK_DEADLOCK FALSE
