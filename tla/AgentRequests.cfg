SPECIFICATION Spec
CONSTANTS
  e1 = e1
  q1 = q1
  q2 = q2
  Execs = {e1}
  Workflow = {}
  MaxRetries = 2
  MaxConcurrent = 1
  Reqs = {q1, q2}
  Ops = {"cancel", "delete", "retry", "resume"}
  Faults = {}
  MaxClaims = 3
  MaxCalls = 2
  MaxFaults = 0
SYMMETRY RequestSymmetry
INVARIANTS
  CancelledIsStopped
  FailureHandled
PROPERTIES
  FinalStatus
CHECK_DEADLOCK FALSE
