SPECIFICATION Spec
CONSTANTS
  e1 = e1
  q1 = q1
  Execs = {e1}
  Workflow = {}
  MaxRetries = 2
  MaxConcurrent = 1
  Reqs = {q1}
  Ops = {"cancel", "retry"}
  Faults = {"crash", "stop", "save", "lostsave", "lostclaim"}
  MaxClaims = 3
  MaxCalls = 1
  MaxFaults = 2
INVARIANTS
  RerunsAreSafe
PROPERTIES
  ImplementsLifecycle
CHECK_DEADLOCK FALSE
