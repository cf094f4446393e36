SPECIFICATION FairSpec
CONSTANTS
  c1 = c1
  c2 = c2
  c3 = c3
  c4 = c4
  Callers = {c1, c2, c3, c4}
  Background = {c2}
  Patient = {c2, c3, c4}
  Limits = {1, 2}
  Budgeted = {c1, c3}
  Budget = 1
  MaxCancels = 1
  InlineOf <- InlineCalls
INVARIANTS
  Consistent
  NobodyStranded
PROPERTIES
  ServedInOrder
  ImplementsPool
  RequestsEnd
CHECK_DEADLOCK FALSE
