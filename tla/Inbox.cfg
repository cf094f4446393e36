SPECIFICATION FairSpec
CONSTANTS
  m1 = m1
  m2 = m2
  r1 = r1
  Messages = {m1, r1}
  Delegated = {r1}
  RetryLimit = 3
  MaxStops = 1
  MaxCancels = 1
  MaxPrompts = 1
INVARIANTS
  Consistent
  NotRevived
PROPERTIES
  MessagesAreTaken
CHECK_DEADLOCK FALSE
