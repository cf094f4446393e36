SPECIFICATION FairSpec
CONSTANTS
  t1 = t1
  t2 = t2
  t3 = t3
  Turns = {t1, t2}
  MaxQueue = 2
  MaxWakes = 1
  MaxCrashes = 0
  MaxRunNow = 0
  MaxBroken = 1
PROPERTY
  QueuedPromptLeaves
CHECK_DEADLOCK FALSE
