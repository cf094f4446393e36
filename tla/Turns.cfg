SPECIFICATION FairSpec
CONSTANTS
  t1 = t1
  t2 = t2
  t3 = t3
  Turns = {t1, t2}
  MaxQueue = 1
  MaxWakes = 1
  MaxCrashes = 1
  MaxRunNow = 1
  MaxBroken = 1
INVARIANTS
  Consistent
  EndedIsOver
  SomebodyDrains
  HeldIsFresh
PROPERTIES
  EveryTurnEnds
CHECK_DEADLOCK FALSE
