SPECIFICATION Spec
CONSTANTS
  Users = {u1, u2}
  StartsLoaded = {"here", "there"}
  MaxCrashes = 1
  MaxCancels = 2
  Schedulers = {s1}
  Builtin = {s1}
  People = {p1, p2}
  MaxTime = 2
  MaxRequests = 2
  MaxErrors = 1
  Callers = {c1, c2}
  Attempts = 2
  MaxFaults = 2
  MaxStops = 1
  MaxCloses = 1
  Nodes = {"s", "a", "b", "j"}
  StartNode = "s"
  Edges <- Diamond
  Joins = {"j"}
  Choosers = {"j"}
  Isolatable = {"b"}
  Fatalable = {"j"}
  Workers = 2
  MaxSteps = 6
PROPERTY
  OutputsAreOwn
CHECK_DEADLOCK FALSE
