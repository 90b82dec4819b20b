SPECIFICATION Spec
CONSTANTS
  Nil = Nil
  MaxStarts = 3
  MaxRows = 3
  MaxLines = 6
  RingCapacity = 3
  TailCap = 4
  LineLevel <- MCLineLevel
  LineMatches <- MCLineMatches
  Plans <- MCPlans
  Heights = {250, 714}
  Forms <- MCForms
  Pointers = {0, 60}
INVARIANTS SessionsAccounted LogFaithful GeometryAgrees
PROPERTIES HandAndEye StopEnds
CHECK_DEADLOCK FALSE
