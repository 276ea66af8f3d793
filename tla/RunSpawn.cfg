SPECIFICATION SpawnSpec
CONSTANTS
  TestCases = {c1, c2}
  Plans = {p1}
  StepIds = {s1, s2}
  Requests = {r1}
  MaxStates = 2
  Null = Null
SYMMETRY SymmetryAll
INVARIANTS SpawnTypeOK NothingStale LinksSound PlanHonoured
CHECK_DEADLOCK FALSE
