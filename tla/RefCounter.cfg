SPECIFICATION FairCounterSpec
CONSTANTS
  Kinds <- KindsAll
  Counted = {"case", "run"}
  First <- FirstAll
  Requests = {r1, r2, r3, r4}
  None = None
INVARIANTS CounterTypeOK NeverDuplicate
PROPERTIES Consecutive EveryRequestEnds
CHECK_DEADLOCK FALSE
