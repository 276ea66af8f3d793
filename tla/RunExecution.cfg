SPECIFICATION Spec
CONSTANTS
  n1 = n1  n2 = n2  c1 = c1  t1 = t1
  viewer = viewer  tester = tester  admin = admin
  None = None
  Absent = Absent
  Runs = {n1, n2}
  Cases = {c1}
  Steps = {t1}
  RunOf <- RunOfOne
  CaseOf <- CaseOfOne
  Users = {viewer, tester, admin}
  Level <- LevelOf
  Requests = {r1, r2, r3}
  Results = {"not_run", "pass", "fail"}
  Titles = {"old"}
  Comments = {None}
  Patches <- PatchesAll
SYMMETRY Symmetry
INVARIANTS TypeOK SealAttributed StatusLogged AuditReplaysResults
PROPERTIES FrozenOnceDrained
CHECK_DEADLOCK FALSE
