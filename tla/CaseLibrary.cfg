SPECIFICATION Spec
CONSTANTS
  f1 = f1  c1 = c1  q1 = q1  viewer = viewer  tester = tester
  None = None
  Absent = Absent
  SeedFolders = {f1}
  SeedCases = {c1}
  SeedSteps <- StepsOfSeed
  Requirements = {q1}
  SeedLinks <- LinksOfSeed
  Users = {viewer, tester}
  Level <- LevelOf
  Requests = {r1, r2, r3}
  Edits <- EditsSome
SYMMETRY Symmetry
INVARIANTS TypeOK AuditReplaysCases
PROPERTIES ReadHidesOnlyNew LinksAudited
CHECK_DEADLOCK FALSE
