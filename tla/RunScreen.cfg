SPECIFICATION Spec
CONSTANTS
  b1 = b1  f1 = f1  f2 = f2  a1 = a1  r1 = r1  d1 = d1  c1 = c1  c2 = c2
  None = None
  Absent = Absent
  Browsers = {b1}
  Cases = {c1, c2}
  SeedRuns = {r1}
  RunCases <- CasesOfRun
  SeedDefects = {d1}
  LinkedTo <- LinkOf
  Flows = {f1, f2, a1}
  Owner <- OwnerOf
SYMMETRY Symmetry
INVARIANTS TypeOK ShownDefectsLinked ShownIsCurrent UnlinksAudited
CHECK_DEADLOCK FALSE
