SPECIFICATION Spec
CONSTANTS
  c1 = c1  g1 = g1  q1 = q1  f1 = f1  f2 = f2  a1 = a1
  None = None
  Missing = Missing
  SeedCases = {c1}
  SeedFolders = {g1}
  SeedReqs = {q1}
  Filed <- FiledIn
  Flows = {f1, f2, a1}
  Others = {a1}
SYMMETRY Symmetry
INVARIANTS TypeOK EditorCurrent ScreenAgrees
CHECK_DEADLOCK FALSE
