SPECIFICATION Spec
CONSTANTS
  b1 = b1  f1 = f1  f2 = f2  f3 = f3  c1 = c1  c2 = c2
  d1 = d1  blank = blank  k1 = k1  p1 = p1
  None = None
  Absent = Absent
  Browsers = {b1}
  SeedPlans = {p1}
  Cases = {c1, c2}
  SeedCases = {c1}
  Folders = {d1}
  Parent <- ParentOf
  FolderOf <- CaseFolder
  Conditions = {blank, k1}
  Blank = blank
  Holds <- HoldsOf
  Flows = {f1, f2, f3}
  Owner <- OwnerOf
  MaxGroups = 1
SYMMETRY Symmetry
INVARIANTS TypeOK PlansResolve ScreensShowStored PlansAudited
CHECK_DEADLOCK FALSE
