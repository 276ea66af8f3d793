SPECIFICATION Spec
CONSTANTS
  Calls = {k1, k2, k3}
  Statuses = {"not_run", "pass"}
  Notes = {None, "", "note"}
  None = None
  Absent = Absent
SYMMETRY Symmetry
INVARIANTS TypeOK QuietScreenAgrees
CHECK_DEADLOCK FALSE
