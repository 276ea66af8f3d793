SPECIFICATION AdminSpec
CONSTANTS
  Emails = {u1, u2}
  Handlers = {r1, r2}
  Patches <- PatchesAll
  NoRow = NoRow
  Absent = Absent
INVARIANTS AdminLeft
CHECK_DEADLOCK FALSE
